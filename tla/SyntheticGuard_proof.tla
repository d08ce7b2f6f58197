------------------------ MODULE SyntheticGuard_proof ------------------------
(***************************************************************************)
(* Proofs about the guard of an armed synthetic dollar, for any number of  *)
(* passes under way, of requests, prices, bot trades and troubles: what a  *)
(* fire sells is never sold a second time.                                 *)
(***************************************************************************)
EXTENDS SyntheticGuard, TLAPS

Steps == {"idle", "positions", "listed", "marking", "wait", "sent", "arming", "drift"}
Kinds == {"", "tick", "fire", "unwind", "mint", "scale", "close", "arm", "auto"}

(* What the proofs need of the types: prices and sizes are integers.       *)
RowType == [gen : Nat, st : {"none", "armed", "open", "closed"}, trig : Int, high : Int,
            fired : Int, size : Int, rec : Int, auto : BOOLEAN]
JobType == [step : Steps, kind : Kinds, snap : Int, mark : Int, read : RowType, qty : Int,
            side : {"", "sell", "buy"}, reduce : BOOLEAN, fill : Int, ok : BOOLEAN]

TypeInv ==
    /\ mark \in Int
    /\ row \in RowType
    /\ inflight \in BOOLEAN
    /\ short \in Int
    /\ bot \in [venue : Int, book : Int]
    /\ job \in [Jobs -> JobType]
    /\ current \subseteq Jobs

(* The ways that the property excuses.                                     *)
Lapses == {"overlap", "aged", "overtaken"}
Clean  == ways \cap Lapses = {}

Reading(x)  == x.step \in {"positions", "listed", "marking"}
Ordered(x)  == x.step \in {"wait", "sent"}
GuardOut(j) == Ordered(job[j]) /\ job[j].kind \in {"fire", "unwind"}

(* A fire alone is sent on an armed row.                                   *)
OrdersFit ==
    \A j \in Jobs : Ordered(job[j]) =>
        /\ job[j].kind \in {"fire", "unwind", "mint", "scale", "close"}
        /\ job[j].kind = "fire" <=> job[j].read.st = "armed"

(* The position a pass read is the venue's while nothing has changed.      *)
ReadingsHold ==
    \A j \in current : Reading(job[j]) => job[j].snap = short - bot.venue

(* The set of rows in flight is the one order of the guard that is out.    *)
OneGuardOrder ==
    "overlap" \notin ways =>
        /\ inflight <=> \E j \in Jobs : GuardOut(j)
        /\ \A i, j \in Jobs : GuardOut(i) /\ GuardOut(j) => i = j

(* While a fire waits for the lock its row is armed only as it was, and    *)
(* nothing is out: a row that left that state does not come back to it     *)
(* without an unwind, which is an order of the guard too.                  *)
FiresFromFlat ==
    Clean => \A t \in Jobs :
        job[t].step = "wait" /\ job[t].kind = "fire" =>
            /\ job[t].read.gen <= row.gen
            /\ job[t].read.gen = row.gen /\ row.st = "armed" => short = 0

GuardInv == OrdersFit /\ ReadingsHold /\ OneGuardOrder /\ FiresFromFlat

----------------------------------------------------------------------------
(* Rows and what is computed from them.                                    *)
LEMMA LargerType == ASSUME NEW a \in Int, NEW b \in Int PROVE Larger(a, b) \in Int
BY DEF Larger

LEMMA SmallerType == ASSUME NEW a \in Int, NEW b \in Int PROVE Smaller(a, b) \in Int
BY DEF Smaller

LEMMA TrailType == Trail \in Int /\ MaxRecoveries \in Int /\ BotSize \in Int
BY SyntheticGuardAssumption

LEMMA RatchetType ==
    ASSUME NEW r \in RowType, NEW m \in Int
    PROVE Ratchet(r, m) \in [trig : Int, high : Int]
<1>1. Larger(r.high, m) \in Int /\ r.trig \in Int
    BY LargerType DEF RowType
<1> DEFINE high == Larger(r.high, m)
<1>2. Larger(r.trig, high - Trail) \in Int
    <2>1. high - Trail \in Int
        BY <1>1, TrailType
    <2> QED
        BY <1>1, <2>1, LargerType
<1> QED
    BY <1>1, <1>2 DEF Ratchet

(* A pass writes the trigger and its mark, never the state of the row.     *)
LEMMA PatchedType ==
    ASSUME row \in RowType, NEW r \in RowType, NEW m \in Int
    PROVE Patched(r, m) \in RowType /\ Patched(r, m).gen = row.gen /\ Patched(r, m).st = row.st
<1>1. Ratchet(r, m).trig \in Int /\ Ratchet(r, m).high \in Int
    BY RatchetType
<1>2. CASE Patched(r, m) = row
    BY <1>2
<1>3. CASE Patched(r, m) # row
    <2> DEFINE rec == IF Ratchet(r, m).trig # r.trig THEN 0 ELSE row.rec
    <2>1. Patched(r, m) =
            [row EXCEPT !.trig = Ratchet(r, m).trig, !.high = Ratchet(r, m).high, !.rec = rec]
        BY <1>3 DEF Patched
    <2>2. rec \in Int
        BY DEF RowType
    <2> HIDE DEF rec
    <2> QED
        BY <1>1, <2>1, <2>2 DEF RowType
<1> QED
    BY <1>2, <1>3

LEMMA OpenedType ==
    ASSUME NEW r \in RowType, NEW n \in Int, NEW f \in Int
    PROVE Opened(r, n, f) \in RowType /\ Opened(r, n, f).gen = r.gen /\ Opened(r, n, f).st = "open"
BY DEF Opened, RowType

LEMMA IdleType == Idle \in JobType /\ NoRow \in RowType /\ Idle.step = "idle" /\ ~Ordered(Idle) /\ ~Reading(Idle)
BY DEF Idle, NoRow, JobType, RowType, Steps, Kinds, Ordered, Reading

LEMMA OrderType ==
    ASSUME NEW kind \in Kinds, NEW side \in {"sell", "buy"}, NEW n \in Int, NEW reduce \in BOOLEAN,
           NEW r \in RowType
    PROVE /\ Order(kind, side, n, reduce, r) \in JobType
          /\ Order(kind, side, n, reduce, r).step = "wait"
          /\ Order(kind, side, n, reduce, r).kind = kind
          /\ Order(kind, side, n, reduce, r).read = r
BY IdleType DEF Order, JobType, Steps, Kinds, Idle

----------------------------------------------------------------------------
(* Types.                                                                  *)
LEMMA NetType == TypeInv => Net \in Int /\ bot.venue \in Int /\ bot.book \in Int
BY DEF TypeInv, Net

LEMMA JobRead ==
    ASSUME TypeInv, NEW j \in Jobs
    PROVE job[j] \in JobType /\ job[j].read \in RowType /\ job[j].snap \in Int /\ job[j].mark \in Int
          /\ job[j].qty \in Int /\ job[j].fill \in Int
BY DEF TypeInv, JobType

LEMMA MarksAreInts == \A m \in Marks : m \in Int
BY SyntheticGuardAssumption

LEMMA TargetsAreInts == \A n \in Targets : n \in Int
BY SyntheticGuardAssumption

LEMMA TypeInit == Init => TypeInv
<1> SUFFICES ASSUME Init PROVE TypeInv
    OBVIOUS
<1>1. row \in RowType /\ short \in Int
    <2>1. CASE crew.armed
        <3>1. /\ row = [gen |-> 1, st |-> "armed", trig |-> 2, high |-> 3, fired |-> 0, size |-> 0,
                        rec |-> 0, auto |-> FALSE]
              /\ short = 0
            BY <2>1 DEF Init, NoRow
        <3>2. row \in RowType
            BY <3>1 DEF RowType
        <3>3. short \in Int
            BY <3>1
        <3> QED
            BY <3>2, <3>3
    <2>2. CASE ~crew.armed
        <3>1. /\ row = [gen |-> 1, st |-> "open", trig |-> 0, high |-> 0, fired |-> 0, size |-> 2,
                        rec |-> 0, auto |-> TRUE]
              /\ short = 2
            BY <2>2 DEF Init, NoRow
        <3>2. row \in RowType
            BY <3>1 DEF RowType
        <3>3. short \in Int
            BY <3>1
        <3> QED
            BY <3>2, <3>3
    <2> QED
        BY <2>1, <2>2
<1>2. job \in [Jobs -> JobType]
    BY IdleType DEF Init
<1>3. mark = 3 /\ inflight = FALSE /\ bot = [venue |-> 0, book |-> 0] /\ current = {}
    BY DEF Init
<1> QED
    <2>1. bot \in [venue : Int, book : Int]
        BY <1>3
    <2>2. mark \in Int
        BY <1>3
    <2>3. inflight \in BOOLEAN
        BY <1>3
    <2>4. current \subseteq Jobs
        BY <1>3
    <2> QED
        BY <1>1, <1>2, <2>1, <2>2, <2>3, <2>4 DEF TypeInv

(* One job of the pass or the request changes, and perhaps the row.        *)
LEMMA TypeOfStep ==
    ASSUME TypeInv, NEW j \in Jobs, NEW x \in JobType, job' = [job EXCEPT ![j] = x] \/ job' = job,
           row' \in RowType, short' \in Int, inflight' \in BOOLEAN, bot' = bot, mark' = mark,
           current' \subseteq Jobs
    PROVE TypeInv'
BY DEF TypeInv

LEMMA TickTypes ==
    ASSUME TypeInv, NEW t \in Ticks, Tick(t) PROVE TypeInv'
<1>0. t \in Jobs /\ current \subseteq Jobs /\ row \in RowType /\ inflight \in BOOLEAN /\ short \in Int /\ mark \in Int
    BY DEF Jobs, TypeInv
<1>00. job[t] \in JobType /\ job[t].read \in RowType /\ job[t].snap \in Int /\ job[t].mark \in Int
    BY <1>0, JobRead
<1>1. CASE ReadPositions(t)
    <2> DEFINE x == [Idle EXCEPT !.step = "positions", !.kind = "tick", !.snap = Net,
                                 !.mark = IF Net # 0 THEN mark ELSE 0]
    <2>1. x \in JobType
        BY <1>0, NetType, IdleType DEF JobType, Steps, Kinds
    <2>2. job' = [job EXCEPT ![t] = x]
        BY <1>1 DEF ReadPositions, Becomes
    <2> HIDE DEF x
    <2> QED
        BY <1>0, <1>1, <2>1, <2>2, TypeOfStep DEF ReadPositions, market
<1>2. CASE ListRows(t)
    <2>1. PICK x \in JobType : job' = [job EXCEPT ![t] = x]
        <3>1. [job[t] EXCEPT !.step = "listed", !.read = row] \in JobType
            BY <1>0, <1>00 DEF JobType, Steps
        <3> QED
            BY <1>2, <3>1, IdleType DEF ListRows, Becomes, Ends
    <2> QED
        BY <1>0, <1>2, <2>1, TypeOfStep DEF ListRows, market, hist
<1>3. ASSUME NEW m \in Int, Decide(t, m) PROVE TypeInv'
    <2> DEFINE r == job[t].read
               now == Patched(r, m)
               held == job[t].snap + bot.book
    <2>1. now \in RowType /\ held \in Int /\ now.trig \in Int
        <3>1. now \in RowType
            BY <1>0, <1>00, <1>3, PatchedType
        <3> QED
            BY <1>00, <3>1, NetType DEF RowType
    <2>2. CASE TickArmed(t, m)
        <3>1. Opened(now, held, now.trig) \in RowType
            BY <2>1, OpenedType
        <3>2. Sell("fire", now.trig, now) \in JobType
            <4>1. "fire" \in Kinds /\ FALSE \in BOOLEAN
                BY DEF Kinds
            <4> HIDE DEF now
            <4> QED
                BY <2>1, <4>1, OrderType DEF Sell
        <3>3. row' \in RowType /\ inflight' \in BOOLEAN
            BY <1>0, <2>1, <2>2, <3>1 DEF TickArmed
        <3>4. PICK x \in JobType : job' = [job EXCEPT ![t] = x]
            BY <2>2, <3>2, IdleType DEF TickArmed, Becomes, Ends
        <3>5. current' \subseteq Jobs /\ bot' = bot /\ mark' = mark /\ short' = short
            BY <1>0, <2>2 DEF TickArmed, market
        <3> HIDE DEF now, held, r
        <3> QED
            BY <1>0, <3>3, <3>4, <3>5, TypeOfStep
    <2>3. CASE TickOpen(t, m)
        <3> DEFINE reduce == job[t].snap >= row.size
        <3>1. [Buy("unwind", row.size, reduce, row) EXCEPT !.mark = m] \in JobType
            <4>1. Buy("unwind", row.size, reduce, row) \in JobType
                <5>1. "unwind" \in Kinds /\ reduce \in BOOLEAN /\ row.size \in Int
                    BY <1>0 DEF Kinds, RowType
                <5> HIDE DEF reduce
                <5> QED
                    BY <1>0, <5>1, OrderType DEF Buy
            <4> QED
                BY <4>1 DEF JobType
        <3>2. PICK x \in JobType : job' = [job EXCEPT ![t] = x]
            BY <2>3, <3>1, IdleType DEF TickOpen, Becomes, Ends
        <3>3. /\ current' \subseteq Jobs /\ bot' = bot /\ mark' = mark /\ short' = short
              /\ row' = row /\ inflight' \in BOOLEAN
            BY <1>0, <2>3 DEF TickOpen, market
        <3> QED
            BY <1>0, <3>2, <3>3, TypeOfStep
    <2> QED
        BY <1>3, <2>2, <2>3 DEF Decide
<1>4. ASSUME NEW x \in JobType, job' = [job EXCEPT ![t] = x],
             UNCHANGED <<market, row, inflight, short, current>>
      PROVE TypeInv'
    BY <1>0, <1>4, TypeOfStep DEF market
<1>5. CASE Turn(t)
    <2>1. [job[t] EXCEPT !.step = "marking"] \in JobType
        BY <1>00 DEF JobType, Steps
    <2> QED
        BY <1>00, <1>3, <1>4, <1>5, <2>1, IdleType DEF Turn, Becomes, Ends, hist
<1>6. CASE MarkRead(t)
    BY <1>0, <1>3, <1>4, <1>6, IdleType DEF MarkRead, Ends, Becomes, hist
<1> QED
    BY <1>1, <1>2, <1>5, <1>6 DEF Tick

LEMMA SellType ==
    ASSUME NEW kind \in Kinds, NEW n \in Int, NEW r \in RowType
    PROVE \E x \in JobType : /\ x = Sell(kind, n, r)
                             /\ x.step = "wait" /\ x.kind = kind /\ x.read = r
<1> DEFINE no == FALSE
<1>1. "sell" \in {"sell", "buy"} /\ no \in BOOLEAN
    OBVIOUS
<1>2. Sell(kind, n, r) = Order(kind, "sell", n, no, r)
    BY DEF Sell
<1> HIDE DEF no
<1> QED
    BY <1>1, <1>2, OrderType

LEMMA BuyType ==
    ASSUME NEW kind \in Kinds, NEW n \in Int, NEW reduce \in BOOLEAN, NEW r \in RowType
    PROVE \E x \in JobType : /\ x = Buy(kind, n, reduce, r)
                             /\ x.step = "wait" /\ x.kind = kind /\ x.read = r
<1>1. "buy" \in {"sell", "buy"}
    OBVIOUS
<1> QED
    BY <1>1, OrderType DEF Buy

LEMMA ScaleTypes ==
    ASSUME TypeInv, NEW c \in Callers, NEW n \in Targets, Scale(c, n)
    PROVE \E x \in JobType : /\ job' = [job EXCEPT ![c] = x]
                             /\ x.step = "wait" /\ x.kind = "scale" /\ x.read = row
<1>1. row \in RowType /\ row.size \in Int /\ n \in Int
    BY TargetsAreInts DEF TypeInv, RowType
<1>2. n - row.size \in Int /\ row.size - n \in Int /\ "scale" \in Kinds /\ FALSE \in BOOLEAN /\ TRUE \in BOOLEAN
    BY <1>1 DEF Kinds
<1>3. CASE n > row.size
    <2> DEFINE q == n - row.size
    <2>0. job' = [job EXCEPT ![c] = Sell("scale", q, row)]
        BY <1>3 DEF Scale, Becomes
    <2> HIDE DEF q
    <2>1. \E x \in JobType : x = Sell("scale", q, row) /\ x.step = "wait" /\ x.kind = "scale" /\ x.read = row
        BY <1>1, <1>2, SellType DEF q
    <2> QED
        BY <2>0, <2>1
<1>4. CASE ~(n > row.size)
    <2> DEFINE q == row.size - n yes == TRUE
    <2>0. job' = [job EXCEPT ![c] = Buy("scale", q, yes, row)]
        BY <1>4 DEF Scale, Becomes
    <2>2. q \in Int /\ yes \in BOOLEAN
        BY <1>2
    <2> HIDE DEF q, yes
    <2>1. \E x \in JobType : x = Buy("scale", q, yes, row) /\ x.step = "wait" /\ x.kind = "scale" /\ x.read = row
        BY <1>1, <1>2, <2>2, BuyType
    <2> QED
        BY <2>0, <2>1
<1> QED
    BY <1>3, <1>4

(* A request leaves orders of its own kind only, on a row that is not      *)
(* armed, and never arms a row of the generation it finds.                 *)
RequestStep(c) ==
    /\ \/ job' = job
       \/ \E x \in JobType :
            /\ job' = [job EXCEPT ![c] = x]
            /\ ~Reading(x)
            /\ Ordered(x) => x.kind \in {"mint", "scale", "close"} /\ x.read.st # "armed"
            /\ job[c].step \in {"idle", "arming", "drift"}
    /\ row' \in RowType /\ row'.gen >= row.gen
    /\ row'.gen = row.gen /\ row'.st = "armed" => row.st = "armed"
    /\ current' \subseteq current
    /\ ways \cap Lapses \subseteq ways'
    /\ UNCHANGED <<market, inflight, short>>

LEMMA BeginsRequest ==
    ASSUME TypeInv, NEW c \in Callers, NEW x \in JobType, job' = [job EXCEPT ![c] = x],
           job[c].step = "idle", ~Reading(x),
           Ordered(x) => x.kind \in {"mint", "scale", "close"} /\ x.read.st # "armed",
           UNCHANGED <<market, row, inflight, short, hist>>
    PROVE RequestStep(c)
<1>1. row' \in RowType /\ row'.gen >= row.gen
    BY DEF TypeInv, RowType
<1>2. row'.gen = row.gen /\ row'.st = "armed" => row.st = "armed"
    OBVIOUS
<1>3. current' \subseteq current /\ ways \cap Lapses \subseteq ways'
    BY DEF hist
<1> QED
    BY <1>1, <1>2, <1>3 DEF RequestStep

LEMMA RequestSteps ==
    ASSUME TypeInv, NEW c \in Callers,
           RequestOf(c) \/ FinishArm(c) \/ \E n \in Targets : Rebalance(c, n)
    PROVE RequestStep(c)
<1>0. row \in RowType /\ row.size \in Int /\ row.gen \in Nat /\ mark \in Int /\ c \in Jobs
    BY DEF TypeInv, RowType, Jobs
<1>00. job[c] \in JobType /\ job[c].read \in RowType /\ job[c].qty \in Int
    BY <1>0, JobRead
<1> USE <1>0 DEF Becomes
<1>1. CASE StartClose(c)
    <2> DEFINE yes == TRUE
    <2>1. "close" \in Kinds /\ yes \in BOOLEAN
        BY DEF Kinds
    <2>2. /\ job' = [job EXCEPT ![c] = Buy("close", row.size, yes, row)]
          /\ job[c].step = "idle" /\ row.st = "open" /\ UNCHANGED <<market, row, inflight, short, hist>>
        BY <1>1 DEF StartClose, Ready
    <2> HIDE DEF yes
    <2>3. PICK x \in JobType : x = Buy("close", row.size, yes, row) /\ x.step = "wait" /\ x.kind = "close" /\ x.read = row
        BY <2>1, BuyType
    <2> QED
        BY <2>2, <2>3, BeginsRequest DEF Reading
<1>2. CASE \E n \in Targets : StartScale(c, n)
    BY <1>2, ScaleTypes DEF StartScale, Ready, RequestStep, Reading, hist
<1>3. CASE \E n \in Targets : StartMint(c, n)
    <2>1. PICK n \in Targets : StartMint(c, n)
        BY <1>3
    <2>2. "mint" \in Kinds /\ n \in Int /\ FALSE \in BOOLEAN
        BY TargetsAreInts DEF Kinds
    <2>3. PICK x \in JobType : x = Sell("mint", n, row) /\ x.step = "wait" /\ x.kind = "mint" /\ x.read = row
        BY <2>2, SellType
    <2>4. /\ job' = [job EXCEPT ![c] = x]
          /\ job[c].step = "idle" /\ row.st # "armed" /\ UNCHANGED <<market, row, inflight, short, hist>>
        BY <2>1, <2>3 DEF StartMint, Ready, Live
    <2> QED
        BY <2>3, <2>4, BeginsRequest DEF Reading
<1>4. CASE \E p \in Targets : StartArm(c, p)
    <2>1. PICK p \in Targets : StartArm(c, p)
        BY <1>4
    <2> DEFINE x == [Idle EXCEPT !.step = "arming", !.kind = "arm", !.qty = p, !.read = row]
    <2>2. x \in JobType /\ x.step = "arming"
        BY TargetsAreInts, IdleType DEF JobType, Steps, Kinds
    <2>3. /\ job' = [job EXCEPT ![c] = x]
          /\ job[c].step = "idle" /\ UNCHANGED <<market, row, inflight, short, hist>>
        BY <2>1 DEF StartArm, Ready
    <2> HIDE DEF x
    <2> QED
        BY <2>2, <2>3, BeginsRequest DEF Reading, Ordered
<1>5. CASE FinishArm(c)
    <2> DEFINE p == job[c].qty
               r == job[c].read
               attached == [row EXCEPT !.trig = p, !.high = mark, !.fired = p, !.rec = 0, !.auto = FALSE]
               fresh == [NoRow EXCEPT !.gen = row.gen + 1, !.st = "armed", !.trig = p, !.high = mark]
    <2>1. attached \in RowType /\ attached.gen = row.gen /\ attached.st = row.st
        <3> DEFINE zero == 0 no == FALSE
        <3>1. attached = [row EXCEPT !.trig = p, !.high = mark, !.fired = p, !.rec = zero, !.auto = no]
            OBVIOUS
        <3>2. zero \in Int /\ no \in BOOLEAN /\ p \in Int
            BY <1>00
        <3> HIDE DEF zero, no, attached, p
        <3> QED
            BY <3>1, <3>2 DEF RowType
    <2>2. fresh \in RowType /\ fresh.gen = row.gen + 1
        <3> DEFINE next == row.gen + 1
        <3>1. fresh = [NoRow EXCEPT !.gen = next, !.st = "armed", !.trig = p, !.high = mark]
            OBVIOUS
        <3>2. next \in Nat /\ p \in Int /\ NoRow \in RowType
            BY <1>00, IdleType
        <3> HIDE DEF next, fresh, p
        <3>3. fresh \in RowType /\ fresh.gen = next
            BY <3>1, <3>2 DEF RowType
        <3> QED
            BY <3>3 DEF next
    <2>3. row' \in {row, attached, fresh} /\ ways \subseteq ways'
        BY <1>5 DEF FinishArm
    <2>4. /\ row' \in RowType /\ row'.gen >= row.gen
          /\ row'.gen = row.gen /\ row'.st = "armed" => row.st = "armed"
        <3> HIDE DEF attached, fresh
        <3> QED
            BY <2>1, <2>2, <2>3
    <2>5. /\ job' = [job EXCEPT ![c] = Idle] /\ job[c].step = "arming"
          /\ current' = {} /\ UNCHANGED <<market, inflight, short>>
        BY <1>5 DEF FinishArm, Ends
    <2> QED
        BY <2>3, <2>4, <2>5, IdleType DEF RequestStep
<1>6. CASE \E p \in Targets : Update(c, p)
    <2>1. PICK p \in Targets : Update(c, p)
        BY <1>6
    <2>2. p \in Int
        BY TargetsAreInts
    <2>3. row' \in RowType /\ row'.gen = row.gen /\ row'.st = row.st
        <3> DEFINE zero == 0
        <3>1. row' = [row EXCEPT !.trig = p, !.high = zero, !.rec = zero]
            BY <2>1 DEF Update
        <3>2. zero \in Int
            OBVIOUS
        <3> HIDE DEF zero
        <3> QED
            BY <2>2, <3>1, <3>2 DEF RowType
    <2> QED
        BY <2>1, <2>3 DEF Update, RequestStep
<1>7. CASE Disarm(c)
    <2>1. row' \in RowType /\ row'.gen = row.gen /\ (row'.st = "armed" => row.st = "armed")
        <3>1. CASE row.st = "armed"
            BY <1>7, <3>1 DEF Disarm, RowType
        <3>2. CASE row.st # "armed"
            <4> DEFINE zero == 0
            <4>1. row' = [row EXCEPT !.trig = zero, !.high = zero, !.fired = zero]
                BY <1>7, <3>2 DEF Disarm
            <4>2. zero \in Int
                OBVIOUS
            <4> HIDE DEF zero
            <4> QED
                BY <3>2, <4>1, <4>2 DEF RowType
        <3> QED
            BY <3>1, <3>2
    <2> QED
        BY <1>7, <2>1 DEF Disarm, RequestStep
<1>8. CASE SetAuto(c)
    <2>1. row' \in RowType /\ row'.gen = row.gen /\ row'.st = row.st
        BY <1>8 DEF SetAuto, RowType
    <2> QED
        BY <1>8, <2>1 DEF SetAuto, RequestStep
<1>9. CASE StartRebalance(c)
    <2> DEFINE x == [Idle EXCEPT !.step = "drift", !.kind = "auto", !.read = row]
    <2>1. x \in JobType /\ x.step = "drift"
        BY IdleType DEF JobType, Steps, Kinds
    <2>2. /\ job' = [job EXCEPT ![c] = x]
          /\ job[c].step = "idle" /\ UNCHANGED <<market, row, inflight, short, hist>>
        BY <1>9 DEF StartRebalance, Ready
    <2> HIDE DEF x
    <2> QED
        BY <2>1, <2>2, BeginsRequest DEF Reading, Ordered
<1>10. CASE \E n \in Targets : Rebalance(c, n)
    BY <1>10, ScaleTypes, IdleType DEF Rebalance, RequestStep, Ends, Reading, hist
<1> QED
    BY <1>1, <1>2, <1>3, <1>4, <1>5, <1>6, <1>7, <1>8, <1>9, <1>10 DEF RequestOf

LEMMA RequestTypes == ASSUME TypeInv, NEW c \in Callers, RequestStep(c) PROVE TypeInv'
<1>1. c \in Jobs
    BY DEF Jobs
<1>2. row' \in RowType /\ current' \subseteq Jobs /\ short' \in Int /\ inflight' \in BOOLEAN
      /\ bot' = bot /\ mark' = mark
    BY DEF RequestStep, TypeInv, market
<1>3. job' = job \/ \E x \in JobType : job' = [job EXCEPT ![c] = x]
    BY DEF RequestStep
<1> QED
    BY <1>1, <1>2, <1>3, TypeOfStep, IdleType

LEMMA OutcomeType ==
    ASSUME TypeInv, NEW j \in Jobs, NEW o \in Outcomes(j) PROVE o[1] \in Int /\ o[2] \in BOOLEAN
<1>1. Cap(j) \in Int
    <2> DEFINE zero == 0
    <2>1. zero \in Int /\ Net \in Int
        BY NetType
    <2>2. Cap(j) = IF job[j].reduce THEN Smaller(job[j].qty, Larger(zero, Net)) ELSE job[j].qty
        BY DEF Cap
    <2> HIDE DEF zero
    <2>3. Larger(zero, Net) \in Int
        BY <2>1, LargerType
    <2> DEFINE room == Larger(zero, Net)
    <2> HIDE DEF room
    <2>4. Smaller(job[j].qty, room) \in Int
        BY <2>3, JobRead, SmallerType DEF room
    <2> QED
        BY <2>2, <2>4, JobRead DEF room
<1> DEFINE cap == Cap(j)
           full == cap > 0
           one == 1
           zero == 0
           yes == TRUE
           no == FALSE
<1>2. o = <<cap, full, no>> \/ o = <<one, yes, yes>> \/ o = <<zero, no, yes>> \/ o = <<cap, no, yes>>
    BY DEF Outcomes
<1>3. cap \in Int /\ one \in Int /\ zero \in Int /\ full \in BOOLEAN /\ yes \in BOOLEAN /\ no \in BOOLEAN
    BY <1>1
<1> HIDE DEF cap, full, one, zero, yes, no
<1> QED
    BY <1>2, <1>3

(* An order goes out: what the synthetic holds changes, its row does not.  *)
SendStep(j) ==
    /\ job[j].step = "wait"
    /\ \E x \in JobType : /\ job' = [job EXCEPT ![j] = x]
                          /\ x.step = "sent" /\ x.kind = job[j].kind /\ x.read = job[j].read
    /\ short' \in Int
    /\ current' = {} \/ (short' = short /\ current' = current)
    /\ ways' = ways \cup Way("overtaken", row # job[j].read)
    /\ UNCHANGED <<market, row, inflight>>

LEMMA SendSteps == ASSUME TypeInv, NEW j \in Jobs, Send(j) PROVE SendStep(j)
<1>1. PICK o \in Outcomes(j) :
        /\ job' = [job EXCEPT ![j] = [job[j] EXCEPT !.step = "sent", !.fill = o[1], !.ok = o[2]]]
        /\ short' = IF job[j].side = "sell" THEN short + o[1] ELSE short - o[1]
        /\ current' = IF o[1] # 0 THEN {} ELSE current
    BY DEF Send, Becomes
<1>2. o[1] \in Int /\ o[2] \in BOOLEAN
    BY OutcomeType
<1> DEFINE n == o[1] done == o[2]
           x == [job[j] EXCEPT !.step = "sent", !.fill = n, !.ok = done]
<1>3. n \in Int /\ done \in BOOLEAN
    BY <1>2
<1>4. /\ job' = [job EXCEPT ![j] = x]
      /\ short' = IF job[j].side = "sell" THEN short + n ELSE short - n
      /\ current' = IF n # 0 THEN {} ELSE current
    BY <1>1
<1> HIDE DEF n, done
<1>5. x \in JobType /\ x.step = "sent" /\ x.kind = job[j].kind /\ x.read = job[j].read
    BY <1>3, JobRead DEF JobType, Steps
<1>6. short \in Int
    BY DEF TypeInv
<1>7. short' \in Int /\ (current' = {} \/ (short' = short /\ current' = current))
    BY <1>3, <1>4, <1>6
<1>8. /\ job[j].step = "wait"
      /\ ways' = ways \cup Way("overtaken", row # job[j].read)
      /\ UNCHANGED <<market, row, inflight>>
    BY DEF Send
<1> HIDE DEF x
<1> QED
    BY <1>4, <1>5, <1>7, <1>8 DEF SendStep

(* The answer: only an unwind arms a row of the generation it finds.       *)
AnswerStep(j) ==
    /\ job[j].step = "sent"
    /\ job' = [job EXCEPT ![j] = Idle]
    /\ row' \in RowType /\ row'.gen >= row.gen
    /\ row'.gen = row.gen /\ row'.st = "armed" => row.st = "armed" \/ job[j].kind = "unwind"
    /\ inflight' = (inflight /\ job[j].kind \notin {"fire", "unwind"})
    /\ ways \subseteq ways'
    /\ current' \subseteq current
    /\ UNCHANGED <<market, short>>

LEMMA BookedType ==
    ASSUME TypeInv, OrdersFit, NEW j \in Jobs, job[j].step = "sent"
    PROVE /\ Booked(j) \in RowType /\ Booked(j).gen >= row.gen
          /\ Booked(j).gen = row.gen /\ Booked(j).st = "armed" => row.st = "armed" \/ job[j].kind = "unwind"
<1>0. /\ row \in RowType /\ row.gen \in Nat /\ job[j].read \in RowType
      /\ job[j].mark \in Int /\ job[j].qty \in Int /\ job[j].fill \in Int
    BY JobRead DEF TypeInv, RowType
<1>00. /\ job[j].read.trig \in Int /\ job[j].read.fired \in Int /\ job[j].read.rec \in Int
       /\ job[j].read.size \in Int
    BY <1>0 DEF RowType
<1>1. job[j].kind \in {"fire", "unwind", "mint", "scale", "close"}
    BY DEF OrdersFit, Ordered
<1>2. CASE job[j].kind = "mint"
    <2> DEFINE next == row.gen + 1
               n == job[j].qty
    <2>1. Booked(j) = [NoRow EXCEPT !.gen = next, !.st = "open", !.size = n]
        BY <1>2 DEF Booked, Minted
    <2>2. next \in Nat /\ n \in Int /\ NoRow \in RowType /\ next > row.gen
        BY <1>0, IdleType
    <2> HIDE DEF next, n
    <2>3. Booked(j) \in RowType /\ Booked(j).gen = next
        BY <2>1, <2>2 DEF RowType
    <2> QED
        BY <1>0, <2>2, <2>3
<1>3. CASE job[j].kind # "mint" /\ row.gen # job[j].read.gen
    BY <1>0, <1>3 DEF Booked
<1> DEFINE mine == job[j].kind # "mint" /\ row.gen = job[j].read.gen
<1>4. CASE mine /\ job[j].kind = "fire"
    <2>1. Booked(j) = Opened(row, job[j].fill, job[j].read.trig)
        BY <1>4 DEF Booked, Fired
    <2> QED
        BY <1>0, <1>00, <2>1, OpenedType
<1>5. CASE mine /\ job[j].kind = "unwind"
    <2> DEFINE zero == 0 no == FALSE
               level == IF job[j].read.fired # zero THEN job[j].read.fired ELSE job[j].read.trig
               rec == job[j].read.rec + 1
               high == job[j].mark
    <2>1. Booked(j) = [row EXCEPT !.st = "armed", !.size = zero, !.auto = no, !.high = high,
                                  !.fired = zero, !.trig = level, !.rec = rec]
        BY <1>5 DEF Booked, Rearmed
    <2>2. zero \in Int /\ no \in BOOLEAN /\ level \in Int /\ rec \in Int /\ high \in Int
        BY <1>0, <1>00
    <2> HIDE DEF zero, no, level, rec, high
    <2>3. row \in RowType
        BY <1>0
    <2>4. Booked(j) \in RowType
        BY <2>1, <2>2, <2>3 DEF RowType
    <2>5. Booked(j).gen = row.gen
        BY <2>1, <2>3 DEF RowType
    <2> QED
        BY <1>0, <1>5, <2>4, <2>5
<1>6. CASE mine /\ job[j].kind = "scale"
    <2> DEFINE n == IF job[j].side = "sell" THEN job[j].read.size + job[j].qty ELSE job[j].read.size - job[j].qty
    <2>1. Booked(j) = [row EXCEPT !.size = n]
        BY <1>6 DEF Booked, Scaled
    <2>2. n \in Int
        BY <1>0, <1>00
    <2> HIDE DEF n
    <2>3. Booked(j) \in RowType /\ Booked(j).gen = row.gen /\ Booked(j).st = row.st
        BY <1>0, <2>1, <2>2 DEF RowType
    <2> QED
        BY <1>0, <2>3
<1>7. CASE mine /\ job[j].kind = "close"
    <2> DEFINE zero == 0
    <2>1. Booked(j) = [row EXCEPT !.st = "closed", !.size = zero]
        BY <1>7 DEF Booked, Closed
    <2>2. zero \in Int
        OBVIOUS
    <2> HIDE DEF zero
    <2>3. Booked(j) \in RowType /\ Booked(j).gen = row.gen /\ Booked(j).st = "closed"
        BY <1>0, <2>1, <2>2 DEF RowType
    <2> QED
        BY <1>0, <2>3
<1> QED
    BY <1>1, <1>2, <1>3, <1>4, <1>5, <1>6, <1>7

LEMMA AnswerSteps == ASSUME TypeInv, OrdersFit, NEW j \in Jobs, Answer(j) PROVE AnswerStep(j)
<1>1. row' = row \/ row' = Booked(j)
    BY DEF Answer
<1>2. row \in RowType /\ row.gen >= row.gen /\ job[j].step = "sent"
    BY DEF TypeInv, RowType, Answer
<1>3. /\ row' \in RowType /\ row'.gen >= row.gen
      /\ row'.gen = row.gen /\ row'.st = "armed" => row.st = "armed" \/ job[j].kind = "unwind"
    BY <1>1, <1>2, BookedType
<1>4. /\ job' = [job EXCEPT ![j] = Idle]
      /\ inflight' = (inflight /\ job[j].kind \notin {"fire", "unwind"})
      /\ UNCHANGED <<market, short>>
    BY DEF Answer, Ends, Becomes
<1>5. ways \subseteq ways' /\ current' \subseteq current
    BY DEF Answer
<1> QED
    BY <1>2, <1>3, <1>4, <1>5 DEF AnswerStep

LEMMA OrderTypes ==
    ASSUME TypeInv, NEW j \in Jobs, SendStep(j) \/ AnswerStep(j) PROVE TypeInv'
<1>1. /\ row' \in RowType /\ short' \in Int /\ inflight' \in BOOLEAN
      /\ bot' = bot /\ mark' = mark /\ current' \subseteq Jobs
    BY DEF SendStep, AnswerStep, TypeInv, market
<1>2. \E x \in JobType : job' = [job EXCEPT ![j] = x]
    BY IdleType DEF SendStep, AnswerStep
<1> QED
    BY <1>1, <1>2, TypeOfStep

(* A bot, the market, a crash.                                             *)
WorldStep == BotTrades \/ BotBooks \/ MarkMoves \/ Crash \/ UNCHANGED vars

LEMMA WorldTypes == ASSUME TypeInv, WorldStep PROVE TypeInv'
<1>1. CASE BotTrades
    <2>1. bot' \in [venue : Int, book : Int]
        BY <1>1, TrailType DEF BotTrades, TypeInv
    <2> QED
        BY <1>1, <2>1 DEF BotTrades, TypeInv
<1>2. CASE BotBooks
    <2>1. bot' \in [venue : Int, book : Int]
        BY <1>2 DEF BotBooks, TypeInv
    <2> QED
        BY <1>2, <2>1 DEF BotBooks, TypeInv
<1>3. CASE MarkMoves
    BY <1>3, MarksAreInts DEF MarkMoves, TypeInv, hist
<1>4. CASE Crash
    BY <1>4, IdleType DEF Crash, TypeInv, market
<1>5. CASE UNCHANGED vars
    BY <1>5 DEF vars, TypeInv, market, hist
<1> QED
    BY <1>1, <1>2, <1>3, <1>4, <1>5 DEF WorldStep

----------------------------------------------------------------------------
(* What a pass of the guard does: it reads, it goes on or ends, or it      *)
(* sends a fire or an unwind.                                              *)
ReadStep(t) ==
    /\ job[t].step = "idle"
    /\ \E x \in JobType : /\ job' = [job EXCEPT ![t] = x]
                          /\ ~Ordered(x) /\ x.snap = Net
    /\ current' \subseteq current \cup {t}
    /\ UNCHANGED <<market, row, inflight, short, ways>>

GoesOn(t) ==
    /\ Reading(job[t])
    /\ \E x \in JobType : /\ job' = [job EXCEPT ![t] = x]
                          /\ ~Ordered(x)
                          /\ Reading(x) => x.snap = job[t].snap
    /\ row' \in RowType /\ row'.gen = row.gen
    /\ row'.st = "armed" => row.st = "armed"
    /\ inflight' = inflight \/ (inflight' = FALSE /\ (inflight => "overlap" \in ways'))
    /\ current' \subseteq current
    /\ ways \cap Lapses \subseteq ways'
    /\ UNCHANGED <<market, short>>

SendsOut(t, kind, st) ==
    /\ Reading(job[t])
    /\ \E x \in JobType : /\ job' = [job EXCEPT ![t] = x]
                          /\ x.step = "wait" /\ x.kind = kind /\ x.read = row'
    /\ row' \in RowType /\ row'.gen = row.gen /\ row'.st = st /\ row.st = st
    /\ inflight' = TRUE
    /\ inflight => "overlap" \in ways'
    /\ current' \subseteq current
    /\ ways \cap Lapses \subseteq ways'
    /\ kind = "fire" /\ "aged" \notin ways' =>
        t \in current /\ bot.venue = bot.book /\ job[t].snap + bot.book = 0
    /\ UNCHANGED <<market, short>>

TickStep(t) == ReadStep(t) \/ GoesOn(t) \/ SendsOut(t, "fire", "armed") \/ SendsOut(t, "unwind", "open")

(* A step of the pass that leaves the row, the marks and the set alone.    *)
LEMMA GoesOnPlain ==
    ASSUME TypeInv, NEW t \in Ticks, NEW x \in JobType, Reading(job[t]), job' = [job EXCEPT ![t] = x],
           ~Ordered(x), Reading(x) => x.snap = job[t].snap,
           UNCHANGED <<market, row, inflight, short, current, ways>>
    PROVE GoesOn(t)
<1>1. row' \in RowType /\ row'.gen = row.gen /\ row'.st = row.st
    BY DEF TypeInv
<1>2. current' \subseteq current /\ ways \cap Lapses \subseteq ways'
    OBVIOUS
<1>3. inflight' = inflight
    OBVIOUS
<1> QED
    BY <1>1, <1>2, <1>3 DEF GoesOn

LEMMA ArmedSteps ==
    ASSUME TypeInv, NEW t \in Ticks, NEW m \in Int, Reading(job[t]), TickArmed(t, m)
    PROVE GoesOn(t) \/ SendsOut(t, "fire", "armed")
<1> DEFINE r == job[t].read
           now == Patched(r, m)
           held == job[t].snap + bot.book
           acts == Breached(m, Ratchet(r, m).trig) /\ now.gen = r.gen /\ now.st = "armed"
           does == IF acts THEN Assess(held, now.trig) ELSE "nothing"
<1>0. /\ t \in Jobs /\ row \in RowType /\ r \in RowType /\ job[t].snap \in Int /\ bot.book \in Int
      /\ bot.venue \in Int
    BY JobRead, NetType DEF TypeInv, Jobs
<1>1. now \in RowType /\ now.gen = row.gen /\ now.st = row.st /\ now.trig \in Int /\ held \in Int
    <2>1. now \in RowType /\ now.gen = row.gen /\ now.st = row.st
        BY <1>0, PatchedType
    <2> QED
        BY <1>0, <2>1 DEF RowType
<1>2. Opened(now, held, now.trig) \in RowType /\ Opened(now, held, now.trig).gen = row.gen
      /\ Opened(now, held, now.trig).st = "open"
    BY <1>1, OpenedType
<1>3. UNCHANGED <<market, short>> /\ current' \subseteq current
    BY DEF TickArmed
<1>4. CASE job' = [job EXCEPT ![t] = Idle] /\ row' = now /\ ways \subseteq ways' /\ inflight' = inflight
    <2>1. row' \in RowType /\ row'.gen = row.gen /\ row'.st = row.st
        BY <1>1, <1>4
    <2>2. ways \cap Lapses \subseteq ways' /\ inflight' = inflight /\ job' = [job EXCEPT ![t] = Idle]
        BY <1>4
    <2> QED
        BY <1>3, <2>1, <2>2, IdleType DEF GoesOn
<1>5. CASE /\ job' = [job EXCEPT ![t] = Idle] /\ row' = Opened(now, held, now.trig)
           /\ ways \ {"unknown", "crash"} \subseteq ways' /\ inflight' = inflight
    <2>1. row' \in RowType /\ row'.gen = row.gen /\ row'.st = "open"
        BY <1>2, <1>5
    <2>2. inflight' = inflight /\ job' = [job EXCEPT ![t] = Idle]
        BY <1>5
    <2>3. ways \cap Lapses \subseteq ways'
        BY <1>5 DEF Lapses
    <2> QED
        BY <1>3, <2>1, <2>2, <2>3, IdleType DEF GoesOn
<1>6. CASE /\ does = "mint" /\ row' = now /\ job' = [job EXCEPT ![t] = Sell("fire", now.trig, now)]
           /\ inflight' = TRUE
           /\ ways \cup Way("aged", Aged(t)) \cup Way("overlap", inflight) \subseteq ways'
    <2>1. "fire" \in Kinds
        BY DEF Kinds
    <2>2. acts /\ held = 0
        <3>1. acts /\ Assess(held, now.trig) = "mint"
            BY <1>6
        <3> HIDE DEF held, now, acts
        <3> QED
            BY <3>1 DEF Assess
    <2>3. row' \in RowType /\ row'.gen = row.gen /\ row'.st = "armed" /\ row.st = "armed"
        BY <1>1, <1>6, <2>2
    <2> HIDE DEF now, acts, does
    <2>4. PICK x \in JobType : x = Sell("fire", now.trig, now) /\ x.step = "wait" /\ x.kind = "fire" /\ x.read = now
        BY <1>1, <2>1, SellType
    <2>5. job' = [job EXCEPT ![t] = x] /\ x.read = row'
        BY <1>6, <2>4
    <2>6. inflight => "overlap" \in ways'
        BY <1>6 DEF Way
    <2>7. "aged" \notin ways' => t \in current /\ bot.venue = bot.book /\ job[t].snap + bot.book = 0
        BY <1>6, <2>2 DEF Way, Aged
    <2>8. ways \cap Lapses \subseteq ways' /\ inflight' = TRUE
        BY <1>6
    <2> QED
        BY <1>3, <2>3, <2>4, <2>5, <2>6, <2>7, <2>8 DEF SendsOut
<1> HIDE DEF r, now, held, acts, does
<1> QED
    BY <1>4, <1>5, <1>6 DEF TickArmed, Ends, Becomes, r, now, held, acts, does

LEMMA OpenSteps ==
    ASSUME TypeInv, NEW t \in Ticks, NEW m \in Int, Reading(job[t]), TickOpen(t, m)
    PROVE GoesOn(t) \/ SendsOut(t, "unwind", "open")
<1>0. row \in RowType /\ row.size \in Int /\ t \in Jobs
    BY DEF TypeInv, RowType, Jobs
<1>1. UNCHANGED <<market, row, short>> /\ current' \subseteq current
    BY DEF TickOpen
<1>2. CASE /\ job' = [job EXCEPT ![t] = Idle]
           /\ UNCHANGED <<inflight, ways>> \/ (inflight' = FALSE /\ ways' = ways \cup Way("overlap", inflight))
    <2>1. row' \in RowType /\ row'.gen = row.gen /\ row'.st = row.st
        BY <1>0, <1>1
    <2>2. ways \cap Lapses \subseteq ways' /\ job' = [job EXCEPT ![t] = Idle]
        BY <1>2
    <2>3. inflight' = inflight \/ (inflight' = FALSE /\ (inflight => "overlap" \in ways'))
        BY <1>2 DEF Way
    <2> QED
        BY <1>1, <2>1, <2>2, <2>3, IdleType DEF GoesOn
<1> DEFINE reduce == job[t].snap >= row.size
           x == [Buy("unwind", row.size, reduce, row) EXCEPT !.mark = m]
<1>3. CASE /\ job' = [job EXCEPT ![t] = x] /\ row.st = "open" /\ inflight' = TRUE
           /\ ways' = ways \cup Way("aged", Aged(t)) \cup Way("overlap", inflight)
    <2>1. "unwind" \in Kinds /\ reduce \in BOOLEAN
        BY DEF Kinds
    <2>2. x \in JobType /\ x.step = "wait" /\ x.kind = "unwind" /\ x.read = row
        <3> HIDE DEF reduce
        <3>1. PICK y \in JobType : y = Buy("unwind", row.size, reduce, row) /\ y.step = "wait" /\ y.kind = "unwind" /\ y.read = row
            BY <1>0, <2>1, BuyType
        <3>2. x = [y EXCEPT !.mark = m]
            BY <3>1
        <3> QED
            BY <3>1, <3>2 DEF JobType
    <2> HIDE DEF x
    <2>3. row' \in RowType /\ row'.gen = row.gen /\ row'.st = "open" /\ row.st = "open" /\ x.read = row'
        BY <1>0, <1>1, <1>3, <2>2
    <2>4. inflight => "overlap" \in ways'
        BY <1>3 DEF Way
    <2>5. ways \cap Lapses \subseteq ways' /\ inflight' = TRUE /\ job' = [job EXCEPT ![t] = x]
        BY <1>3
    <2> QED
        BY <1>1, <2>2, <2>3, <2>4, <2>5 DEF SendsOut
<1> HIDE DEF x
<1> QED
    BY <1>2, <1>3 DEF TickOpen, Ends, Becomes, x, reduce

LEMMA TickSteps == ASSUME TypeInv, NEW t \in Ticks, Tick(t) PROVE TickStep(t)
<1>0. t \in Jobs /\ job[t] \in JobType /\ job[t].mark \in Int /\ mark \in Int /\ row \in RowType
    BY JobRead DEF TypeInv, Jobs
<1>1. CASE ReadPositions(t)
    <2> DEFINE x == [Idle EXCEPT !.step = "positions", !.kind = "tick", !.snap = Net,
                                 !.mark = IF Net # 0 THEN mark ELSE 0]
    <2>1. x \in JobType /\ ~Ordered(x) /\ x.snap = Net
        BY <1>0, NetType, IdleType DEF JobType, Steps, Kinds, Ordered
    <2>2. /\ job' = [job EXCEPT ![t] = x] /\ job[t].step = "idle" /\ current' \subseteq current \cup {t}
          /\ UNCHANGED <<market, row, inflight, short, ways>>
        BY <1>1 DEF ReadPositions, Becomes
    <2> HIDE DEF x
    <2> QED
        BY <2>1, <2>2 DEF TickStep, ReadStep
<1>2. CASE ListRows(t)
    <2> DEFINE x == [job[t] EXCEPT !.step = "listed", !.read = row]
    <2>1. x \in JobType /\ ~Ordered(x) /\ x.snap = job[t].snap
        BY <1>0 DEF JobType, Steps, Ordered
    <2>2. /\ job' = [job EXCEPT ![t] = x] \/ job' = [job EXCEPT ![t] = Idle]
          /\ Reading(job[t]) /\ UNCHANGED <<market, row, inflight, short, current, ways>>
        BY <1>2 DEF ListRows, Becomes, Ends, Reading, hist
    <2> HIDE DEF x
    <2> QED
        BY <2>1, <2>2, GoesOnPlain, IdleType DEF TickStep
<1>3. ASSUME NEW m \in Int, Reading(job[t]), Decide(t, m) PROVE TickStep(t)
    BY <1>3, ArmedSteps, OpenSteps DEF Decide, TickStep
<1>4. CASE Turn(t)
    <2> DEFINE x == [job[t] EXCEPT !.step = "marking"]
    <2>1. x \in JobType /\ ~Ordered(x) /\ x.snap = job[t].snap /\ Reading(job[t])
        BY <1>0, <1>4 DEF JobType, Steps, Ordered, Reading, Turn
    <2>2. \/ Decide(t, job[t].mark)
          \/ /\ job' = [job EXCEPT ![t] = x] \/ job' = [job EXCEPT ![t] = Idle]
             /\ UNCHANGED <<market, row, inflight, short, current, ways>>
        BY <1>4 DEF Turn, Becomes, Ends, hist
    <2> HIDE DEF x
    <2> QED
        BY <1>0, <1>3, <2>1, <2>2, GoesOnPlain, IdleType DEF TickStep
<1>5. CASE MarkRead(t)
    <2>1. Reading(job[t])
        BY <1>5 DEF MarkRead, Reading
    <2>2. \/ Decide(t, mark)
          \/ /\ job' = [job EXCEPT ![t] = Idle]
             /\ UNCHANGED <<market, row, inflight, short, current, ways>>
        BY <1>5 DEF MarkRead, Becomes, Ends, hist
    <2> QED
        BY <1>0, <1>3, <2>1, <2>2, GoesOnPlain, IdleType DEF TickStep
<1> QED
    BY <1>1, <1>2, <1>4, <1>5 DEF Tick

----------------------------------------------------------------------------
(* The invariant.                                                          *)
LEMMA GuardInit == Init => GuardInv
<1> SUFFICES ASSUME Init PROVE GuardInv
    OBVIOUS
<1>1. /\ \A j \in Jobs : job[j] = Idle
      /\ current = {} /\ inflight = FALSE
    BY DEF Init
<1>2. OrdersFit
    BY <1>1, IdleType DEF OrdersFit
<1>3. ReadingsHold
    BY <1>1 DEF ReadingsHold
<1>4. OneGuardOrder
    BY <1>1, IdleType DEF OneGuardOrder, GuardOut
<1>5. FiresFromFlat
    BY <1>1, IdleType DEF FiresFromFlat
<1> QED
    BY <1>2, <1>3, <1>4, <1>5 DEF GuardInv

(* The orders of the guard stay as they are, and so does what is held.     *)
LEMMA GuardQuiet ==
    ASSUME TypeInv, GuardInv, NEW j \in Jobs, NEW x \in JobType,
           job' = job \/ job' = [job EXCEPT ![j] = x],
           job' = job \/ ~GuardOut(j),
           Reading(x) => j \notin current' \/ x.snap = short - bot.venue,
           Ordered(x) => x.kind \in {"mint", "scale", "close"} /\ x.read.st # "armed",
           row'.gen \in Nat, row'.gen >= row.gen,
           row'.gen = row.gen /\ row'.st = "armed" => row.st = "armed",
           current' \subseteq current \cup {j},
           current' \subseteq current \/ job' = [job EXCEPT ![j] = x],
           "overlap" \in ways' \/ inflight' = inflight,
           ways \cap Lapses \subseteq ways', short' = short,
           bot'.venue = bot.venue \/ current' = {}
    PROVE GuardInv'
<1>1. \A i \in Jobs : job'[i] = job[i] \/ (i = j /\ job'[i] = x)
    BY DEF TypeInv
<1>2. OrdersFit'
    BY <1>1 DEF GuardInv, OrdersFit
<1>3. ReadingsHold'
    <2> SUFFICES ASSUME NEW i \in current', Reading(job'[i]), current' # {}
                 PROVE job'[i].snap = short' - bot'.venue
        BY DEF ReadingsHold
    <2>1. CASE i \in current /\ job'[i] = job[i]
        BY <2>1 DEF GuardInv, ReadingsHold
    <2>2. CASE i = j /\ job' = [job EXCEPT ![j] = x]
        BY <2>2 DEF TypeInv
    <2>3. i \in Jobs
        BY DEF TypeInv
    <2> QED
        BY <1>1, <2>1, <2>2, <2>3
<1>4. OneGuardOrder'
    <2> SUFFICES ASSUME "overlap" \notin ways' PROVE OneGuardOrder'
        BY DEF OneGuardOrder
    <2>1. "overlap" \notin ways
        BY DEF Lapses
    <2>2. \A i \in Jobs : GuardOut(i)' <=> GuardOut(i)
        BY <1>1 DEF GuardOut, TypeInv
    <2> QED
        BY <2>1, <2>2 DEF GuardInv, OneGuardOrder
<1>5. FiresFromFlat'
    <2> SUFFICES ASSUME Clean', NEW t \in Jobs, job'[t].step = "wait", job'[t].kind = "fire"
                 PROVE /\ job'[t].read.gen <= row'.gen
                       /\ job'[t].read.gen = row'.gen /\ row'.st = "armed" => short' = 0
        BY DEF FiresFromFlat
    <2>1. Clean
        BY DEF Clean
    <2>2. job'[t] = job[t]
        BY <1>1 DEF Ordered
    <2>3. job[t].read.gen \in Nat /\ row.gen \in Nat
        BY JobRead DEF RowType, TypeInv
    <2> QED
        BY <2>1, <2>2, <2>3 DEF GuardInv, FiresFromFlat
<1> QED
    BY <1>2, <1>3, <1>4, <1>5 DEF GuardInv

LEMMA GuardRequest == ASSUME TypeInv, GuardInv, NEW c \in Callers, RequestStep(c) PROVE GuardInv'
<1>1. c \in Jobs /\ bot' = bot /\ row'.gen \in Nat
    BY DEF Jobs, RequestStep, market, RowType
<1>2. CASE job' = job
    BY <1>1, <1>2, GuardQuiet, IdleType DEF RequestStep
<1>3. CASE job' # job
    <2>1. PICK x \in JobType :
            /\ job' = [job EXCEPT ![c] = x]
            /\ ~Reading(x)
            /\ Ordered(x) => x.kind \in {"mint", "scale", "close"} /\ x.read.st # "armed"
            /\ job[c].step \in {"idle", "arming", "drift"}
        BY <1>3 DEF RequestStep
    <2>2. ~GuardOut(c)
        BY <2>1 DEF GuardOut, Ordered
    <2> QED
        BY <1>1, <2>1, <2>2, GuardQuiet DEF RequestStep
<1> QED
    BY <1>2, <1>3

LEMMA GuardWorld == ASSUME TypeInv, GuardInv, WorldStep PROVE GuardInv'
<1>1. CASE BotTrades \/ BotBooks \/ MarkMoves \/ UNCHANGED vars
    <2>1. /\ job' = job /\ row' = row /\ inflight' = inflight /\ ways' = ways /\ short' = short
          /\ current' \subseteq current /\ (bot'.venue = bot.venue \/ current' = {})
        BY <1>1 DEF BotTrades, BotBooks, MarkMoves, vars, market, hist, TypeInv
    <2>2. row'.gen \in Nat
        BY <2>1 DEF TypeInv, RowType
    <2>3. OrdersFit'
        BY <2>1 DEF GuardInv, OrdersFit
    <2>4. ReadingsHold'
        BY <2>1 DEF GuardInv, ReadingsHold
    <2>5. OneGuardOrder'
        BY <2>1 DEF GuardInv, OneGuardOrder, GuardOut
    <2>6. FiresFromFlat'
        BY <2>1 DEF GuardInv, FiresFromFlat, Clean
    <2> QED
        BY <2>3, <2>4, <2>5, <2>6 DEF GuardInv
<1>2. CASE Crash
    <2>1. /\ \A j \in Jobs : job'[j] = Idle
          /\ current' = {} /\ inflight' = FALSE
        BY <1>2 DEF Crash
    <2>2. OrdersFit'
        BY <2>1, IdleType DEF OrdersFit
    <2>3. ReadingsHold'
        BY <2>1 DEF ReadingsHold
    <2>4. OneGuardOrder'
        BY <2>1, IdleType DEF OneGuardOrder, GuardOut
    <2>5. FiresFromFlat'
        BY <2>1, IdleType DEF FiresFromFlat
    <2> QED
        BY <2>2, <2>3, <2>4, <2>5 DEF GuardInv
<1> QED
    BY <1>1, <1>2 DEF WorldStep

(* An order that goes out while a fire waits: if the row is what the fire  *)
(* was decided on, only another order of the guard would do so unnoticed.  *)
LEMMA GuardSend == ASSUME TypeInv, GuardInv, NEW j \in Jobs, SendStep(j) PROVE GuardInv'
<1>1. PICK x \in JobType : /\ job' = [job EXCEPT ![j] = x]
                           /\ x.step = "sent" /\ x.kind = job[j].kind /\ x.read = job[j].read
    BY DEF SendStep
<1>2. \A i \in Jobs : job'[i] = IF i = j THEN x ELSE job[i]
    BY <1>1 DEF TypeInv
<1>3. job[j].step = "wait" /\ UNCHANGED <<market, row, inflight>> /\ bot' = bot /\ ways \subseteq ways'
    BY DEF SendStep, market
<1>4. OrdersFit'
    BY <1>1, <1>2, <1>3 DEF GuardInv, OrdersFit, Ordered
<1>5. ReadingsHold'
    <2>1. \A i \in current' : i \in current /\ short' = short
        BY DEF SendStep
    <2> QED
        BY <1>1, <1>2, <1>3, <2>1 DEF GuardInv, ReadingsHold, Reading, TypeInv
<1>6. OneGuardOrder'
    <2>1. \A i \in Jobs : GuardOut(i)' <=> GuardOut(i)
        BY <1>1, <1>2, <1>3 DEF GuardOut, Ordered
    <2> QED
        BY <1>3, <2>1 DEF GuardInv, OneGuardOrder
<1>7. FiresFromFlat'
    <2> SUFFICES ASSUME Clean', NEW t \in Jobs, job'[t].step = "wait", job'[t].kind = "fire"
                 PROVE /\ job'[t].read.gen <= row'.gen
                       /\ job'[t].read.gen = row'.gen /\ row'.st = "armed" => short' = 0
        BY DEF FiresFromFlat
    <2>1. Clean /\ "overlap" \notin ways /\ "overtaken" \notin ways'
        BY <1>3 DEF Clean, Lapses
    <2>2. t # j /\ job'[t] = job[t] /\ GuardOut(t)
        BY <1>1, <1>2 DEF GuardOut, Ordered
    <2>3. row = job[j].read
        BY <2>1 DEF SendStep, Way
    <2>4. row.st # "armed"
        <3> SUFFICES ASSUME row.st = "armed" PROVE FALSE
            OBVIOUS
        <3>1. job[j].kind = "fire"
            BY <1>3, <2>3 DEF GuardInv, OrdersFit, Ordered
        <3>2. GuardOut(j)
            BY <1>3, <3>1 DEF GuardOut, Ordered
        <3> QED
            BY <2>1, <2>2, <3>2 DEF GuardInv, OneGuardOrder
    <2> QED
        BY <1>3, <2>1, <2>2, <2>4 DEF GuardInv, FiresFromFlat
<1> QED
    BY <1>4, <1>5, <1>6, <1>7 DEF GuardInv

LEMMA GuardAnswer == ASSUME TypeInv, GuardInv, NEW j \in Jobs, AnswerStep(j) PROVE GuardInv'
<1>1. \A i \in Jobs : job'[i] = IF i = j THEN Idle ELSE job[i]
    BY DEF AnswerStep, TypeInv
<1>2. /\ job[j].step = "sent" /\ bot' = bot /\ short' = short /\ ways \subseteq ways' /\ current' \subseteq current
      /\ inflight' = (inflight /\ job[j].kind \notin {"fire", "unwind"})
    BY DEF AnswerStep, market
<1>3. OrdersFit'
    BY <1>1, IdleType DEF GuardInv, OrdersFit
<1>4. ReadingsHold'
    BY <1>1, <1>2, IdleType DEF GuardInv, ReadingsHold, TypeInv
<1>5. OneGuardOrder'
    <2> SUFFICES ASSUME "overlap" \notin ways' PROVE OneGuardOrder'
        BY DEF OneGuardOrder
    <2>1. \A i \in Jobs : GuardOut(i)' <=> GuardOut(i) /\ i # j
        BY <1>1, IdleType DEF GuardOut
    <2>2. GuardOut(j) <=> job[j].kind \in {"fire", "unwind"}
        BY <1>2 DEF GuardOut, Ordered
    <2>3. (inflight <=> \E i \in Jobs : GuardOut(i)) /\ (\A i, k \in Jobs : GuardOut(i) /\ GuardOut(k) => i = k)
        BY <1>2 DEF GuardInv, OneGuardOrder
    <2>4. inflight' <=> \E i \in Jobs : GuardOut(i)'
        BY <1>2, <2>1, <2>2, <2>3
    <2>5. \A i, k \in Jobs : GuardOut(i)' /\ GuardOut(k)' => i = k
        BY <2>1, <2>3
    <2> QED
        BY <2>4, <2>5 DEF OneGuardOrder
<1>6. FiresFromFlat'
    <2> SUFFICES ASSUME Clean', NEW t \in Jobs, job'[t].step = "wait", job'[t].kind = "fire"
                 PROVE /\ job'[t].read.gen <= row'.gen
                       /\ job'[t].read.gen = row'.gen /\ row'.st = "armed" => short' = 0
        BY DEF FiresFromFlat
    <2>1. Clean /\ "overlap" \notin ways
        BY <1>2 DEF Clean, Lapses
    <2>2. t # j /\ job'[t] = job[t] /\ GuardOut(t)
        BY <1>1, IdleType DEF GuardOut, Ordered
    <2>3. job[j].kind # "unwind"
        BY <1>2, <2>1, <2>2 DEF GuardInv, OneGuardOrder, GuardOut, Ordered
    <2>4. row'.gen >= row.gen /\ (row'.gen = row.gen /\ row'.st = "armed" => row.st = "armed")
        BY <2>3 DEF AnswerStep
    <2>5. row'.gen \in Nat /\ row.gen \in Nat /\ job[t].read.gen \in Nat
        BY JobRead DEF AnswerStep, TypeInv, RowType
    <2>6. /\ job[t].read.gen <= row.gen
          /\ job[t].read.gen = row.gen /\ row.st = "armed" => short = 0
        BY <2>1, <2>2 DEF GuardInv, FiresFromFlat
    <2> QED
        BY <1>2, <2>2, <2>4, <2>5, <2>6
<1> QED
    BY <1>3, <1>4, <1>5, <1>6 DEF GuardInv

(* A pass that sends found, on readings of one moment, nothing out.        *)
LEMMA GuardSendsOut ==
    ASSUME TypeInv, GuardInv, NEW t \in Ticks, NEW kind, NEW st,
           (kind = "fire" /\ st = "armed") \/ (kind = "unwind" /\ st = "open"), SendsOut(t, kind, st)
    PROVE GuardInv'
<1>0. t \in Jobs /\ bot' = bot /\ short' = short
    BY DEF Jobs, SendsOut, market
<1>1. PICK x \in JobType : /\ job' = [job EXCEPT ![t] = x]
                           /\ x.step = "wait" /\ x.kind = kind /\ x.read = row'
    BY DEF SendsOut
<1>2. \A i \in Jobs : job'[i] = IF i = t THEN x ELSE job[i]
    BY <1>1 DEF TypeInv
<1>3. OrdersFit'
    BY <1>1, <1>2 DEF GuardInv, OrdersFit, SendsOut
<1>4. ReadingsHold'
    <2>1. ~Reading(x) /\ current' \subseteq current
        BY <1>1 DEF Reading, SendsOut
    <2> QED
        BY <1>0, <1>2, <2>1 DEF GuardInv, ReadingsHold, TypeInv
<1>5. OneGuardOrder'
    <2> SUFFICES ASSUME "overlap" \notin ways' PROVE OneGuardOrder'
        BY DEF OneGuardOrder
    <2>1. "overlap" \notin ways /\ ~inflight /\ inflight' = TRUE
        BY DEF SendsOut, Lapses
    <2>2. \A i \in Jobs : ~GuardOut(i)
        BY <2>1 DEF GuardInv, OneGuardOrder
    <2>3. \A i \in Jobs : GuardOut(i)' <=> i = t
        BY <1>1, <1>2, <2>2 DEF GuardOut, Ordered
    <2> QED
        BY <1>0, <2>1, <2>3 DEF OneGuardOrder
<1>6. FiresFromFlat'
    <2> SUFFICES ASSUME Clean', NEW i \in Jobs, job'[i].step = "wait", job'[i].kind = "fire"
                 PROVE /\ job'[i].read.gen <= row'.gen
                       /\ job'[i].read.gen = row'.gen /\ row'.st = "armed" => short' = 0
        BY DEF FiresFromFlat
    <2>1. Clean /\ "aged" \notin ways' /\ row'.gen = row.gen /\ row.st = row'.st /\ row.gen \in Nat
        BY DEF Clean, Lapses, SendsOut, TypeInv, RowType
    <2>2. CASE i = t
        <3>1. t \in current /\ bot.venue = bot.book /\ job[t].snap + bot.book = 0 /\ Reading(job[t])
            BY <1>1, <1>2, <2>1, <2>2 DEF SendsOut
        <3>2. job[t].snap = short - bot.venue
            BY <3>1 DEF GuardInv, ReadingsHold
        <3>3. short = 0
            BY <3>1, <3>2, NetType DEF TypeInv
        <3>4. job'[i].read = row'
            BY <1>1, <1>2, <2>2
        <3> QED
            BY <1>0, <2>1, <3>3, <3>4
    <2>3. CASE i # t
        BY <1>0, <1>2, <2>1, <2>3 DEF GuardInv, FiresFromFlat
    <2> QED
        BY <2>2, <2>3
<1> QED
    BY <1>3, <1>4, <1>5, <1>6 DEF GuardInv

LEMMA GuardTick == ASSUME TypeInv, GuardInv, NEW t \in Ticks, TickStep(t) PROVE GuardInv'
<1>0. t \in Jobs /\ row.gen \in Nat
    BY DEF Jobs, TypeInv, RowType
<1>1. CASE ReadStep(t)
    <2>1. PICK x \in JobType : job' = [job EXCEPT ![t] = x] /\ ~Ordered(x) /\ x.snap = Net
        BY <1>1 DEF ReadStep
    <2>2. ~GuardOut(t) /\ x.snap = short - bot.venue
        BY <1>1, <2>1 DEF ReadStep, GuardOut, Ordered, Net
    <2>3. /\ row' = row /\ inflight' = inflight /\ short' = short /\ ways' = ways /\ bot' = bot
          /\ current' \subseteq current \cup {t}
        BY <1>1 DEF ReadStep, market
    <2>4. /\ row'.gen \in Nat /\ row'.gen >= row.gen
          /\ row'.gen = row.gen /\ row'.st = "armed" => row.st = "armed"
        BY <1>0, <2>3
    <2>5. /\ bot'.venue = bot.venue \/ current' = {}
          /\ ways \cap Lapses \subseteq ways'
          /\ "overlap" \in ways' \/ inflight' = inflight
        BY <2>3
    <2> QED
        BY <1>0, <2>1, <2>2, <2>3, <2>4, <2>5, GuardQuiet
<1>2. CASE GoesOn(t)
    <2>1. PICK x \in JobType : job' = [job EXCEPT ![t] = x] /\ ~Ordered(x) /\ (Reading(x) => x.snap = job[t].snap)
        BY <1>2 DEF GoesOn
    <2>2. ~GuardOut(t)
        BY <1>2 DEF GoesOn, GuardOut, Ordered, Reading
    <2>3. Reading(x) => t \notin current' \/ x.snap = short - bot.venue
        BY <1>2, <2>1 DEF GoesOn, GuardInv, ReadingsHold
    <2>4. /\ row'.gen = row.gen /\ short' = short /\ bot' = bot /\ current' \subseteq current
          /\ row'.st = "armed" => row.st = "armed"
          /\ ways \cap Lapses \subseteq ways'
        BY <1>2 DEF GoesOn, market
    <2>5. "overlap" \in ways' \/ inflight' = inflight
        BY <1>2 DEF GoesOn, TypeInv
    <2>6. /\ row'.gen \in Nat /\ row'.gen >= row.gen
          /\ bot'.venue = bot.venue \/ current' = {}
          /\ current' \subseteq current \cup {t}
        BY <1>0, <2>4
    <2> QED
        BY <1>0, <2>1, <2>2, <2>3, <2>4, <2>5, <2>6, GuardQuiet
<1>3. CASE SendsOut(t, "fire", "armed")
    BY <1>3, GuardSendsOut
<1>4. CASE SendsOut(t, "unwind", "open")
    BY <1>4, GuardSendsOut
<1> QED
    BY <1>1, <1>2, <1>3, <1>4 DEF TickStep

----------------------------------------------------------------------------
(* Every step is one of a pass, of a request, of an order or of the world. *)
LEMMA StepKinds ==
    ASSUME TypeInv, OrdersFit, [Next]_vars
    PROVE \/ \E t \in Ticks : TickStep(t)
          \/ \E c \in Callers : RequestStep(c)
          \/ \E j \in Jobs : SendStep(j) \/ AnswerStep(j)
          \/ WorldStep
<1>1. ASSUME NEW t \in Ticks, Tick(t) PROVE TickStep(t)
    BY <1>1, TickSteps
<1>2. ASSUME NEW c \in Callers, RequestOf(c) \/ FinishArm(c) \/ \E n \in Targets : Rebalance(c, n)
      PROVE RequestStep(c)
    BY <1>2, RequestSteps
<1>3. ASSUME NEW j \in Jobs, Send(j) PROVE SendStep(j)
    BY <1>3, SendSteps
<1>4. ASSUME NEW j \in Jobs, Answer(j) PROVE AnswerStep(j)
    BY <1>4, AnswerSteps
<1> QED
    BY <1>1, <1>2, <1>3, <1>4 DEF Next, WorldStep

LEMMA InvInit == Init => TypeInv /\ GuardInv
BY TypeInit, GuardInit

LEMMA InvStep == TypeInv /\ GuardInv /\ [Next]_vars => TypeInv' /\ GuardInv'
<1> SUFFICES ASSUME TypeInv, GuardInv, [Next]_vars PROVE TypeInv' /\ GuardInv'
    OBVIOUS
<1>1. OrdersFit
    BY DEF GuardInv
<1>2. ASSUME NEW t \in Ticks, Tick(t) PROVE TypeInv' /\ GuardInv'
    BY <1>2, TickTypes, TickSteps, GuardTick
<1>3. ASSUME NEW c \in Callers, RequestStep(c) PROVE TypeInv' /\ GuardInv'
    BY <1>3, RequestTypes, GuardRequest
<1>4. ASSUME NEW j \in Jobs, SendStep(j) \/ AnswerStep(j) PROVE TypeInv' /\ GuardInv'
    BY <1>4, OrderTypes, GuardSend, GuardAnswer
<1>5. CASE WorldStep
    BY <1>5, WorldTypes, GuardWorld
<1>6. ASSUME NEW c \in Callers, RequestOf(c) \/ FinishArm(c) \/ \E n \in Targets : Rebalance(c, n)
      PROVE TypeInv' /\ GuardInv'
    BY <1>3, <1>6, RequestSteps
<1>7. ASSUME NEW j \in Jobs, Send(j) \/ Answer(j) PROVE TypeInv' /\ GuardInv'
    BY <1>1, <1>4, <1>7, SendSteps, AnswerSteps
<1> QED
    BY <1>2, <1>5, <1>6, <1>7 DEF Next, WorldStep

(* A fire that sells found nothing of the synthetic out, unless one of the *)
(* three lapses has been met: on the row it was decided on nothing was out *)
(* then, and nothing has gone out since (synthetic-guard.ts).              *)
FireFromFlat(t) == Sells(t) => short = 0 \/ ways' \cap Lapses # {}

LEMMA FireStep == ASSUME TypeInv, GuardInv, [Next]_vars PROVE \A t \in Ticks : FireFromFlat(t)
<1> SUFFICES ASSUME NEW t \in Ticks, Sells(t), ways' \cap Lapses = {} PROVE short = 0
    BY DEF FireFromFlat
<1>0. t \in Jobs /\ job[t].step = "wait" /\ job[t].kind = "fire" /\ job'[t].step = "sent" /\ OrdersFit
    BY DEF Jobs, Sells, GuardInv
<1>1. SendStep(t)
    <2>1. ASSUME NEW u \in Ticks, TickStep(u) PROVE FALSE
        <3>1. job[u].step # "wait" /\ \E x \in JobType : job' = [job EXCEPT ![u] = x]
            BY <2>1 DEF TickStep, ReadStep, GoesOn, SendsOut, Reading
        <3> QED
            BY <1>0, <3>1 DEF TypeInv
    <2>2. ASSUME NEW c \in Callers, RequestStep(c) PROVE FALSE
        <3>1. job' = job \/ (job[c].step # "wait" /\ \E x \in JobType : job' = [job EXCEPT ![c] = x])
            BY <2>2 DEF RequestStep
        <3> QED
            BY <1>0, <3>1 DEF TypeInv
    <2>3. ASSUME NEW j \in Jobs, AnswerStep(j) PROVE FALSE
        BY <1>0, <2>3 DEF AnswerStep, TypeInv
    <2>4. ASSUME NEW j \in Jobs, SendStep(j) PROVE j = t
        BY <1>0, <2>4 DEF SendStep, TypeInv
    <2>5. ASSUME WorldStep PROVE FALSE
        <3>1. job' = job \/ \A j \in Jobs : job'[j] = Idle
            BY <2>5 DEF WorldStep, BotTrades, BotBooks, MarkMoves, Crash, vars
        <3> QED
            BY <1>0, <3>1, IdleType
    <2> QED
        BY <1>0, <2>1, <2>2, <2>3, <2>4, <2>5, StepKinds
<1>2. Clean /\ row = job[t].read
    BY <1>1 DEF SendStep, Clean, Lapses, Way
<1>3. row.st = "armed"
    BY <1>0, <1>2 DEF OrdersFit, Ordered
<1> QED
    BY <1>0, <1>2, <1>3 DEF GuardInv, FiresFromFlat

(* However many passes overlap, whatever the operator, the rebalancer and  *)
(* the bots do in between, and after every crash or lost answer: a fire    *)
(* sells only while nothing of the synthetic is out, unless two passes     *)
(* went on at once, its readings were not of one moment or its row had     *)
(* changed (tickArmed, synthetic-guard.ts).                           *)
THEOREM SoldOnce == Spec => NeverSoldTwice
<1>1. Init => TypeInv /\ GuardInv
    BY InvInit
<1>2. TypeInv /\ GuardInv /\ [Next]_vars => TypeInv' /\ GuardInv'
    BY InvStep
<1>3. TypeInv /\ GuardInv /\ [Next]_vars
        => [\A t \in Ticks : Sells(t) => short = 0 \/ ways' \cap {"overlap", "aged", "overtaken"} # {}]_vars
    BY FireStep DEF FireFromFlat, Lapses
<1> QED
    BY <1>1, <1>2, <1>3, PTL DEF Spec, NeverSoldTwice

----------------------------------------------------------------------------
(* What the row says is what is held. The ways that are healed:            *)
Healed == {"unknown", "crash"}

SizeOf(r) == IF r.st = "open" THEN r.size ELSE 0
Moves(x)  == IF x.side = "sell" THEN x.fill ELSE -x.fill
LevelOf(r) == IF r.fired # 0 THEN r.fired ELSE r.trig

Sent(j)   == job[j].step = "sent"
Listed(x) == x.step \in {"listed", "marking"}

(* An order trades with its lock held.                                     *)
LockFits == \A j \in Jobs : Sent(j) => lock = j

(* The row a pass listed is the row while nothing has changed.             *)
ListedHold == \A t \in current : Listed(job[t]) => job[t].read = row

(* Each order is one for the row that it was sent on.                      *)
OrderShape(x) ==
    /\ x.kind \in {"fire", "mint"} => x.side = "sell" /\ x.read.st # "open"
    /\ x.kind \in {"unwind", "close"} => x.side # "sell" /\ x.qty = x.read.size /\ x.read.st = "open"
    /\ x.kind = "unwind" => x.read.trig # 0
    /\ x.kind = "scale" => x.read.st = "open"

OrdersShaped == \A j \in Jobs : Ordered(job[j]) => OrderShape(job[j])

(* While an order trades, its row may move on but not back.                *)
Follows(x) ==
    /\ x.read.gen <= row.gen
    /\ x.read.gen = row.gen /\ row.st = "armed" => x.read.st = "armed"

MovedOn(x) ==
    \/ x.read.gen < row.gen
    \/ x.read.gen = row.gen /\ row.st # "armed" /\ x.read.st = "armed"

SentFollows == ways \subseteq Healed => \A j \in Jobs : Sent(j) => Follows(job[j])

HeldFits ==
    ways = {} =>
        /\ (\A j \in Jobs : ~Sent(j)) => short = SizeOf(row)
        /\ \A j \in Jobs : Sent(j) =>
            /\ short = SizeOf(row) + Moves(job[j]) \/ MovedOn(job[j])
            /\ job[j].fill = 0 => short = SizeOf(row)

(* The trigger, and the level a bought-back row arms at again.             *)
LevelOk(r, b) ==
    /\ r.st = "armed" => r.trig >= b
    /\ r.st = "open" /\ r.trig # 0 => LevelOf(r) >= b
    /\ r.rec <= MaxRecoveries

LevelHolds == ways \subseteq Healed => LevelOk(row, best)

UnwindsLeft ==
    ways \subseteq Healed =>
        \A j \in Jobs : Ordered(job[j]) /\ job[j].kind = "unwind" => job[j].read.rec < MaxRecoveries

WordInv ==
    /\ best \in Int
    /\ LockFits /\ ListedHold /\ OrdersShaped /\ SentFollows /\ HeldFits /\ LevelHolds /\ UnwindsLeft

LEMMA WordInit == Init => WordInv
<1> SUFFICES ASSUME Init PROVE WordInv
    OBVIOUS
<1>1. /\ \A j \in Jobs : job[j] = Idle
      /\ current = {}
    BY DEF Init
<1>2. \A j \in Jobs : ~Ordered(job[j]) /\ ~Sent(j)
    BY <1>1, IdleType DEF Sent, Ordered
<1>3. best \in Int /\ short = SizeOf(row) /\ LevelOk(row, best)
    <2>0. 0 <= MaxRecoveries
        BY SyntheticGuardAssumption
    <2>1. CASE crew.armed
        <3>1. /\ row = [gen |-> 1, st |-> "armed", trig |-> 2, high |-> 3, fired |-> 0, size |-> 0,
                        rec |-> 0, auto |-> FALSE]
              /\ short = 0 /\ best = 2
            BY <2>1 DEF Init, NoRow
        <3>2. row.st = "armed" /\ row.trig = 2 /\ row.rec = 0
            BY <3>1
        <3> QED
            BY <2>0, <3>1, <3>2 DEF SizeOf, LevelOk
    <2>2. CASE ~crew.armed
        <3>1. /\ row = [gen |-> 1, st |-> "open", trig |-> 0, high |-> 0, fired |-> 0, size |-> 2,
                        rec |-> 0, auto |-> TRUE]
              /\ short = 2 /\ best = 0
            BY <2>2 DEF Init, NoRow
        <3>2. row.st = "open" /\ row.trig = 0 /\ row.rec = 0 /\ row.size = 2
            BY <3>1
        <3> QED
            BY <2>0, <3>1, <3>2 DEF SizeOf, LevelOk
    <2> QED
        BY <2>1, <2>2
<1>4. LockFits /\ ListedHold /\ OrdersShaped /\ SentFollows /\ UnwindsLeft
    BY <1>1, <1>2 DEF LockFits, ListedHold, OrdersShaped, SentFollows, UnwindsLeft
<1>5. HeldFits /\ LevelHolds
    BY <1>2, <1>3 DEF HeldFits, LevelHolds
<1> QED
    BY <1>3, <1>4, <1>5 DEF WordInv

(* No order trades meanwhile begins or ends, and the row moves on.         *)
LEMMA WordQuiet ==
    ASSUME TypeInv, WordInv, NEW j \in Jobs, NEW x \in JobType,
           job' = job \/ (job' = [job EXCEPT ![j] = x] /\ ~Sent(j) /\ x.step # "sent"),
           Ordered(x) => OrderShape(x),
           Ordered(x) /\ x.kind = "unwind" /\ ways' \subseteq Healed => x.read.rec < MaxRecoveries,
           Listed(x) => j \notin current' \/ x.read = row',
           lock' = lock, short' = short, best' \in Int, row' \in RowType, row'.gen >= row.gen,
           row'.gen = row.gen /\ row'.st = "armed" => row.st = "armed",
           current' \subseteq current \/ (job' = [job EXCEPT ![j] = x] /\ current' \subseteq current \cup {j}),
           row' = row \/ current' = {},
           ways' \subseteq Healed => ways \subseteq Healed,
           ways' = {} => \/ ways = {} /\ SizeOf(row') = SizeOf(row)
                         \/ short = SizeOf(row') /\ row.st = "armed" /\ row'.st # "armed" /\ row'.gen = row.gen,
           ways' \subseteq Healed => LevelOk(row', best')
    PROVE WordInv'
<1>0. row \in RowType /\ row.gen \in Nat /\ row'.gen \in Nat /\ short \in Int
    BY DEF TypeInv, RowType
<1>1. \A i \in Jobs : job'[i] = job[i] \/ (i = j /\ job'[i] = x /\ job' = [job EXCEPT ![j] = x])
    BY DEF TypeInv
<1>2. \A i \in Jobs : Sent(i)' => Sent(i) /\ job'[i] = job[i]
    BY <1>1 DEF Sent
<1>3. \A i \in Jobs : Sent(i) => Sent(i)'
    BY <1>1 DEF Sent
<1>4. LockFits'
    BY <1>2 DEF WordInv, LockFits
<1>5. ListedHold'
    <2> SUFFICES ASSUME NEW i \in current', Listed(job'[i]) PROVE job'[i].read = row'
        BY DEF ListedHold
    <2>1. i \in Jobs /\ row' = row
        BY DEF TypeInv
    <2>2. CASE i \in current /\ job'[i] = job[i]
        BY <2>1, <2>2 DEF WordInv, ListedHold
    <2>3. CASE i = j /\ job'[i] = x
        BY <2>3
    <2>4. CASE i \notin current
        BY <1>1, <2>3, <2>4 DEF TypeInv
    <2> QED
        BY <1>1, <2>1, <2>2, <2>3, <2>4
<1>6. OrdersShaped'
    BY <1>1 DEF WordInv, OrdersShaped
<1>7. UnwindsLeft'
    BY <1>1 DEF WordInv, UnwindsLeft
<1>8. \A i \in Jobs : job[i].read.gen \in Nat
    BY JobRead DEF RowType
<1>9. SentFollows'
    BY <1>0, <1>2, <1>8 DEF WordInv, SentFollows, Follows
<1>10. HeldFits'
    <2> SUFFICES ASSUME ways' = {} PROVE HeldFits'
        BY DEF HeldFits
    <2>1. CASE ways = {} /\ SizeOf(row') = SizeOf(row)
        <3>1. (\A i \in Jobs : ~Sent(i)') => short' = SizeOf(row')
            BY <1>3, <2>1 DEF WordInv, HeldFits
        <3>2. ASSUME NEW i \in Jobs, Sent(i)'
              PROVE /\ short' = SizeOf(row') + Moves(job'[i]) \/ MovedOn(job[i])'
                    /\ job'[i].fill = 0 => short' = SizeOf(row')
            <4>1. /\ short = SizeOf(row) + Moves(job[i]) \/ MovedOn(job[i])
                  /\ job[i].fill = 0 => short = SizeOf(row)
                  /\ job'[i] = job[i]
                BY <1>2, <2>1, <3>2 DEF WordInv, HeldFits
            <4>2. MovedOn(job[i]) => MovedOn(job[i])'
                BY <1>0, <1>8, <4>1 DEF MovedOn
            <4> QED
                BY <2>1, <4>1, <4>2
        <3> QED
            BY <3>1, <3>2 DEF HeldFits
    <2>2. CASE short = SizeOf(row') /\ row.st = "armed" /\ row'.st # "armed" /\ row'.gen = row.gen
        <3>1. ASSUME NEW i \in Jobs, Sent(i)' PROVE MovedOn(job[i])'
            <4>1. Follows(job[i]) /\ job'[i] = job[i]
                BY <1>2, <3>1 DEF WordInv, SentFollows
            <4> QED
                BY <1>0, <1>8, <2>2, <4>1 DEF Follows, MovedOn
        <3> QED
            BY <2>2, <3>1 DEF HeldFits
    <2> QED
        BY <2>1, <2>2
<1>11. LevelHolds'
    BY DEF LevelHolds
<1> QED
    BY <1>4, <1>5, <1>6, <1>7, <1>9, <1>10, <1>11 DEF WordInv

(* Only the job changes: the row, the lock and the history are as before.  *)
LEMMA WordBegins ==
    ASSUME TypeInv, WordInv, NEW j \in Jobs, NEW x \in JobType, job' = [job EXCEPT ![j] = x],
           ~Sent(j), x.step # "sent", Ordered(x) => OrderShape(x) /\ x.kind # "unwind",
           Listed(x) => x.read = row,
           UNCHANGED <<row, lock, short, best>>, current' \subseteq current \cup {j},
           ways' = ways
    PROVE WordInv'
<1>1. row \in RowType /\ row.gen \in Nat
    BY DEF TypeInv, RowType
<1>2. /\ lock' = lock /\ short' = short /\ best' \in Int /\ row' \in RowType /\ row'.gen >= row.gen
      /\ row'.gen = row.gen /\ row'.st = "armed" => row.st = "armed"
    BY <1>1 DEF WordInv
<1>3. /\ row' = row \/ current' = {}
      /\ ways' \subseteq Healed => ways \subseteq Healed
    OBVIOUS
<1>4. SizeOf(row') = SizeOf(row)
    BY DEF SizeOf
<1>5. ways' = {} => \/ ways = {} /\ SizeOf(row') = SizeOf(row)
                    \/ short = SizeOf(row') /\ row.st = "armed" /\ row'.st # "armed" /\ row'.gen = row.gen
    BY <1>4
<1>6. ways' \subseteq Healed => LevelOk(row', best')
    <2>1. LevelOk(row', best') <=> LevelOk(row, best)
        BY DEF LevelOk, LevelOf
    <2> QED
        BY <2>1 DEF WordInv, LevelHolds
<1> QED
    BY <1>2, <1>3, <1>5, <1>6, WordQuiet

LEMMA WordScale ==
    ASSUME TypeInv, WordInv, NEW c \in Callers, NEW n \in Targets, Scale(c, n),
           job[c].step \in {"idle", "drift"}, row.st = "open",
           UNCHANGED <<row, lock, short, hist>>
    PROVE WordInv'
<1>1. PICK x \in JobType : /\ job' = [job EXCEPT ![c] = x]
                           /\ x.step = "wait" /\ x.kind = "scale" /\ x.read = row
    BY ScaleTypes
<1>2. c \in Jobs /\ ~Sent(c) /\ OrderShape(x) /\ ~Listed(x) /\ x.step # "sent" /\ x.kind # "unwind"
    BY <1>1 DEF Jobs, Sent, OrderShape, Listed
<1>3. UNCHANGED <<row, lock, short, best>> /\ current' \subseteq current \cup {c} /\ ways' = ways
    BY DEF hist
<1> QED
    BY <1>1, <1>2, <1>3, WordBegins

(* The operator changes the row, with no order of this request out.        *)
LEMMA WordSets ==
    ASSUME TypeInv, WordInv, NEW c \in Callers,
           job' = job \/ (job' = [job EXCEPT ![c] = Idle] /\ ~Sent(c)),
           UNCHANGED <<lock, short>>, best' \in Int, row' \in RowType, row'.gen >= row.gen,
           row'.gen = row.gen /\ row'.st = "armed" => row.st = "armed",
           current' = {}, ways \subseteq ways',
           ways' = {} => SizeOf(row') = SizeOf(row),
           ways' \subseteq Healed => LevelOk(row', best')
    PROVE WordInv'
<1>1. c \in Jobs /\ Idle \in JobType /\ Idle.step # "sent" /\ ~Ordered(Idle) /\ ~Listed(Idle)
    BY IdleType DEF Jobs, Listed
<1>2. /\ ways' \subseteq Healed => ways \subseteq Healed
      /\ ways' = {} => ways = {} /\ SizeOf(row') = SizeOf(row)
    OBVIOUS
<1> QED
    BY <1>1, <1>2, WordQuiet

LEMMA WordRequest ==
    ASSUME TypeInv, WordInv, NEW c \in Callers,
           RequestOf(c) \/ FinishArm(c) \/ \E n \in Targets : Rebalance(c, n)
    PROVE WordInv'
<1>0. /\ row \in RowType /\ row.size \in Int /\ row.gen \in Nat /\ mark \in Int /\ c \in Jobs
      /\ row.rec \in Int /\ best \in Int
    BY DEF TypeInv, RowType, Jobs, WordInv
<1>00. job[c] \in JobType /\ job[c].read \in RowType /\ job[c].qty \in Int
    BY <1>0, JobRead
<1>000. 0 <= MaxRecoveries
    BY SyntheticGuardAssumption
<1>1. CASE StartClose(c)
    <2> DEFINE yes == TRUE
    <2>1. "close" \in Kinds /\ yes \in BOOLEAN
        BY DEF Kinds
    <2>2. /\ job' = [job EXCEPT ![c] = Buy("close", row.size, yes, row)]
          /\ job[c].step = "idle" /\ row.st = "open" /\ UNCHANGED <<row, lock, short, hist>>
        BY <1>1 DEF StartClose, Ready, Becomes
    <2>4. Buy("close", row.size, yes, row).side = "buy" /\ Buy("close", row.size, yes, row).qty = row.size
        BY DEF Buy, Order, Idle
    <2> HIDE DEF yes
    <2>3. PICK x \in JobType : x = Buy("close", row.size, yes, row) /\ x.step = "wait" /\ x.kind = "close" /\ x.read = row
        BY <1>0, <2>1, BuyType
    <2>5. OrderShape(x) /\ ~Sent(c) /\ ~Listed(x)
        BY <2>2, <2>3, <2>4 DEF OrderShape, Sent, Listed
    <2>6. UNCHANGED <<row, lock, short, best>> /\ current' \subseteq current \cup {c} /\ ways' = ways
        BY <2>2 DEF hist
    <2> QED
        BY <1>0, <2>2, <2>3, <2>5, <2>6, WordBegins
<1>2. CASE \E n \in Targets : StartScale(c, n)
    <2>1. PICK n \in Targets : StartScale(c, n)
        BY <1>2
    <2>2. Scale(c, n) /\ job[c].step = "idle" /\ row.st = "open" /\ UNCHANGED <<row, lock, short, hist>>
        BY <2>1 DEF StartScale, Ready
    <2> QED
        BY <2>2, WordScale
<1>3. CASE \E n \in Targets : StartMint(c, n)
    <2>1. PICK n \in Targets : StartMint(c, n)
        BY <1>3
    <2>2. "mint" \in Kinds /\ n \in Int
        BY TargetsAreInts DEF Kinds
    <2>3. PICK x \in JobType : x = Sell("mint", n, row) /\ x.step = "wait" /\ x.kind = "mint" /\ x.read = row
        BY <1>0, <2>2, SellType
    <2>4. /\ job' = [job EXCEPT ![c] = x]
          /\ job[c].step = "idle" /\ row.st # "open" /\ UNCHANGED <<row, lock, short, hist>>
        BY <2>1, <2>3 DEF StartMint, Ready, Live, Becomes
    <2>5. Sell("mint", n, row).side = "sell"
        BY DEF Sell, Order, Idle
    <2>6. OrderShape(x) /\ ~Sent(c) /\ ~Listed(x)
        BY <2>3, <2>4, <2>5 DEF OrderShape, Sent, Listed
    <2>7. UNCHANGED <<row, lock, short, best>> /\ current' \subseteq current \cup {c} /\ ways' = ways
        BY <2>4 DEF hist
    <2> QED
        BY <1>0, <2>3, <2>4, <2>6, <2>7, WordBegins
<1>4. ASSUME NEW x \in JobType, job' = [job EXCEPT ![c] = x], x.step \in {"arming", "drift", "idle"},
             job[c].step \in {"idle", "drift"}, UNCHANGED <<row, lock, short, hist>>
      PROVE WordInv'
    <2>1. ~Sent(c) /\ ~Ordered(x) /\ ~Listed(x) /\ x.step # "sent"
        BY <1>4 DEF Sent, Ordered, Listed
    <2>2. UNCHANGED <<row, lock, short, best>> /\ current' \subseteq current \cup {c} /\ ways' = ways
        BY <1>4 DEF hist
    <2> QED
        BY <1>0, <1>4, <2>1, <2>2, WordBegins
<1>5. CASE \E p \in Targets : StartArm(c, p)
    <2>1. PICK p \in Targets : StartArm(c, p)
        BY <1>5
    <2> DEFINE x == [Idle EXCEPT !.step = "arming", !.kind = "arm", !.qty = p, !.read = row]
    <2>2. x \in JobType /\ x.step = "arming"
        BY <1>0, TargetsAreInts, IdleType DEF JobType, Steps, Kinds
    <2>3. /\ job' = [job EXCEPT ![c] = x]
          /\ job[c].step = "idle" /\ UNCHANGED <<row, lock, short, hist>>
        BY <2>1 DEF StartArm, Ready, Becomes
    <2> HIDE DEF x
    <2> QED
        BY <1>4, <2>2, <2>3
<1>6. CASE StartRebalance(c)
    <2> DEFINE x == [Idle EXCEPT !.step = "drift", !.kind = "auto", !.read = row]
    <2>1. x \in JobType /\ x.step = "drift"
        BY <1>0, IdleType DEF JobType, Steps, Kinds
    <2>2. /\ job' = [job EXCEPT ![c] = x]
          /\ job[c].step = "idle" /\ UNCHANGED <<row, lock, short, hist>>
        BY <1>6 DEF StartRebalance, Ready, Becomes
    <2> HIDE DEF x
    <2> QED
        BY <1>4, <2>1, <2>2
<1>7. CASE \E n \in Targets : Rebalance(c, n)
    <2>1. PICK n \in Targets : Rebalance(c, n)
        BY <1>7
    <2>2. job[c].step = "drift" /\ UNCHANGED <<row, lock, short, hist>>
        BY <2>1 DEF Rebalance
    <2>3. CASE job' = [job EXCEPT ![c] = Idle]
        BY <1>4, <2>2, <2>3, IdleType
    <2>4. CASE row.st = "open" /\ Scale(c, n)
        BY <2>2, <2>4, WordScale
    <2> QED
        BY <2>1, <2>3, <2>4 DEF Rebalance, Ends, Becomes
<1>8. CASE \E p \in Targets : Update(c, p)
    <2>1. PICK p \in Targets : Update(c, p)
        BY <1>8
    <2>2. p \in Int
        BY TargetsAreInts
    <2>3. /\ row' \in RowType /\ row'.gen = row.gen /\ row'.st = "armed" /\ row.st = "armed"
          /\ row'.trig = p /\ row'.rec <= MaxRecoveries
        <3> DEFINE zero == 0
        <3>1. row' = [row EXCEPT !.trig = p, !.high = zero, !.rec = zero] /\ row.st = "armed"
            BY <2>1 DEF Update
        <3>2. zero \in Int /\ zero <= MaxRecoveries
            BY <1>000
        <3> HIDE DEF zero
        <3> QED
            BY <1>0, <2>2, <3>1, <3>2 DEF RowType
    <2>4. job' = job /\ UNCHANGED <<lock, short, ways>> /\ best' = p /\ current' = {}
        BY <2>1 DEF Update
    <2>5. SizeOf(row') = SizeOf(row) /\ LevelOk(row', best')
        BY <2>2, <2>3, <2>4 DEF SizeOf, LevelOk
    <2>6. /\ row'.gen >= row.gen /\ best' \in Int /\ ways \subseteq ways'
          /\ row'.gen = row.gen /\ row'.st = "armed" => row.st = "armed"
        BY <1>0, <2>2, <2>3, <2>4
    <2> QED
        BY <2>3, <2>4, <2>5, <2>6, WordSets
<1>9. CASE Disarm(c)
    <2>1. /\ row' \in RowType /\ row'.gen = row.gen /\ row'.rec = row.rec
          /\ \/ row.st = "armed" /\ row'.st = "closed"
             \/ row.st # "armed" /\ row'.st = row.st /\ row'.trig = 0 /\ row'.size = row.size
        <3>1. CASE row.st = "armed"
            BY <1>0, <1>9, <3>1 DEF Disarm, RowType
        <3>2. CASE row.st # "armed"
            <4> DEFINE zero == 0
            <4>1. row' = [row EXCEPT !.trig = zero, !.high = zero, !.fired = zero]
                BY <1>9, <3>2 DEF Disarm
            <4>2. zero \in Int
                OBVIOUS
            <4>3. zero = 0
                OBVIOUS
            <4> HIDE DEF zero
            <4> QED
                BY <1>0, <3>2, <4>1, <4>2, <4>3 DEF RowType
        <3> QED
            BY <3>1, <3>2
    <2>2. job' = job /\ UNCHANGED <<lock, short, ways, best>> /\ current' = {}
        BY <1>9 DEF Disarm
    <2>3. SizeOf(row') = SizeOf(row)
        BY <2>1 DEF SizeOf
    <2>4. ways' \subseteq Healed => LevelOk(row', best')
        BY <2>1, <2>2 DEF WordInv, LevelHolds, LevelOk
    <2>5. /\ row'.gen >= row.gen /\ best' \in Int /\ ways \subseteq ways'
          /\ row'.gen = row.gen /\ row'.st = "armed" => row.st = "armed"
        BY <1>0, <2>1, <2>2
    <2> QED
        BY <2>1, <2>2, <2>3, <2>4, <2>5, WordSets
<1>10. CASE SetAuto(c)
    <2>1. /\ row' \in RowType /\ row'.gen = row.gen /\ row'.st = row.st /\ row'.size = row.size
          /\ row'.rec = row.rec /\ row'.trig = row.trig /\ row'.fired = row.fired
        <3> DEFINE yes == TRUE
        <3>1. row' = [row EXCEPT !.auto = yes] /\ yes \in BOOLEAN
            BY <1>10 DEF SetAuto
        <3> HIDE DEF yes
        <3> QED
            BY <1>0, <3>1 DEF RowType
    <2>2. job' = job /\ UNCHANGED <<lock, short, ways, best>> /\ current' = {}
        BY <1>10 DEF SetAuto
    <2>3. SizeOf(row') = SizeOf(row)
        BY <2>1 DEF SizeOf
    <2>4. ways' \subseteq Healed => LevelOk(row', best')
        BY <2>1, <2>2 DEF WordInv, LevelHolds, LevelOk, LevelOf
    <2>5. /\ row'.gen >= row.gen /\ best' \in Int /\ ways \subseteq ways'
          /\ row'.gen = row.gen /\ row'.st = "armed" => row.st = "armed"
        BY <1>0, <2>1, <2>2
    <2> QED
        BY <2>1, <2>2, <2>3, <2>4, <2>5, WordSets
<1>11. CASE FinishArm(c)
    <2> DEFINE p == job[c].qty
               r == job[c].read
               zero == 0
               no == FALSE
               next == row.gen + 1
               attached == [row EXCEPT !.trig = p, !.high = mark, !.fired = p, !.rec = zero, !.auto = no]
               fresh == [NoRow EXCEPT !.gen = next, !.st = "armed", !.trig = p, !.high = mark]
    <2>1. /\ job' = [job EXCEPT ![c] = Idle] /\ job[c].step = "arming" /\ UNCHANGED <<lock, short>>
          /\ best' = p /\ current' = {}
        BY <1>11 DEF FinishArm, Ends, Becomes
    <2>2. \/ /\ r.st = "open" /\ row' = IF row.gen # r.gen THEN row ELSE attached
             /\ ways' = ways \cup Way("overtaken", row # r)
          \/ /\ r.st # "open" /\ row' = fresh /\ ways' = ways \cup Way("second", Live(row))
        BY <1>11 DEF FinishArm
    <2>3. /\ zero \in Int /\ no \in BOOLEAN /\ p \in Int /\ zero <= MaxRecoveries
          /\ next \in Nat /\ next > row.gen /\ NoRow \in RowType
        BY <1>0, <1>00, <1>000, IdleType
    <2>4. NoRow.rec <= MaxRecoveries
        BY <1>000 DEF NoRow
    <2>5. zero = 0
        OBVIOUS
    <2>6. ~Sent(c) /\ best' \in Int /\ ways \subseteq ways'
        BY <2>1, <2>2, <2>3 DEF Sent
    <2> HIDE DEF p, r, zero, no, next
    <2>7. /\ attached \in RowType /\ attached.gen = row.gen /\ attached.st = row.st /\ attached.size = row.size
          /\ attached.trig = p /\ attached.fired = p /\ attached.rec = zero
        BY <1>0, <2>3 DEF RowType
    <2>8. /\ fresh \in RowType /\ fresh.gen = next /\ fresh.st = "armed" /\ fresh.trig = p
          /\ fresh.rec = NoRow.rec
        BY <1>0, <2>3 DEF RowType
    <2> HIDE DEF attached, fresh
    <2>9. CASE r.st = "open"
        <3>1. /\ row' \in RowType /\ row'.gen = row.gen /\ row'.st = row.st /\ SizeOf(row') = SizeOf(row)
            BY <1>0, <2>2, <2>7, <2>9 DEF SizeOf
        <3>2. ways' \subseteq Healed => LevelOk(row', best')
            <4> SUFFICES ASSUME ways' \subseteq Healed PROVE LevelOk(row', best')
                OBVIOUS
            <4>1. row = r /\ row' = attached
                BY <2>2, <2>9 DEF Healed, Way
            <4>2. row.st = "open"
                BY <2>9, <4>1
            <4>3. row'.st = "open" /\ row'.trig = p /\ row'.fired = p /\ row'.rec <= MaxRecoveries
                BY <2>3, <2>7, <4>1, <4>2
            <4> QED
                BY <2>1, <2>3, <4>3 DEF LevelOk, LevelOf
        <3>3. /\ row'.gen >= row.gen
              /\ row'.gen = row.gen /\ row'.st = "armed" => row.st = "armed"
            BY <1>0, <3>1
        <3> QED
            BY <2>1, <2>6, <3>1, <3>2, <3>3, WordSets
    <2>10. CASE r.st # "open"
        <3>1. row' = fresh /\ (ways' = {} => ~Live(row))
            BY <2>2, <2>10 DEF Way
        <3>2. ways' = {} => SizeOf(row') = SizeOf(row)
            BY <2>8, <3>1 DEF Live, SizeOf
        <3>3. LevelOk(row', best')
            BY <2>1, <2>3, <2>4, <2>8, <3>1 DEF LevelOk
        <3>4. /\ row' \in RowType /\ row'.gen >= row.gen
              /\ row'.gen = row.gen /\ row'.st = "armed" => row.st = "armed"
            BY <1>0, <2>3, <2>8, <3>1
        <3> QED
            BY <2>1, <2>6, <3>2, <3>3, <3>4, WordSets
    <2> QED
        BY <2>9, <2>10
<1> QED
    BY <1>1, <1>2, <1>3, <1>5, <1>6, <1>7, <1>8, <1>9, <1>10, <1>11 DEF RequestOf

LEMMA WordWorld == ASSUME TypeInv, WordInv, WorldStep PROVE WordInv'
<1>0. \A j \in Jobs : j # Nobody /\ j # Bot
    BY SyntheticGuardAssumption DEF Jobs
<1>1. ASSUME UNCHANGED <<row, short, job, best, ways>>, current' \subseteq current, LockFits' PROVE WordInv'
    <2>1. ListedHold'
        BY <1>1 DEF WordInv, ListedHold
    <2>2. OrdersShaped' /\ SentFollows' /\ UnwindsLeft'
        BY <1>1 DEF WordInv, OrdersShaped, SentFollows, UnwindsLeft, Sent, Follows
    <2>3. HeldFits'
        BY <1>1 DEF WordInv, HeldFits, Sent, MovedOn
    <2>4. LevelHolds'
        BY <1>1 DEF WordInv, LevelHolds
    <2> QED
        BY <1>1, <2>1, <2>2, <2>3, <2>4 DEF WordInv
<1>2. CASE BotTrades
    BY <1>0, <1>1, <1>2 DEF BotTrades, WordInv, LockFits, Sent
<1>3. CASE BotBooks
    BY <1>0, <1>1, <1>3 DEF BotBooks, WordInv, LockFits, Sent
<1>4. CASE MarkMoves \/ UNCHANGED vars
    <2>1. UNCHANGED <<row, short, job, best, ways, lock, current>>
        BY <1>4 DEF MarkMoves, vars, hist
    <2>2. LockFits'
        BY <2>1 DEF WordInv, LockFits, Sent
    <2> QED
        BY <1>1, <2>1, <2>2
<1>5. CASE Crash
    <2>1. /\ \A j \in Jobs : job'[j] = Idle
          /\ current' = {} /\ UNCHANGED <<row, short, best>> /\ ways \subseteq ways'
          /\ "crash" \notin ways' => \A j \in Jobs : Sent(j) => job[j].fill = 0
        BY <1>5 DEF Crash, Way, Sent
    <2>2. \A j \in Jobs : ~Ordered(job'[j]) /\ ~Sent(j)'
        BY <2>1, IdleType DEF Sent, Ordered
    <2>3. LockFits' /\ ListedHold' /\ OrdersShaped' /\ SentFollows' /\ UnwindsLeft'
        BY <2>1, <2>2 DEF LockFits, ListedHold, OrdersShaped, SentFollows, UnwindsLeft
    <2>4. LevelHolds'
        BY <1>5, <2>1 DEF WordInv, LevelHolds, Healed, Crash, Way
    <2>5. HeldFits'
        BY <2>1, <2>2 DEF WordInv, HeldFits
    <2> QED
        BY <2>1, <2>3, <2>4, <2>5 DEF WordInv
<1> QED
    BY <1>2, <1>3, <1>4, <1>5 DEF WorldStep

(* An order goes out with the lock free: no other one trades.              *)
LEMMA WordSend == ASSUME TypeInv, WordInv, NEW j \in Jobs, Send(j) PROVE WordInv'
<1>0. row \in RowType /\ row.gen \in Nat /\ short \in Int /\ SizeOf(row) \in Int
    BY DEF TypeInv, RowType, SizeOf
<1>1. PICK o \in Outcomes(j) :
        /\ job' = [job EXCEPT ![j] = [job[j] EXCEPT !.step = "sent", !.fill = o[1], !.ok = o[2]]]
        /\ short' = IF job[j].side = "sell" THEN short + o[1] ELSE short - o[1]
        /\ current' = IF o[1] # 0 THEN {} ELSE current
    BY DEF Send, Becomes
<1>2. o[1] \in Int /\ o[2] \in BOOLEAN
    BY OutcomeType
<1> DEFINE n == o[1] done == o[2]
           x == [job[j] EXCEPT !.step = "sent", !.fill = n, !.ok = done]
<1>3. n \in Int /\ done \in BOOLEAN
    BY <1>2
<1>4. /\ job' = [job EXCEPT ![j] = x]
      /\ short' = IF job[j].side = "sell" THEN short + n ELSE short - n
      /\ current' \subseteq current
    BY <1>1
<1> HIDE DEF n, done
<1>5. /\ x \in JobType /\ x.step = "sent" /\ x.kind = job[j].kind /\ x.read = job[j].read
      /\ x.side = job[j].side /\ x.qty = job[j].qty /\ x.fill = n
    BY <1>3, JobRead DEF JobType, Steps
<1> HIDE DEF x
<1>6. /\ job[j].step = "wait" /\ lock = Nobody /\ lock' = j /\ UNCHANGED <<row, best>>
      /\ ways' = ways \cup Way("overtaken", row # job[j].read)
    BY DEF Send
<1>7. \A i \in Jobs : ~Sent(i)
    BY <1>6, SyntheticGuardAssumption DEF WordInv, LockFits, Jobs
<1>8. \A i \in Jobs : job'[i] = IF i = j THEN x ELSE job[i]
    BY <1>4 DEF TypeInv
<1>9. \A i \in Jobs : Sent(i)' <=> i = j
    BY <1>5, <1>7, <1>8 DEF Sent
<1>10. LockFits'
    BY <1>6, <1>9 DEF LockFits
<1>11. ListedHold'
    BY <1>4, <1>5, <1>6, <1>8 DEF WordInv, ListedHold, Listed, TypeInv
<1>12. OrdersShaped'
    BY <1>5, <1>6, <1>8 DEF WordInv, OrdersShaped, OrderShape, Ordered
<1>13. UnwindsLeft'
    BY <1>5, <1>6, <1>8 DEF WordInv, UnwindsLeft, Ordered
<1>14. SentFollows'
    <2> SUFFICES ASSUME ways' \subseteq Healed PROVE Follows(job[j])'
        BY <1>9 DEF SentFollows
    <2>1. row = job[j].read /\ job'[j].read = job[j].read /\ row' = row
        BY <1>5, <1>6, <1>8 DEF Healed, Way
    <2> QED
        BY <1>0, <2>1 DEF Follows
<1>15. HeldFits'
    <2> SUFFICES ASSUME ways' = {}
                 PROVE /\ short' = SizeOf(row') + Moves(job'[j])
                       /\ job'[j].fill = 0 => short' = SizeOf(row')
        BY <1>9 DEF HeldFits
    <2>1. short = SizeOf(row) /\ SizeOf(row') = SizeOf(row)
        BY <1>6, <1>7 DEF WordInv, HeldFits, SizeOf
    <2>2. job'[j] = x /\ Moves(x) = IF job[j].side = "sell" THEN n ELSE -n
        BY <1>5, <1>8 DEF Moves
    <2> QED
        BY <1>0, <1>3, <1>4, <1>5, <2>1, <2>2
<1>16. LevelHolds'
    BY <1>6 DEF WordInv, LevelHolds, LevelOk, LevelOf
<1> QED
    BY <1>6, <1>10, <1>11, <1>12, <1>13, <1>14, <1>15, <1>16 DEF WordInv

(* What is booked, from an order whose row is still as it was sent on, is  *)
(* what the order left: its size, its level and its count of recoveries.   *)
LEMMA BookedWord ==
    ASSUME TypeInv, OrdersFit, WordInv, NEW j \in Jobs, Sent(j), row = job[j].read
    PROVE /\ ways = {} /\ (job[j].kind = "fire" \/ job[j].fill = job[j].qty)
                => SizeOf(Booked(j)) = SizeOf(row) + Moves(job[j])
          /\ ways \subseteq Healed => LevelOk(Booked(j), best)
<1>0. /\ row \in RowType /\ row.gen \in Nat /\ job[j].read \in RowType
      /\ job[j].mark \in Int /\ job[j].qty \in Int /\ job[j].fill \in Int /\ best \in Int
    BY JobRead DEF TypeInv, RowType, WordInv
<1>00. row.trig \in Int /\ row.fired \in Int /\ row.rec \in Int /\ row.size \in Int /\ 0 <= MaxRecoveries /\ MaxRecoveries \in Int
    BY <1>0, SyntheticGuardAssumption DEF RowType
<1>1. job[j].kind \in {"fire", "unwind", "mint", "scale", "close"} /\ OrderShape(job[j])
      /\ (job[j].kind = "fire" => row.st = "armed") /\ Ordered(job[j])
    BY DEF OrdersFit, Ordered, Sent, WordInv, OrdersShaped
<1>01. ways \subseteq Healed => LevelOk(row, best)
    BY DEF WordInv, LevelHolds
<1>2. CASE job[j].kind = "mint"
    <2> DEFINE next == row.gen + 1
               n == job[j].qty
    <2>1. Booked(j) = [NoRow EXCEPT !.gen = next, !.st = "open", !.size = n]
        BY <1>2 DEF Booked, Minted
    <2>2. next \in Nat /\ n \in Int /\ NoRow \in RowType /\ NoRow.trig = 0 /\ NoRow.rec = 0
        BY <1>0, IdleType DEF NoRow
    <2>3. n = job[j].qty
        OBVIOUS
    <2> HIDE DEF next, n
    <2>4. Booked(j).st = "open" /\ Booked(j).size = n /\ Booked(j).trig = 0 /\ Booked(j).rec = 0
        BY <2>1, <2>2 DEF RowType
    <2>5. SizeOf(Booked(j)) = n /\ SizeOf(row) = 0 /\ Moves(job[j]) = job[j].fill
        BY <1>1, <1>2, <2>4 DEF SizeOf, OrderShape, Moves
    <2>6. LevelOk(Booked(j), best)
        BY <1>00, <2>4 DEF LevelOk
    <2> QED
        BY <1>0, <1>2, <2>3, <2>5, <2>6
<1>4. CASE job[j].kind = "fire"
    <2> DEFINE n == job[j].fill
               f == row.trig
    <2>1. Booked(j) = [row EXCEPT !.st = "open", !.size = n, !.fired = f]
        BY <1>4 DEF Booked, Fired, Opened
    <2>2. n \in Int /\ f \in Int /\ n = job[j].fill /\ f = row.trig
        BY <1>0, <1>00
    <2> HIDE DEF n, f
    <2>3. /\ Booked(j).st = "open" /\ Booked(j).size = n /\ Booked(j).fired = f
          /\ Booked(j).trig = row.trig /\ Booked(j).rec = row.rec
        BY <1>0, <2>1, <2>2 DEF RowType
    <2>4. SizeOf(Booked(j)) = n /\ SizeOf(row) = 0 /\ Moves(job[j]) = job[j].fill
        BY <1>1, <1>4, <2>3 DEF SizeOf, OrderShape, Moves
    <2>5. ways \subseteq Healed => LevelOk(Booked(j), best)
        BY <1>0, <1>00, <1>01, <1>1, <1>4, <2>2, <2>3 DEF LevelOk, LevelOf
    <2> QED
        BY <1>0, <2>2, <2>4, <2>5
<1>5. CASE job[j].kind = "unwind"
    <2> DEFINE zero == 0 no == FALSE
               level == IF row.fired # 0 THEN row.fired ELSE row.trig
               rec == row.rec + 1
               high == job[j].mark
    <2>1. Booked(j) = [row EXCEPT !.st = "armed", !.size = zero, !.auto = no, !.high = high,
                                  !.fired = zero, !.trig = level, !.rec = rec]
        BY <1>5 DEF Booked, Rearmed
    <2>2. /\ zero \in Int /\ no \in BOOLEAN /\ level \in Int /\ rec \in Int /\ high \in Int
          /\ level = LevelOf(row) /\ rec = row.rec + 1
        BY <1>0, <1>00 DEF LevelOf
    <2> HIDE DEF zero, no, level, rec, high
    <2>3. Booked(j).st = "armed" /\ Booked(j).trig = level /\ Booked(j).rec = rec
        BY <1>0, <2>1, <2>2 DEF RowType
    <2>4. /\ SizeOf(Booked(j)) = 0 /\ SizeOf(row) = row.size /\ job[j].qty = row.size
          /\ Moves(job[j]) = -job[j].fill /\ row.st = "open" /\ row.trig # 0
        BY <1>1, <1>5, <2>3 DEF SizeOf, OrderShape, Moves
    <2>5. ways \subseteq Healed => LevelOk(Booked(j), best)
        <3> SUFFICES ASSUME ways \subseteq Healed PROVE LevelOk(Booked(j), best)
            OBVIOUS
        <3>1. row.rec < MaxRecoveries
            BY <1>1, <1>5 DEF WordInv, UnwindsLeft
        <3>2. level >= best
            BY <1>01, <2>2, <2>4 DEF LevelOk
        <3> QED
            BY <1>0, <1>00, <2>2, <2>3, <3>1, <3>2 DEF LevelOk
    <2> QED
        BY <1>0, <1>00, <1>5, <2>4, <2>5
<1>6. CASE job[j].kind = "scale"
    <2> DEFINE n == IF job[j].side = "sell" THEN row.size + job[j].qty ELSE row.size - job[j].qty
    <2>1. Booked(j) = [row EXCEPT !.size = n]
        BY <1>6 DEF Booked, Scaled
    <2>2. n \in Int
        BY <1>0, <1>00
    <2>3. job[j].fill = job[j].qty => n = row.size + Moves(job[j])
        BY <1>0, <1>00 DEF Moves
    <2> HIDE DEF n
    <2>4. /\ Booked(j).st = row.st /\ Booked(j).size = n /\ Booked(j).trig = row.trig
          /\ Booked(j).fired = row.fired /\ Booked(j).rec = row.rec
        BY <1>0, <2>1, <2>2 DEF RowType
    <2>5. row.st = "open"
        BY <1>1, <1>6 DEF OrderShape
    <2>6. SizeOf(Booked(j)) = n /\ SizeOf(row) = row.size
        BY <2>4, <2>5 DEF SizeOf
    <2>7. ways \subseteq Healed => LevelOk(Booked(j), best)
        BY <1>01, <2>4 DEF LevelOk, LevelOf
    <2> QED
        BY <1>6, <2>3, <2>6, <2>7
<1>7. CASE job[j].kind = "close"
    <2> DEFINE zero == 0
    <2>1. Booked(j) = [row EXCEPT !.st = "closed", !.size = zero]
        BY <1>7 DEF Booked, Closed
    <2>2. zero \in Int
        OBVIOUS
    <2> HIDE DEF zero
    <2>3. Booked(j).st = "closed" /\ Booked(j).rec = row.rec
        BY <1>0, <2>1, <2>2 DEF RowType
    <2>4. /\ SizeOf(Booked(j)) = 0 /\ SizeOf(row) = row.size /\ job[j].qty = row.size
          /\ Moves(job[j]) = -job[j].fill
        BY <1>1, <1>7, <2>3 DEF SizeOf, OrderShape, Moves
    <2>5. ways \subseteq Healed => LevelOk(Booked(j), best)
        BY <1>01, <2>3 DEF LevelOk
    <2> QED
        BY <1>0, <1>00, <1>7, <2>4, <2>5
<1> QED
    BY <1>1, <1>2, <1>4, <1>5, <1>6, <1>7

LEMMA WordAnswer == ASSUME TypeInv, OrdersFit, WordInv, NEW j \in Jobs, Answer(j) PROVE WordInv'
<1>0. /\ row \in RowType /\ row.gen \in Nat /\ short \in Int /\ Sent(j)
      /\ job' = [job EXCEPT ![j] = Idle] /\ lock' = Nobody /\ UNCHANGED <<short, best>>
      /\ ways \subseteq ways' /\ current' \subseteq current /\ (row' = row \/ current' = {})
    BY DEF TypeInv, RowType, Answer, Sent, Ends, Becomes
<1>1. \A i \in Jobs : job'[i] = IF i = j THEN Idle ELSE job[i]
    BY <1>0 DEF TypeInv
<1>2. \A i \in Jobs : ~Sent(i)'
    BY <1>0, <1>1, IdleType DEF WordInv, LockFits, Sent
<1>3. LockFits' /\ SentFollows'
    BY <1>2 DEF LockFits, SentFollows
<1>4. ListedHold'
    <2>1. ~Listed(Idle)
        BY IdleType DEF Listed
    <2> QED
        BY <1>0, <1>1, <2>1 DEF WordInv, ListedHold, TypeInv
<1>5. OrdersShaped' /\ UnwindsLeft'
    BY <1>0, <1>1, IdleType DEF WordInv, OrdersShaped, UnwindsLeft
<1>6. CASE job[j].ok
    <2>1. row' = Booked(j) /\ ways' = ways \cup Flaws(j)
        BY <1>6 DEF Answer
    <2>2. row # job[j].read => ~(ways' \subseteq Healed)
        BY <2>1 DEF Flaws, Way, Healed
    <2>3. ways' = {} => ways = {} /\ (job[j].kind = "fire" \/ job[j].fill = job[j].qty) /\ row = job[j].read
        BY <2>1 DEF Flaws, Way
    <2>4. HeldFits'
        <3> SUFFICES ASSUME ways' = {} PROVE short' = SizeOf(row')
            BY <1>2 DEF HeldFits
        <3>1. SizeOf(row') = SizeOf(row) + Moves(job[j])
            BY <1>0, <2>1, <2>3, BookedWord
        <3>2. ~MovedOn(job[j])
            BY <1>0, <2>3 DEF MovedOn
        <3>3. short = SizeOf(row) + Moves(job[j])
            BY <1>0, <2>3, <3>2 DEF WordInv, HeldFits
        <3> QED
            BY <1>0, <3>1, <3>3
    <2>5. LevelHolds'
        BY <1>0, <2>1, <2>2, BookedWord DEF LevelHolds
    <2> QED
        BY <1>0, <1>3, <1>4, <1>5, <2>4, <2>5 DEF WordInv
<1>7. CASE ~job[j].ok
    <2>1. row' = row /\ ways' = ways \cup Way("unknown", job[j].fill # 0)
        BY <1>7 DEF Answer
    <2>2. HeldFits'
        <3> SUFFICES ASSUME ways' = {} PROVE short' = SizeOf(row')
            BY <1>2 DEF HeldFits
        <3>1. ways = {} /\ job[j].fill = 0
            BY <2>1 DEF Way
        <3>2. short = SizeOf(row)
            BY <1>0, <3>1 DEF WordInv, HeldFits
        <3> QED
            BY <1>0, <2>1, <3>2 DEF SizeOf
    <2>3. LevelHolds'
        BY <1>0, <2>1 DEF WordInv, LevelHolds, LevelOk, LevelOf
    <2> QED
        BY <1>0, <1>3, <1>4, <1>5, <2>2, <2>3 DEF WordInv
<1> QED
    BY <1>6, <1>7

(* A pass: it patches the trigger of the row as listed, and adopts or acts *)
(* on what it compared.                                                    *)
LEMMA PatchedWord ==
    ASSUME TypeInv, WordInv, NEW r \in RowType, NEW m \in Int
    PROVE LET now == Patched(r, m)
          IN  /\ SizeOf(now) = SizeOf(row) /\ now.fired = row.fired
              /\ now.rec = row.rec \/ now.rec = 0
              /\ now # row /\ row = r => now.trig >= row.trig
<1> DEFINE now == Patched(r, m)
           trig == Ratchet(r, m).trig
           high == Ratchet(r, m).high
<1>0. row \in RowType /\ trig \in Int /\ high \in Int /\ row.rec \in Int /\ row.size \in Int
    BY RatchetType DEF TypeInv, RowType
<1>1. CASE now = row
    BY <1>1
<1>2. CASE now # row
    <2> DEFINE rec == IF trig # r.trig THEN 0 ELSE row.rec
    <2>1. now = [row EXCEPT !.trig = trig, !.high = high, !.rec = rec]
        BY <1>2 DEF Patched
    <2>2. rec \in Int /\ (rec = row.rec \/ rec = 0)
        BY <1>0
    <2>3. row = r => trig >= row.trig
        <3> DEFINE other == Larger(r.high, m) - Trail
        <3>1. Larger(r.high, m) \in Int
            BY LargerType DEF RowType
        <3>2. other \in Int /\ r.trig \in Int
            BY <3>1, TrailType DEF RowType
        <3>3. trig = Larger(r.trig, other)
            BY DEF Ratchet
        <3> HIDE DEF other, trig
        <3> QED
            BY <3>2, <3>3 DEF Larger
    <2> HIDE DEF rec, trig, high, now
    <2>4. now.trig = trig /\ now.rec = rec /\ now.st = row.st /\ now.size = row.size /\ now.fired = row.fired
        BY <1>0, <2>1, <2>2 DEF RowType
    <2>5. /\ SizeOf(now) = SizeOf(row) /\ now.fired = row.fired
          /\ now.rec = row.rec \/ now.rec = 0
          /\ row = r => now.trig >= row.trig
        BY <2>2, <2>3, <2>4 DEF SizeOf
    <2> QED
        BY <2>5 DEF now
<1> QED
    BY <1>1, <1>2

LEMMA WordArmed ==
    ASSUME TypeInv, GuardInv, WordInv, NEW t \in Ticks, NEW m \in Int, Reading(job[t]), TickArmed(t, m)
    PROVE WordInv'
<1> DEFINE r == job[t].read
           now == Patched(r, m)
           held == job[t].snap + bot.book
           acts == Breached(m, Ratchet(r, m).trig) /\ now.gen = r.gen /\ now.st = "armed"
           does == IF acts THEN Assess(held, now.trig) ELSE "nothing"
           lapse == Way("overwritten", now # row /\ row # r)
           open == Opened(now, held, now.trig)
<1>0. /\ t \in Jobs /\ row \in RowType /\ r \in RowType /\ job[t].snap \in Int /\ bot.book \in Int
      /\ bot.venue \in Int /\ row.gen \in Nat /\ best \in Int /\ short \in Int /\ ~Sent(t)
      /\ 0 <= MaxRecoveries /\ MaxRecoveries \in Int
    BY JobRead, NetType, SyntheticGuardAssumption DEF TypeInv, Jobs, RowType, WordInv, Sent, Reading
<1>1. now \in RowType /\ now.gen = row.gen /\ now.st = row.st
    BY <1>0, PatchedType
<1>2. now.trig \in Int /\ held \in Int /\ row.trig \in Int /\ row.fired \in Int /\ row.rec \in Int
    BY <1>0, <1>1 DEF RowType
<1>3. /\ SizeOf(now) = SizeOf(row) /\ now.fired = row.fired
      /\ now.rec = row.rec \/ now.rec = 0
      /\ now # row /\ row = r => now.trig >= row.trig
    BY <1>0, PatchedWord
<1>4. /\ lock' = lock /\ short' = short
      /\ best' = IF now # row /\ row = r THEN Larger(best, now.trig) ELSE best
      /\ current' \subseteq current /\ (row' = row \/ current' = {})
    BY DEF TickArmed
<1>5. best' \in Int
    BY <1>0, <1>2, <1>4, LargerType
<1> HIDE DEF now
<1>6. ASSUME lapse \subseteq ways', ways' \subseteq Healed => ways \subseteq Healed, ways' \subseteq Healed
      PROVE /\ LevelOk(now, best')
            /\ now.st = "armed" => now.trig >= best'
    <2>1. LevelOk(row, best) /\ (now = row \/ row = r)
        BY <1>6 DEF WordInv, LevelHolds, Healed, Way
    <2>2. now = row => best' = best
        BY <1>4
    <2>3. now # row => now.trig >= row.trig /\ best' = Larger(best, now.trig)
        BY <1>3, <1>4, <2>1
    <2>4. now.rec <= MaxRecoveries
        BY <1>0, <1>3, <2>1 DEF LevelOk
    <2>5. row.st = "armed"
          => now.trig >= best'
        <3> SUFFICES ASSUME row.st = "armed" PROVE now.trig >= best'
            OBVIOUS
        <3>1. row.trig >= best
            BY <2>1 DEF LevelOk
        <3>2. CASE now = row
            BY <2>2, <3>1, <3>2
        <3>3. CASE now # row
            BY <1>0, <1>2, <2>3, <3>1, <3>3 DEF Larger
        <3> QED
            BY <3>2, <3>3
    <2>6. now.st = "open" => now = row
        <3> SUFFICES ASSUME now.st = "open", now # row PROVE FALSE
            OBVIOUS
        <3>1. row = r /\ r.st = "armed"
            BY <2>1 DEF TickArmed
        <3> QED
            BY <1>1, <3>1
    <2>7. now.st = "open" /\ now.trig # 0 => LevelOf(now) >= best'
        BY <2>1, <2>2, <2>6 DEF LevelOk
    <2> QED
        BY <1>1, <2>4, <2>5, <2>7 DEF LevelOk
<1>7. CASE job' = [job EXCEPT ![t] = Idle] /\ row' = now /\ ways' = ways \cup lapse
    <2>1. /\ Idle \in JobType /\ Idle.step # "sent" /\ ~Ordered(Idle) /\ ~Listed(Idle)
        BY IdleType DEF Listed
    <2>2. /\ ways' \subseteq Healed => ways \subseteq Healed
          /\ ways' = {} => ways = {} /\ SizeOf(row') = SizeOf(row)
        BY <1>3, <1>7
    <2>3. ways' \subseteq Healed => LevelOk(row', best')
        BY <1>6, <1>7, <2>2
    <2>4. row' \in RowType /\ row'.gen >= row.gen /\ (row'.gen = row.gen /\ row'.st = "armed" => row.st = "armed")
        BY <1>0, <1>1, <1>7
    <2> QED
        BY <1>0, <1>4, <1>5, <1>7, <2>1, <2>2, <2>3, <2>4, WordQuiet
<1>8. CASE /\ job' = [job EXCEPT ![t] = Idle] /\ does = "adopt" /\ row' = open
           /\ ways' = (IF held = short THEN ways \ {"unknown", "crash"} ELSE ways) \cup lapse \cup Way("aged", Aged(t))
    <2>1. /\ Idle \in JobType /\ Idle.step # "sent" /\ ~Ordered(Idle) /\ ~Listed(Idle)
        BY IdleType DEF Listed
    <2>2. now.st = "armed"
        BY <1>8
    <2>3. row.st = "armed"
        BY <1>1, <2>2
    <2>4. /\ open \in RowType /\ open.gen = row.gen /\ open.st = "open" /\ open.size = held
          /\ open.trig = now.trig /\ open.fired = now.trig /\ open.rec = now.rec
        <3> DEFINE f == now.trig
        <3>1. f = now.trig /\ f \in Int
            BY <1>2
        <3>2. open = [now EXCEPT !.st = "open", !.size = held, !.fired = f]
            BY DEF Opened
        <3> HIDE DEF f, held, open
        <3> QED
            BY <1>1, <1>2, <3>1, <3>2 DEF RowType, held
    <2>5. "aged" \notin ways' => held = short
        <3> SUFFICES ASSUME "aged" \notin ways' PROVE held = short
            OBVIOUS
        <3>1. t \in current /\ bot.venue = bot.book
            BY <1>8 DEF Way, Aged
        <3>2. job[t].snap = short - bot.venue
            BY <3>1 DEF GuardInv, ReadingsHold
        <3> QED
            BY <1>0, <3>1, <3>2
    <2> HIDE DEF open, held, does
    <2>6. ways' \subseteq Healed => ways \subseteq Healed
        BY <1>8 DEF Healed
    <2>7. ways' = {} => short = SizeOf(row') /\ row.st = "armed" /\ row'.st # "armed" /\ row'.gen = row.gen
        BY <1>8, <2>3, <2>4, <2>5 DEF SizeOf
    <2>8. ways' \subseteq Healed => LevelOk(row', best')
        <3> SUFFICES ASSUME ways' \subseteq Healed PROVE LevelOk(row', best')
            OBVIOUS
        <3>1. LevelOk(now, best') /\ now.trig >= best'
            BY <1>6, <1>8, <2>2, <2>6
        <3>2. row'.st = "open" /\ row'.fired = now.trig /\ row'.trig = now.trig /\ row'.rec = now.rec
            BY <1>8, <2>4
        <3> QED
            BY <3>1, <3>2 DEF LevelOk, LevelOf
    <2>9. row' \in RowType /\ row'.gen >= row.gen /\ (row'.gen = row.gen /\ row'.st = "armed" => row.st = "armed")
        BY <1>0, <1>8, <2>4
    <2> QED
        BY <1>0, <1>4, <1>5, <1>8, <2>1, <2>6, <2>7, <2>8, <2>9, WordQuiet
<1>9. CASE /\ does = "mint" /\ row' = now /\ job' = [job EXCEPT ![t] = Sell("fire", now.trig, now)]
           /\ ways' = ways \cup lapse \cup Way("aged", Aged(t)) \cup Way("overlap", inflight)
    <2>1. "fire" \in Kinds /\ Sell("fire", now.trig, now).side = "sell"
        BY DEF Kinds, Sell, Order, Idle
    <2>2. now.st = "armed"
        BY <1>9
    <2>3. PICK x \in JobType : x = Sell("fire", now.trig, now) /\ x.step = "wait" /\ x.kind = "fire" /\ x.read = now
        BY <1>1, <1>2, <2>1, SellType
    <2>4. job' = [job EXCEPT ![t] = x] /\ x.step # "sent" /\ OrderShape(x) /\ ~Listed(x) /\ x.kind # "unwind"
        BY <1>9, <2>1, <2>2, <2>3 DEF OrderShape, Listed
    <2>5. /\ ways' \subseteq Healed => ways \subseteq Healed
          /\ ways' = {} => ways = {} /\ SizeOf(row') = SizeOf(row)
        BY <1>3, <1>9
    <2>6. ways' \subseteq Healed => LevelOk(row', best')
        BY <1>6, <1>9, <2>5
    <2>7. row' \in RowType /\ row'.gen >= row.gen /\ (row'.gen = row.gen /\ row'.st = "armed" => row.st = "armed")
        BY <1>0, <1>1, <1>9
    <2> QED
        BY <1>0, <1>4, <1>5, <2>4, <2>5, <2>6, <2>7, WordQuiet
<1> HIDE DEF r, held, acts, does, lapse, open
<1> QED
    BY <1>7, <1>8, <1>9 DEF TickArmed, Ends, Becomes, r, now, held, acts, does, lapse, open

LEMMA WordOpen ==
    ASSUME TypeInv, WordInv, NEW t \in Ticks, NEW m \in Int, Listed(job[t]), TickOpen(t, m)
    PROVE WordInv'
<1>0. row \in RowType /\ row.size \in Int /\ row.gen \in Nat /\ t \in Jobs /\ ~Sent(t) /\ best \in Int
      /\ row.rec \in Int /\ MaxRecoveries \in Int
    BY SyntheticGuardAssumption DEF TypeInv, RowType, Jobs, Sent, Listed, WordInv
<1>1. UNCHANGED <<row, lock, short, best>> /\ current' \subseteq current /\ ways \subseteq ways'
    BY DEF TickOpen
<1>2. /\ best' \in Int /\ row' \in RowType /\ row'.gen >= row.gen /\ (row' = row \/ current' = {})
      /\ row'.gen = row.gen /\ row'.st = "armed" => row.st = "armed"
      /\ ways' \subseteq Healed => ways \subseteq Healed
      /\ ways' = {} => ways = {} /\ SizeOf(row') = SizeOf(row)
    BY <1>0, <1>1 DEF SizeOf
<1>3. ways' \subseteq Healed => LevelOk(row', best')
    <2>1. LevelOk(row', best') <=> LevelOk(row, best)
        BY <1>1 DEF LevelOk, LevelOf
    <2> QED
        BY <1>2, <2>1 DEF WordInv, LevelHolds
<1>4. CASE job' = [job EXCEPT ![t] = Idle]
    <2>1. /\ Idle \in JobType /\ Idle.step # "sent" /\ ~Ordered(Idle) /\ ~Listed(Idle)
        BY IdleType DEF Listed
    <2> QED
        BY <1>0, <1>1, <1>2, <1>3, <1>4, <2>1, WordQuiet
<1> DEFINE reduce == job[t].snap >= row.size
           x == [Buy("unwind", row.size, reduce, row) EXCEPT !.mark = m]
<1>5. CASE /\ job' = [job EXCEPT ![t] = x] /\ row.st = "open" /\ row.trig # 0 /\ ~Held(job[t].read)
           /\ ways' = ways \cup Way("aged", Aged(t)) \cup Way("overlap", inflight)
    <2>1. "unwind" \in Kinds /\ reduce \in BOOLEAN
        BY DEF Kinds
    <2>2. x \in JobType /\ x.step = "wait" /\ x.kind = "unwind" /\ x.read = row /\ x.side = "buy" /\ x.qty = row.size
        <3>0. Buy("unwind", row.size, reduce, row).side = "buy" /\ Buy("unwind", row.size, reduce, row).qty = row.size
            BY DEF Buy, Order, Idle
        <3> HIDE DEF reduce
        <3>1. PICK y \in JobType : y = Buy("unwind", row.size, reduce, row) /\ y.step = "wait" /\ y.kind = "unwind" /\ y.read = row
            BY <1>0, <2>1, BuyType
        <3>2. x = [y EXCEPT !.mark = m]
            BY <3>1
        <3> QED
            BY <3>0, <3>1, <3>2 DEF JobType
    <2> HIDE DEF x
    <2>3. OrderShape(x) /\ ~Listed(x) /\ x.step # "sent"
        BY <1>5, <2>2 DEF OrderShape, Listed
    <2>4. ways' \subseteq Healed => x.read.rec < MaxRecoveries
        <3> SUFFICES ASSUME ways' \subseteq Healed PROVE row.rec < MaxRecoveries
            BY <2>2
        <3>1. t \in current
            BY <1>5 DEF Healed, Way, Aged
        <3>2. job[t].read = row
            BY <3>1 DEF WordInv, ListedHold
        <3> QED
            BY <1>0, <1>5, <3>2 DEF Held
    <2> QED
        BY <1>0, <1>1, <1>2, <1>3, <1>5, <2>2, <2>3, <2>4, WordQuiet
<1> HIDE DEF x
<1> QED
    BY <1>4, <1>5 DEF TickOpen, Ends, Becomes, x, reduce

LEMMA WordTick == ASSUME TypeInv, GuardInv, WordInv, NEW t \in Ticks, Tick(t) PROVE WordInv'
<1>0. t \in Jobs /\ job[t] \in JobType /\ job[t].mark \in Int /\ mark \in Int /\ row \in RowType
    BY JobRead DEF TypeInv, Jobs
<1>1. CASE ReadPositions(t)
    <2> DEFINE x == [Idle EXCEPT !.step = "positions", !.kind = "tick", !.snap = Net,
                                 !.mark = IF Net # 0 THEN mark ELSE 0]
    <2>1. x \in JobType /\ ~Ordered(x) /\ ~Listed(x) /\ x.step # "sent"
        BY <1>0, NetType, IdleType DEF JobType, Steps, Kinds, Ordered, Listed
    <2>2. /\ job' = [job EXCEPT ![t] = x] /\ ~Sent(t) /\ current' \subseteq current \cup {t}
          /\ UNCHANGED <<row, lock, short, best>> /\ ways' = ways
        BY <1>1 DEF ReadPositions, Becomes, Sent
    <2> HIDE DEF x
    <2> QED
        BY <1>0, <2>1, <2>2, WordBegins
<1>2. ASSUME NEW x \in JobType, job' = [job EXCEPT ![t] = x], ~Ordered(x), ~Sent(t),
             Listed(x) => x.read = row \/ t \notin current,
             UNCHANGED <<row, lock, short, best, current, ways>>
      PROVE WordInv'
    <2>1. x.step # "sent" /\ row.gen \in Nat
        BY <1>0, <1>2 DEF Ordered, RowType
    <2>2. /\ lock' = lock /\ short' = short /\ best' \in Int /\ row' \in RowType /\ row'.gen >= row.gen
          /\ row'.gen = row.gen /\ row'.st = "armed" => row.st = "armed"
          /\ current' \subseteq current
          /\ Listed(x) => t \notin current' \/ x.read = row'
        BY <1>0, <1>2, <2>1 DEF WordInv
    <2>3. ways' = {} => ways = {} /\ SizeOf(row') = SizeOf(row)
        BY <1>2 DEF SizeOf
    <2>4. ways' \subseteq Healed => LevelOk(row', best')
        <3>1. LevelOk(row', best') <=> LevelOk(row, best)
            BY <1>2 DEF LevelOk, LevelOf
        <3> QED
            BY <1>2, <3>1 DEF WordInv, LevelHolds
    <2>5. (row' = row \/ current' = {}) /\ (ways' \subseteq Healed => ways \subseteq Healed)
        BY <1>2
    <2> QED
        BY <1>0, <1>2, <2>1, <2>2, <2>3, <2>4, <2>5, WordQuiet
<1>3. CASE ListRows(t)
    <2> DEFINE x == [job[t] EXCEPT !.step = "listed", !.read = row]
    <2>1. x \in JobType /\ ~Ordered(x) /\ x.read = row
        BY <1>0 DEF JobType, Steps, Ordered
    <2>2. /\ job' = [job EXCEPT ![t] = x] \/ job' = [job EXCEPT ![t] = Idle]
          /\ ~Sent(t) /\ UNCHANGED <<row, lock, short, best, current, ways>>
        BY <1>3 DEF ListRows, Becomes, Ends, Sent, hist
    <2>3. Idle \in JobType /\ ~Ordered(Idle) /\ ~Listed(Idle)
        BY IdleType DEF Listed
    <2> HIDE DEF x
    <2> QED
        BY <1>2, <2>1, <2>2, <2>3
<1>4. ASSUME NEW m \in Int, Listed(job[t]), Decide(t, m) PROVE WordInv'
    <2>1. Reading(job[t])
        BY <1>4 DEF Listed, Reading
    <2> QED
        BY <1>4, <2>1, WordArmed, WordOpen DEF Decide
<1>5. CASE Turn(t)
    <2> DEFINE x == [job[t] EXCEPT !.step = "marking"]
    <2>1. x \in JobType /\ ~Ordered(x) /\ x.read = job[t].read /\ Listed(job[t]) /\ ~Sent(t)
        BY <1>0, <1>5 DEF JobType, Steps, Ordered, Listed, Turn, Sent
    <2>2. \/ Decide(t, job[t].mark)
          \/ /\ job' = [job EXCEPT ![t] = x] \/ job' = [job EXCEPT ![t] = Idle]
             /\ UNCHANGED <<row, lock, short, best, current, ways>>
        BY <1>5 DEF Turn, Becomes, Ends, hist
    <2>3. Idle \in JobType /\ ~Ordered(Idle) /\ ~Listed(Idle)
        BY IdleType DEF Listed
    <2>4. x.read = row \/ t \notin current
        BY <2>1 DEF WordInv, ListedHold
    <2> HIDE DEF x
    <2> QED
        BY <1>0, <1>2, <1>4, <2>1, <2>2, <2>3, <2>4
<1>6. CASE MarkRead(t)
    <2>1. Listed(job[t]) /\ ~Sent(t)
        BY <1>6 DEF MarkRead, Listed, Sent
    <2>2. \/ Decide(t, mark)
          \/ /\ job' = [job EXCEPT ![t] = Idle]
             /\ UNCHANGED <<row, lock, short, best, current, ways>>
        BY <1>6 DEF MarkRead, Becomes, Ends, hist
    <2>3. Idle \in JobType /\ ~Ordered(Idle) /\ ~Listed(Idle)
        BY IdleType DEF Listed
    <2> QED
        BY <1>0, <1>2, <1>4, <2>1, <2>2, <2>3
<1> QED
    BY <1>1, <1>3, <1>5, <1>6 DEF Tick

LEMMA WordStep == TypeInv /\ GuardInv /\ WordInv /\ [Next]_vars => WordInv'
<1> SUFFICES ASSUME TypeInv, GuardInv, WordInv, [Next]_vars PROVE WordInv'
    OBVIOUS
<1>1. OrdersFit
    BY DEF GuardInv
<1>2. ASSUME NEW t \in Ticks, Tick(t) PROVE WordInv'
    BY <1>2, WordTick
<1>3. ASSUME NEW c \in Callers, RequestOf(c) \/ FinishArm(c) \/ \E n \in Targets : Rebalance(c, n)
      PROVE WordInv'
    BY <1>3, WordRequest
<1>4. ASSUME NEW j \in Jobs, Send(j) \/ Answer(j) PROVE WordInv'
    BY <1>1, <1>4, WordSend, WordAnswer
<1>5. CASE WorldStep
    BY <1>5, WordWorld
<1> QED
    BY <1>2, <1>3, <1>4, <1>5 DEF Next, WorldStep

LEMMA WordGives == ASSUME WordInv PROVE GuardKeepsItsWord
<1>1. Idling /\ ways = {} => short = IF row.st = "open" THEN row.size ELSE 0
    BY DEF WordInv, HeldFits, Idling, Sent, SizeOf
<1>2. row.st = "armed" /\ ways \subseteq {"unknown", "crash"} => row.trig >= best
    BY DEF WordInv, LevelHolds, LevelOk, Healed
<1>3. ways \subseteq {"unknown", "crash"} => row.rec <= MaxRecoveries
    BY DEF WordInv, LevelHolds, LevelOk, Healed
<1> QED
    BY <1>1, <1>2, <1>3 DEF GuardKeepsItsWord

(* With no order out the row says what the synthetic holds at the venue; a *)
(* floor the operator set is never lowered by the guard; a short is bought *)
(* back no more often than its level allows: for any number of passes and  *)
(* requests, however fires, unwinds, scales, bots, crashes and restarts    *)
(* interleave, as long as none of the named ways has been met that         *)
(* nothing heals (tickArmed and tickOpen, synthetic-guard.ts).             *)
THEOREM WordKept == Spec => []GuardKeepsItsWord
<1>1. Init => TypeInv /\ GuardInv /\ WordInv
    BY InvInit, WordInit
<1>2. TypeInv /\ GuardInv /\ WordInv /\ [Next]_vars => TypeInv' /\ GuardInv' /\ WordInv'
    BY InvStep, WordStep
<1>3. TypeInv /\ GuardInv /\ WordInv => GuardKeepsItsWord
    BY WordGives
<1> QED
    BY <1>1, <1>2, <1>3, PTL DEF Spec

----------------------------------------------------------------------------
(* The types of the state: what the lemmas above need of them is wider     *)
(* than TypeOK. Prices stay prices, sizes and counts do not fall below     *)
(* zero, because an order fills no more than it asked for and a scale      *)
(* gives back no more than the row it read had.                            *)
Prices  == {0} \cup Marks
Holders == Jobs \cup {Nobody, Bot}
Trades  == [venue : {0, BotSize}, book : {0, BotSize}]

Sound(x) ==
    /\ x.read \in Rows
    /\ x.mark \in Prices /\ x.qty \in Nat
    /\ x.fill \in Nat /\ x.fill <= x.qty
    /\ x.step = "arming" => x.qty \in Marks
    /\ Ordered(x) /\ x.kind = "scale" /\ x.side # "sell" => x.qty <= x.read.size

SpentOk == spent \in [trouble : 0..crew.trouble, request : 0..crew.request, bot : 0..crew.bot]

StoreInv ==
    /\ crew \in Crews
    /\ mark \in Marks
    /\ row \in Rows
    /\ bot \in Trades
    /\ lock \in Holders
    /\ \A j \in Jobs : Sound(job[j])
    /\ SpentOk
    /\ best \in Prices
    /\ ways \subseteq Ways

LEMMA CrewBounds ==
    ASSUME crew \in Crews PROVE crew.trouble \in Nat /\ crew.request \in Nat /\ crew.bot \in Nat
BY SyntheticGuardAssumption

LEMMA PricesAreNats == Prices \subseteq Nat /\ Marks \subseteq Prices /\ Targets \subseteq Marks /\ 0 \in Prices
BY SyntheticGuardAssumption DEF Prices

LEMMA WaysAreWays == ASSUME NEW w \in Ways, NEW b PROVE Way(w, b) \subseteq Ways
BY DEF Way

LEMMA RowsFields ==
    ASSUME NEW r \in Rows
    PROVE /\ r \in RowType /\ r.gen \in Nat /\ r.trig \in Prices /\ r.high \in Prices
          /\ r.fired \in Prices /\ r.size \in Nat /\ r.rec \in Nat
<1>1. r.gen \in Nat /\ r.trig \in Prices /\ r.high \in Prices /\ r.fired \in Prices /\ r.size \in Nat /\ r.rec \in Nat
    BY DEF Rows, Prices
<1>2. r.trig \in Int /\ r.high \in Int /\ r.fired \in Int
    <2>1. \A p \in Prices : p \in Int
        BY PricesAreNats
    <2> QED
        BY <1>1, <2>1
<1>3. r = [gen |-> r.gen, st |-> r.st, trig |-> r.trig, high |-> r.high, fired |-> r.fired,
           size |-> r.size, rec |-> r.rec, auto |-> r.auto]
    BY DEF Rows
<1>4. r.st \in {"none", "armed", "open", "closed"} /\ r.auto \in BOOLEAN
    BY DEF Rows
<1>5. r.size \in Int /\ r.rec \in Int
    BY <1>1
<1> QED
    BY <1>1, <1>2, <1>3, <1>4, <1>5 DEF RowType

(* The trigger and the best mark are prices: the trail does not leave      *)
(* them, because the trigger never moves below where it was.               *)
LEMMA RatchetPrices ==
    ASSUME NEW r \in Rows, NEW m \in Prices
    PROVE Ratchet(r, m).trig \in Prices /\ Ratchet(r, m).high \in Prices
<1>0. r.high \in Prices /\ r.trig \in Prices /\ Trail \in Nat /\ r.high \in Nat /\ r.trig \in Nat /\ m \in Nat
    BY RowsFields, PricesAreNats, SyntheticGuardAssumption
<1> DEFINE high == Larger(r.high, m)
<1>1. high \in Prices /\ high \in Nat
    BY <1>0 DEF Larger
<1> HIDE DEF high
<1> DEFINE level == high - Trail
<1>2. level \in Int /\ level <= high
    BY <1>0, <1>1
<1> HIDE DEF level
<1>3. Larger(r.trig, level) \in Prices
    <2>1. CASE r.trig > level
        BY <1>0, <2>1 DEF Larger
    <2>2. CASE ~(r.trig > level) /\ level = 0
        BY <2>2, PricesAreNats DEF Larger
    <2>3. CASE ~(r.trig > level) /\ level # 0
        <3>1. level \in 1..high /\ high # 0
            BY <1>0, <1>1, <1>2, <2>3
        <3>2. high \in Marks
            BY <1>1, <3>1 DEF Prices
        <3>3. 1..high \subseteq Marks
            BY <3>2, SyntheticGuardAssumption
        <3>4. level \in Prices
            BY <3>1, <3>3 DEF Prices
        <3> QED
            BY <2>3, <3>4 DEF Larger
    <2> QED
        BY <2>1, <2>2, <2>3
<1>4. Ratchet(r, m) = [trig |-> Larger(r.trig, level), high |-> high]
    BY DEF Ratchet, level, high
<1> QED
    BY <1>1, <1>3, <1>4

LEMMA PatchedRows ==
    ASSUME row \in Rows, NEW r \in Rows, NEW m \in Prices
    PROVE Patched(r, m) \in Rows
<1>1. Ratchet(r, m).trig \in Prices /\ Ratchet(r, m).high \in Prices
    BY RatchetPrices
<1>2. CASE Patched(r, m) = row
    BY <1>2
<1>3. CASE Patched(r, m) # row
    <2> DEFINE rec == IF Ratchet(r, m).trig # r.trig THEN 0 ELSE row.rec
    <2>1. Patched(r, m) =
            [row EXCEPT !.trig = Ratchet(r, m).trig, !.high = Ratchet(r, m).high, !.rec = rec]
        BY <1>3 DEF Patched
    <2>2. rec \in Nat
        BY RowsFields
    <2> HIDE DEF rec
    <2> QED
        BY <1>1, <2>1, <2>2 DEF Rows, Prices
<1> QED
    BY <1>2, <1>3

LEMMA OpenedRows ==
    ASSUME NEW r \in Rows, NEW n \in Nat, NEW f \in Prices PROVE Opened(r, n, f) \in Rows
BY DEF Opened, Rows, Prices

LEMMA SoundIdle == Sound(Idle) /\ NoRow \in Rows
<1>1. NoRow \in Rows
    BY DEF NoRow, Rows
<1>2. Idle.read = NoRow /\ Idle.mark = 0 /\ Idle.qty = 0 /\ Idle.fill = 0 /\ Idle.step = "idle"
    BY DEF Idle
<1> QED
    BY <1>1, <1>2 DEF Sound, Ordered, Prices

(* An order as it is placed.                                               *)
LEMMA SoundOrder ==
    ASSUME NEW kind, NEW side, NEW n \in Nat, NEW reduce, NEW r \in Rows,
           kind = "scale" /\ side # "sell" => n <= r.size
    PROVE Sound(Order(kind, side, n, reduce, r))
<1> DEFINE x == Order(kind, side, n, reduce, r)
<1>1. /\ x.step = "wait" /\ x.kind = kind /\ x.side = side /\ x.qty = n /\ x.read = r
      /\ x.fill = 0 /\ x.mark = 0
    BY DEF Order, Idle
<1> HIDE DEF x
<1>2. Sound(x)
    BY <1>1 DEF Sound, Ordered, Prices
<1> QED
    BY <1>2 DEF x

LEMMA StoreOfStep ==
    ASSUME TypeInv, StoreInv, NEW j \in Jobs, NEW x, Sound(x),
           job' = [job EXCEPT ![j] = x] \/ job' = job,
           crew' = crew, mark' \in Marks, row' \in Rows, bot' \in Trades, lock' \in Holders,
           SpentOk', best' \in Prices, ways' \subseteq Ways
    PROVE StoreInv'
<1>1. \A i \in Jobs : Sound(job'[i])
    BY DEF TypeInv, StoreInv
<1> QED
    BY <1>1 DEF StoreInv

LEMMA SpentSteps ==
    ASSUME StoreInv, crew' = crew
    PROVE (Trouble => SpentOk') /\ (Request => SpentOk') /\ (NoTrouble => SpentOk')
<1>0. /\ crew.trouble \in Nat /\ crew.request \in Nat /\ crew.bot \in Nat
      /\ spent.trouble \in 0..crew.trouble /\ spent.request \in 0..crew.request /\ spent.bot \in 0..crew.bot
      /\ spent \in [trouble : 0..crew.trouble, request : 0..crew.request, bot : 0..crew.bot]
    BY CrewBounds DEF StoreInv, SpentOk
<1>1. ASSUME Trouble PROVE SpentOk'
    <2> DEFINE n == spent.trouble + 1
    <2>1. spent' = [spent EXCEPT !.trouble = n] /\ spent.trouble < crew.trouble
        BY <1>1 DEF Trouble
    <2>2. n \in 0..crew.trouble
        BY <1>0, <2>1
    <2> HIDE DEF n
    <2> QED
        BY <1>0, <2>1, <2>2 DEF SpentOk
<1>2. ASSUME Request PROVE SpentOk'
    <2> DEFINE n == spent.request + 1
    <2>1. spent' = [spent EXCEPT !.request = n] /\ spent.request < crew.request
        BY <1>2 DEF Request
    <2>2. n \in 0..crew.request
        BY <1>0, <2>1
    <2> HIDE DEF n
    <2> QED
        BY <1>0, <2>1, <2>2 DEF SpentOk
<1>3. ASSUME NoTrouble PROVE SpentOk'
    BY <1>0, <1>3 DEF NoTrouble, SpentOk
<1> QED
    BY <1>1, <1>2, <1>3

LEMMA StoreInit == Init => StoreInv
<1> SUFFICES ASSUME Init PROVE StoreInv
    OBVIOUS
<1>0. 2 \in Marks /\ 3 \in Marks
    BY SyntheticGuardAssumption
<1>1. row \in Rows /\ best \in Prices
    <2>1. CASE crew.armed
        <3>1. /\ row = [gen |-> 1, st |-> "armed", trig |-> 2, high |-> 3, fired |-> 0, size |-> 0,
                        rec |-> 0, auto |-> FALSE]
              /\ best = 2
            BY <2>1 DEF Init, NoRow
        <3>2. row \in Rows
            BY <1>0, <3>1 DEF Rows
        <3> QED
            BY <1>0, <3>1, <3>2 DEF Prices
    <2>2. CASE ~crew.armed
        <3>1. /\ row = [gen |-> 1, st |-> "open", trig |-> 0, high |-> 0, fired |-> 0, size |-> 2,
                        rec |-> 0, auto |-> TRUE]
              /\ best = 0
            BY <2>2 DEF Init, NoRow
        <3>2. row \in Rows
            BY <3>1 DEF Rows
        <3> QED
            BY <3>1, <3>2 DEF Prices
    <2> QED
        BY <2>1, <2>2
<1>2. crew \in Crews /\ mark \in Marks /\ bot \in Trades /\ lock \in Holders /\ ways \subseteq Ways
    BY <1>0 DEF Init, Trades, Holders
<1>3. \A j \in Jobs : Sound(job[j])
    BY SoundIdle DEF Init
<1>4. SpentOk
    BY <1>2, CrewBounds DEF Init, SpentOk
<1> QED
    BY <1>1, <1>2, <1>3, <1>4 DEF StoreInv

LEMMA SoundRead ==
    ASSUME StoreInv, NEW j \in Jobs
    PROVE /\ Sound(job[j]) /\ job[j].read \in Rows /\ job[j].mark \in Prices
          /\ job[j].qty \in Nat /\ job[j].fill \in Nat
BY DEF StoreInv, Sound

(* What a step leaves alone.                                               *)
LEMMA StoreKept ==
    ASSUME TypeInv, StoreInv, NEW j \in Jobs, NEW x, Sound(x), job' = [job EXCEPT ![j] = x] \/ job' = job,
           UNCHANGED market, row' \in Rows, lock' = lock, SpentOk', best' \in Prices, ways' \subseteq Ways
    PROVE StoreInv'
BY StoreOfStep DEF StoreInv, market

LEMMA StoreDecides ==
    ASSUME TypeInv, StoreInv, NEW t \in Ticks, NEW m \in Prices, Decide(t, m) PROVE StoreInv'
<1>0. t \in Jobs /\ row \in Rows /\ best \in Prices /\ ways \subseteq Ways /\ SpentOk
    BY DEF Jobs, StoreInv
<1> DEFINE r == job[t].read
           now == Patched(r, m)
           held == job[t].snap + bot.book
<1>1. r \in Rows /\ Sound(Idle)
    BY <1>0, SoundRead, SoundIdle
<1>2. now \in Rows
    BY <1>0, <1>1, PatchedRows
<1>3. now.trig \in Prices /\ now.trig \in Nat
    BY <1>2, RowsFields, PricesAreNats
<1>4. /\ UNCHANGED market /\ lock' = lock
      /\ crew' = crew
    BY DEF Decide, TickArmed, TickOpen, market
<1>5. \A b : Way("overwritten", b) \subseteq Ways /\ Way("aged", b) \subseteq Ways /\ Way("overlap", b) \subseteq Ways
    BY WaysAreWays DEF Ways
<1>6. CASE TickArmed(t, m)
    <2> DEFINE acts == Breached(m, Ratchet(r, m).trig) /\ now.gen = r.gen /\ now.st = "armed"
               does == IF acts THEN Assess(held, now.trig) ELSE "nothing"
               lapse == Way("overwritten", now # row /\ row # r)
               old == Way("aged", Aged(t))
               both == Way("overlap", inflight)
    <2>0. lapse \subseteq Ways /\ old \subseteq Ways /\ both \subseteq Ways
        BY <1>5
    <2>1. best' \in Prices
        <3>1. best' = best \/ best' = Larger(best, now.trig)
            BY <1>6 DEF TickArmed
        <3> HIDE DEF now
        <3> QED
            BY <1>0, <1>3, <3>1 DEF Larger
    <2>2. SpentOk'
        BY <1>4, <1>6, SpentSteps DEF TickArmed
    <2>3. CASE row' = now /\ job' = [job EXCEPT ![t] = Idle] /\ ways' = ways \cup lapse
        <3> HIDE DEF now, lapse
        <3> QED
            BY <1>0, <1>1, <1>2, <1>4, <2>0, <2>1, <2>2, <2>3, StoreKept
    <2>4. CASE /\ does = "adopt" /\ row' = Opened(now, held, now.trig) /\ job' = [job EXCEPT ![t] = Idle]
               /\ ways' = (IF held = short THEN ways \ {"unknown", "crash"} ELSE ways) \cup lapse \cup old
        <3>1. held \in Int
            BY <1>0, JobRead, NetType
        <3>2. held > 0
            BY <2>4 DEF Assess
        <3> HIDE DEF held, now, lapse, old
        <3>3. held \in Nat
            BY <3>1, <3>2
        <3>4. Opened(now, held, now.trig) \in Rows
            BY <1>2, <1>3, <3>3, OpenedRows
        <3>5. ways' \subseteq Ways
            BY <1>0, <2>0, <2>4
        <3> QED
            BY <1>0, <1>1, <1>4, <2>1, <2>2, <2>4, <3>4, <3>5, StoreKept
    <2>5. CASE /\ row' = now /\ job' = [job EXCEPT ![t] = Sell("fire", now.trig, now)]
               /\ ways' = ways \cup lapse \cup old \cup both
        <3> HIDE DEF now, lapse, old, both
        <3>1. Sound(Sell("fire", now.trig, now))
            BY <1>2, <1>3, SoundOrder DEF Sell
        <3>2. ways' \subseteq Ways
            BY <1>0, <2>0, <2>5
        <3> QED
            BY <1>0, <1>2, <1>4, <2>1, <2>2, <2>5, <3>1, <3>2, StoreKept
    <2> QED
        BY <1>6, <2>3, <2>4, <2>5 DEF TickArmed, Ends, Becomes
<1>7. CASE TickOpen(t, m)
    <2> DEFINE reduce == job[t].snap >= row.size
               order == Buy("unwind", row.size, reduce, row)
               x == [order EXCEPT !.mark = m]
    <2>1. row.size \in Nat
        BY <1>0, RowsFields
    <2>2. Sound(x)
        <3>1. Sound(order)
            <4> HIDE DEF reduce
            <4> QED
                BY <1>0, <2>1, SoundOrder DEF Buy
        <3>2. /\ x.read = order.read /\ x.mark = m /\ x.qty = order.qty /\ x.fill = order.fill
              /\ x.step = order.step /\ x.kind = order.kind /\ x.side = order.side
            BY DEF Buy, Order, Idle
        <3> HIDE DEF x, order
        <3> QED
            BY <3>1, <3>2 DEF Sound, Ordered
    <2>3. job' = [job EXCEPT ![t] = Idle] \/ job' = [job EXCEPT ![t] = x]
        BY <1>7 DEF TickOpen, Ends, Becomes
    <2>4. ways' \subseteq Ways
        <3>1. ways' = ways \/ ways' = ways \cup Way("overlap", inflight)
                \/ ways' = ways \cup Way("aged", Aged(t)) \cup Way("overlap", inflight)
            BY <1>7 DEF TickOpen
        <3> QED
            BY <1>0, <1>5, <3>1
    <2>5. row' = row /\ best' = best
        BY <1>7 DEF TickOpen
    <2>6. SpentOk'
        BY <1>4, <1>7, SpentSteps DEF TickOpen, NoTrouble
    <2> HIDE DEF x
    <2> QED
        BY <1>0, <1>1, <1>4, <2>2, <2>3, <2>4, <2>5, <2>6, StoreKept
<1> QED
    BY <1>6, <1>7 DEF Decide

LEMMA StoreTick == ASSUME TypeInv, StoreInv, NEW t \in Ticks, Tick(t) PROVE StoreInv'
<1>0. t \in Jobs /\ row \in Rows /\ best \in Prices /\ ways \subseteq Ways /\ mark \in Marks /\ mark \in Prices /\ SpentOk
    BY PricesAreNats DEF Jobs, StoreInv
<1>1. Sound(job[t]) /\ job[t].mark \in Prices /\ Sound(Idle)
    BY <1>0, SoundRead, SoundIdle
<1>2. ASSUME NEW x, Sound(x), job' = [job EXCEPT ![t] = x], UNCHANGED <<market, row, lock, best, ways>>,
             UNCHANGED spent \/ Trouble
      PROVE StoreInv'
    <2>1. SpentOk'
        BY <1>2, SpentSteps DEF market, NoTrouble
    <2> QED
        BY <1>0, <1>2, <2>1, StoreKept
<1>3. CASE ReadPositions(t)
    <2> DEFINE x == [Idle EXCEPT !.step = "positions", !.kind = "tick", !.snap = Net,
                                 !.mark = IF Net # 0 THEN mark ELSE 0]
    <2>1. /\ x.read = Idle.read /\ x.mark \in Prices /\ x.qty = Idle.qty /\ x.fill = Idle.fill
          /\ x.step = "positions"
        BY <1>0, PricesAreNats DEF Idle
    <2>2. job' = [job EXCEPT ![t] = x]
        BY <1>3 DEF ReadPositions, Becomes
    <2> HIDE DEF x
    <2>3. Sound(x)
        BY <1>1, <2>1 DEF Sound, Ordered
    <2> QED
        BY <1>2, <1>3, <2>2, <2>3 DEF ReadPositions
<1>4. CASE ListRows(t)
    <2> DEFINE x == [job[t] EXCEPT !.step = "listed", !.read = row]
    <2>1. x.read = row /\ x.mark = job[t].mark /\ x.qty = job[t].qty /\ x.fill = job[t].fill /\ x.step = "listed"
        <3>1. job[t] \in JobType
            BY <1>0, JobRead
        <3> QED
            BY <3>1 DEF JobType
    <2>2. job' = [job EXCEPT ![t] = x] \/ job' = [job EXCEPT ![t] = Idle]
        BY <1>4 DEF ListRows, Becomes, Ends
    <2> HIDE DEF x
    <2>3. Sound(x)
        BY <1>0, <1>1, <2>1 DEF Sound, Ordered
    <2> QED
        BY <1>1, <1>2, <1>4, <2>2, <2>3 DEF ListRows, hist
<1>5. CASE Turn(t)
    <2> DEFINE x == [job[t] EXCEPT !.step = "marking"]
    <2>1. /\ x.read = job[t].read /\ x.mark = job[t].mark /\ x.qty = job[t].qty /\ x.fill = job[t].fill
          /\ x.step = "marking"
        <3>1. job[t] \in JobType
            BY <1>0, JobRead
        <3> QED
            BY <3>1 DEF JobType
    <2>2. \/ Decide(t, job[t].mark)
          \/ /\ job' = [job EXCEPT ![t] = x] \/ job' = [job EXCEPT ![t] = Idle]
             /\ UNCHANGED <<market, row, lock, best, ways, spent>>
        BY <1>5 DEF Turn, Becomes, Ends, hist
    <2> HIDE DEF x
    <2>3. Sound(x)
        BY <1>1, <2>1 DEF Sound, Ordered
    <2> QED
        BY <1>1, <1>2, <2>2, <2>3, StoreDecides
<1>6. CASE MarkRead(t)
    <2>1. \/ Decide(t, mark)
          \/ Trouble /\ job' = [job EXCEPT ![t] = Idle] /\ UNCHANGED <<market, row, lock, best, ways>>
        BY <1>6 DEF MarkRead, Becomes, Ends, hist
    <2> QED
        BY <1>0, <1>1, <1>2, <2>1, StoreDecides
<1> QED
    BY <1>3, <1>4, <1>5, <1>6 DEF Tick

LEMMA StoreRequest ==
    ASSUME TypeInv, StoreInv, NEW c \in Callers,
           RequestOf(c) \/ FinishArm(c) \/ \E n \in Targets : Rebalance(c, n)
    PROVE StoreInv'
<1>0. /\ c \in Jobs /\ row \in Rows /\ best \in Prices /\ ways \subseteq Ways /\ mark \in Marks
      /\ mark \in Prices /\ SpentOk /\ Sound(Idle) /\ 0 \in Prices
    BY SoundIdle, PricesAreNats DEF Jobs, StoreInv
<1>00. \A n \in Targets : n \in Marks /\ n \in Prices /\ n \in Nat
    BY PricesAreNats
<1>000. row.gen \in Nat /\ row.size \in Nat /\ row.trig \in Prices /\ row.high \in Prices
    BY <1>0, RowsFields
(* It starts or goes on with a job, and changes no row.                    *)
<1>1. ASSUME NEW x, Sound(x), job' = [job EXCEPT ![c] = x], UNCHANGED <<market, row, lock, best, ways>>,
             UNCHANGED spent \/ Request
      PROVE StoreInv'
    <2>1. SpentOk'
        BY <1>1, SpentSteps DEF market, NoTrouble
    <2> QED
        BY <1>0, <1>1, <2>1, StoreKept
(* It writes the row at once.                                              *)
<1>2. ASSUME NEW r \in Rows, row' = r, job' = job \/ job' = [job EXCEPT ![c] = Idle], UNCHANGED <<market, lock>>,
             UNCHANGED spent \/ Request, best' \in Prices, ways' \subseteq Ways
      PROVE StoreInv'
    <2>1. SpentOk'
        BY <1>2, SpentSteps DEF market, NoTrouble
    <2> QED
        BY <1>0, <1>2, <2>1, StoreKept
<1>3. CASE StartClose(c)
    <2> DEFINE yes == TRUE
               x == Buy("close", row.size, yes, row)
    <2>1. job' = [job EXCEPT ![c] = x] /\ UNCHANGED <<market, row, lock, best, ways>> /\ Request
        BY <1>3 DEF StartClose, Ready, Becomes, hist
    <2>2. Sound(x)
        <3> HIDE DEF yes
        <3> QED
            BY <1>0, <1>000, SoundOrder DEF Buy
    <2> HIDE DEF x
    <2> QED
        BY <1>1, <2>1, <2>2
<1>4. ASSUME NEW n \in Targets, Scale(c, n), UNCHANGED <<market, row, lock, best, ways>>,
             UNCHANGED spent \/ Request
      PROVE StoreInv'
    <2> DEFINE no == FALSE yes == TRUE
               up == n - row.size down == row.size - n
               x == Order("scale", "sell", up, no, row)
               y == Order("scale", "buy", down, yes, row)
    <2>1. CASE n > row.size
        <3>1. job' = [job EXCEPT ![c] = x]
            BY <1>4, <2>1 DEF Scale, Becomes, Sell
        <3>2. up \in Nat
            BY <1>00, <1>000, <2>1
        <3>3. Sound(x)
            <4> HIDE DEF up, no
            <4> QED
                BY <1>0, <3>2, SoundOrder
        <3> HIDE DEF x
        <3> QED
            BY <1>1, <1>4, <3>1, <3>3
    <2>2. CASE ~(n > row.size)
        <3>1. job' = [job EXCEPT ![c] = y]
            BY <1>4, <2>2 DEF Scale, Becomes, Buy
        <3>2. down \in Nat /\ down <= row.size
            BY <1>00, <1>000, <2>2
        <3>3. Sound(y)
            <4> HIDE DEF down, yes
            <4> QED
                BY <1>0, <3>2, SoundOrder
        <3> HIDE DEF y
        <3> QED
            BY <1>1, <1>4, <3>1, <3>3
    <2> QED
        BY <2>1, <2>2
<1>5. ASSUME NEW n \in Targets, StartScale(c, n) PROVE StoreInv'
    <2>1. Scale(c, n) /\ UNCHANGED <<market, row, lock, best, ways>> /\ Request
        BY <1>5 DEF StartScale, Ready, hist
    <2> QED
        BY <1>4, <2>1
<1>6. ASSUME NEW n \in Targets, StartMint(c, n) PROVE StoreInv'
    <2> DEFINE x == Sell("mint", n, row)
    <2>1. job' = [job EXCEPT ![c] = x] /\ UNCHANGED <<market, row, lock, best, ways>> /\ Request
        BY <1>6 DEF StartMint, Ready, Becomes, hist
    <2>2. Sound(x)
        BY <1>0, <1>00, SoundOrder DEF Sell
    <2> HIDE DEF x
    <2> QED
        BY <1>1, <2>1, <2>2
<1>7. ASSUME NEW n \in Targets, StartArm(c, n) PROVE StoreInv'
    <2> DEFINE x == [Idle EXCEPT !.step = "arming", !.kind = "arm", !.qty = n, !.read = row]
    <2>1. job' = [job EXCEPT ![c] = x] /\ UNCHANGED <<market, row, lock, best, ways>> /\ Request
        BY <1>7 DEF StartArm, Ready, Becomes, hist
    <2>2. x.read = row /\ x.mark = 0 /\ x.qty = n /\ x.fill = 0 /\ x.step = "arming"
        BY DEF Idle
    <2> HIDE DEF x
    <2>3. Sound(x)
        BY <1>0, <1>00, <2>2 DEF Sound, Ordered
    <2> QED
        BY <1>1, <2>1, <2>3
<1>8. ASSUME NEW n \in Targets, Update(c, n) PROVE StoreInv'
    <2> DEFINE zero == 0
               r == [row EXCEPT !.trig = n, !.high = zero, !.rec = zero]
    <2>1. row' = r /\ best' = n /\ UNCHANGED <<market, lock, job, ways>> /\ Request
        BY <1>8 DEF Update, Ready
    <2>2. r \in Rows
        BY <1>0, <1>00 DEF Rows, Prices
    <2> HIDE DEF r
    <2> QED
        BY <1>0, <1>00, <1>2, <2>1, <2>2
<1>9. CASE Disarm(c)
    <2> DEFINE zero == 0
               r == [row EXCEPT !.st = "closed"]
               s == [row EXCEPT !.trig = zero, !.high = zero, !.fired = zero]
    <2>1. (row' = r \/ row' = s) /\ best' = best /\ UNCHANGED <<market, lock, job, ways>> /\ Request
        BY <1>9 DEF Disarm, Ready
    <2>2. r \in Rows /\ s \in Rows
        BY <1>0 DEF Rows
    <2> HIDE DEF r, s
    <2> QED
        BY <1>0, <1>2, <2>1, <2>2
<1>10. CASE SetAuto(c)
    <2> DEFINE r == [row EXCEPT !.auto = TRUE]
    <2>1. row' = r /\ best' = best /\ UNCHANGED <<market, lock, job, ways>> /\ Request
        BY <1>10 DEF SetAuto, Ready
    <2>2. r \in Rows
        BY <1>0 DEF Rows
    <2> HIDE DEF r
    <2> QED
        BY <1>0, <1>2, <2>1, <2>2
<1>11. CASE StartRebalance(c)
    <2> DEFINE x == [Idle EXCEPT !.step = "drift", !.kind = "auto", !.read = row]
    <2>1. job' = [job EXCEPT ![c] = x] /\ UNCHANGED <<market, row, lock, best, ways>> /\ Request
        BY <1>11 DEF StartRebalance, Ready, Becomes, hist
    <2>2. x.read = row /\ x.mark = 0 /\ x.qty = 0 /\ x.fill = 0 /\ x.step = "drift"
        BY DEF Idle
    <2> HIDE DEF x
    <2>3. Sound(x)
        BY <1>0, <2>2 DEF Sound, Ordered
    <2> QED
        BY <1>1, <2>1, <2>3
<1>12. CASE FinishArm(c)
    <2> DEFINE p == job[c].qty
               r == job[c].read
               zero == 0 no == FALSE
               next == row.gen + 1
               attached == [row EXCEPT !.trig = p, !.high = mark, !.fired = p, !.rec = zero, !.auto = no]
               inserted == [NoRow EXCEPT !.gen = next, !.st = "armed", !.trig = p, !.high = mark]
    <2>1. p \in Marks /\ p \in Prices
        <3>1. job[c].step = "arming" /\ Sound(job[c])
            BY <1>0, <1>12, SoundRead DEF FinishArm
        <3> QED
            BY <3>1, PricesAreNats DEF Sound
    <2>2. row' \in {row, attached, inserted} /\ best' = p /\ job' = [job EXCEPT ![c] = Idle]
          /\ UNCHANGED <<market, lock, spent>>
        BY <1>12 DEF FinishArm, Ends, Becomes
    <2>3. next \in Nat /\ NoRow \in Rows
        BY <1>000, SoundIdle
    <2>4. ways' \subseteq Ways
        <3>1. ways' = ways \cup Way("overtaken", row # r) \/ ways' = ways \cup Way("second", Live(row))
            BY <1>12 DEF FinishArm
        <3>2. Way("overtaken", row # r) \subseteq Ways /\ Way("second", Live(row)) \subseteq Ways
            BY WaysAreWays DEF Ways
        <3> QED
            BY <1>0, <3>1, <3>2
    <2> HIDE DEF p, next
    <2>5. attached \in Rows
        BY <1>0, <2>1 DEF Rows, Prices
    <2>6. inserted \in Rows
        BY <1>0, <2>1, <2>3 DEF Rows, Prices
    <2> HIDE DEF attached, inserted
    <2> QED
        BY <1>0, <1>2, <2>1, <2>2, <2>4, <2>5, <2>6
<1>13. ASSUME NEW n \in Targets, Rebalance(c, n) PROVE StoreInv'
    <2>1. (Scale(c, n) \/ job' = [job EXCEPT ![c] = Idle]) /\ UNCHANGED <<market, row, lock, best, ways, spent>>
        BY <1>13 DEF Rebalance, Ends, Becomes, hist
    <2> QED
        BY <1>0, <1>1, <1>4, <2>1
<1> QED
    BY <1>3, <1>5, <1>6, <1>7, <1>8, <1>9, <1>10, <1>11, <1>12, <1>13 DEF RequestOf

(* A fill is no more than was asked for.                                   *)
LEMMA OutcomeFits ==
    ASSUME TypeInv, StoreInv, NEW j \in Jobs, NEW o \in Outcomes(j)
    PROVE o[1] \in Nat /\ o[1] <= job[j].qty
<1>0. job[j].qty \in Nat /\ Net \in Int
    BY SoundRead, NetType
<1>1. Cap(j) \in Nat /\ Cap(j) <= job[j].qty
    <2> DEFINE net == Net
               qty == job[j].qty
    <2>1. Cap(j) = IF job[j].reduce THEN Smaller(qty, Larger(0, net)) ELSE qty
        BY DEF Cap
    <2>2. qty \in Nat /\ net \in Int
        BY <1>0
    <2> HIDE DEF net, qty
    <2>3. Smaller(qty, Larger(0, net)) \in Nat /\ Smaller(qty, Larger(0, net)) <= qty
        BY <2>2 DEF Smaller, Larger
    <2> QED
        BY <2>1, <2>2, <2>3 DEF qty
<1> DEFINE cap == Cap(j)
           full == cap > 0
           yes == TRUE
           no == FALSE
<1>2. o[1] = cap \/ (o[1] = 1 /\ cap > 1) \/ o[1] = 0
    <2>1. \/ o = <<cap, full, no>> \/ (o = <<1, yes, yes>> /\ cap > 1)
          \/ o = <<0, no, yes>> \/ o = <<cap, no, yes>>
        BY DEF Outcomes
    <2> HIDE DEF cap, full, yes, no
    <2> QED
        BY <2>1
<1>3. cap \in Nat /\ cap <= job[j].qty
    BY <1>1
<1> HIDE DEF cap
<1> QED
    BY <1>0, <1>2, <1>3

LEMMA StoreSend == ASSUME TypeInv, StoreInv, NEW j \in Jobs, Send(j) PROVE StoreInv'
<1>1. PICK o \in Outcomes(j) :
        /\ job' = [job EXCEPT ![j] = [job[j] EXCEPT !.step = "sent", !.fill = o[1], !.ok = o[2]]]
        /\ Trouble \/ NoTrouble
    BY DEF Send, Becomes
<1>2. o[1] \in Nat /\ o[1] <= job[j].qty
    BY OutcomeFits
<1> DEFINE n == o[1] done == o[2]
           x == [job[j] EXCEPT !.step = "sent", !.fill = n, !.ok = done]
<1>3. /\ job' = [job EXCEPT ![j] = x] /\ n \in Nat /\ n <= job[j].qty
    BY <1>1, <1>2
<1> HIDE DEF n, done
<1>4. /\ x.step = "sent" /\ x.fill = n /\ x.kind = job[j].kind /\ x.read = job[j].read
      /\ x.mark = job[j].mark /\ x.qty = job[j].qty /\ x.side = job[j].side
    BY JobRead DEF JobType
<1>5. job[j].step = "wait" /\ Sound(job[j])
    BY SoundRead DEF Send
<1> HIDE DEF x
<1>6. Sound(x)
    BY <1>3, <1>4, <1>5 DEF Sound, Ordered
<1>7. /\ lock' = j /\ ways' = ways \cup Way("overtaken", row # job[j].read)
      /\ UNCHANGED <<market, row, best>>
    BY DEF Send
<1>8. lock' \in Holders /\ mark' \in Marks /\ row' \in Rows /\ bot' \in Trades /\ best' \in Prices /\ crew' = crew
    BY <1>7 DEF Holders, market, StoreInv
<1>9. ways' \subseteq Ways
    <2>1. Way("overtaken", row # job[j].read) \subseteq Ways
        BY WaysAreWays DEF Ways
    <2> QED
        BY <1>7, <2>1 DEF StoreInv
<1>10. SpentOk'
    BY <1>1, <1>8, SpentSteps
<1> QED
    BY <1>3, <1>6, <1>8, <1>9, <1>10, StoreOfStep

LEMMA BookedRows ==
    ASSUME TypeInv, StoreInv, OrdersFit, NEW j \in Jobs, job[j].step = "sent" PROVE Booked(j) \in Rows
<1>0. /\ row \in Rows /\ row.gen \in Nat /\ Sound(job[j]) /\ job[j].read \in Rows
      /\ job[j].mark \in Prices /\ job[j].qty \in Nat /\ job[j].fill \in Nat
    BY SoundRead, RowsFields DEF StoreInv
<1>00. /\ job[j].read.trig \in Prices /\ job[j].read.fired \in Prices /\ job[j].read.rec \in Nat
       /\ job[j].read.size \in Nat
    BY <1>0, RowsFields
<1>1. job[j].kind \in {"fire", "unwind", "mint", "scale", "close"}
    BY DEF OrdersFit, Ordered
<1>2. CASE job[j].kind = "mint"
    <2> DEFINE next == row.gen + 1
               n == job[j].qty
    <2>1. Booked(j) = [NoRow EXCEPT !.gen = next, !.st = "open", !.size = n]
        BY <1>2 DEF Booked, Minted
    <2>2. next \in Nat /\ n \in Nat /\ NoRow \in Rows
        BY <1>0, SoundIdle
    <2> HIDE DEF next, n
    <2> QED
        BY <2>1, <2>2 DEF Rows
<1>3. CASE job[j].kind # "mint" /\ row.gen # job[j].read.gen
    BY <1>0, <1>3 DEF Booked
<1> DEFINE mine == job[j].kind # "mint" /\ row.gen = job[j].read.gen
<1>4. CASE mine /\ job[j].kind = "fire"
    <2>1. Booked(j) = Opened(row, job[j].fill, job[j].read.trig)
        BY <1>4 DEF Booked, Fired
    <2> QED
        BY <1>0, <1>00, <2>1, OpenedRows
<1>5. CASE mine /\ job[j].kind = "unwind"
    <2> DEFINE zero == 0 no == FALSE
               level == IF job[j].read.fired # zero THEN job[j].read.fired ELSE job[j].read.trig
               rec == job[j].read.rec + 1
               high == job[j].mark
    <2>1. Booked(j) = [row EXCEPT !.st = "armed", !.size = zero, !.auto = no, !.high = high,
                                  !.fired = zero, !.trig = level, !.rec = rec]
        BY <1>5 DEF Booked, Rearmed
    <2>2. zero \in Nat /\ zero \in Prices /\ no \in BOOLEAN /\ level \in Prices /\ rec \in Nat /\ high \in Prices
        BY <1>0, <1>00, PricesAreNats
    <2> HIDE DEF zero, no, level, rec, high
    <2> QED
        BY <1>0, <2>1, <2>2 DEF Rows, Prices
<1>6. CASE mine /\ job[j].kind = "scale"
    <2> DEFINE n == IF job[j].side = "sell" THEN job[j].read.size + job[j].qty ELSE job[j].read.size - job[j].qty
    <2>1. Booked(j) = [row EXCEPT !.size = n]
        BY <1>6 DEF Booked, Scaled
    <2>2. job[j].side = "sell" \/ job[j].qty <= job[j].read.size
        BY <1>0, <1>6 DEF Sound, Ordered
    <2>3. n \in Nat
        BY <1>0, <1>00, <2>2
    <2> HIDE DEF n
    <2> QED
        BY <1>0, <2>1, <2>3 DEF Rows
<1>7. CASE mine /\ job[j].kind = "close"
    <2> DEFINE zero == 0
    <2>1. Booked(j) = [row EXCEPT !.st = "closed", !.size = zero]
        BY <1>7 DEF Booked, Closed
    <2>2. zero \in Nat
        OBVIOUS
    <2> HIDE DEF zero
    <2> QED
        BY <1>0, <2>1, <2>2 DEF Rows
<1> QED
    BY <1>1, <1>2, <1>3, <1>4, <1>5, <1>6, <1>7

LEMMA StoreAnswer == ASSUME TypeInv, StoreInv, OrdersFit, NEW j \in Jobs, Answer(j) PROVE StoreInv'
<1>1. row' = row \/ row' = Booked(j)
    BY DEF Answer
<1>2. row' \in Rows
    <2>1. job[j].step = "sent" /\ row \in Rows
        BY DEF Answer, StoreInv
    <2> QED
        BY <1>1, <2>1, BookedRows
<1>3. /\ job' = [job EXCEPT ![j] = Idle] /\ lock' = Nobody
      /\ UNCHANGED <<market, spent, best>>
    BY DEF Answer, Ends, Becomes
<1>4. ways' \subseteq Ways
    <2>1. ways' = ways \cup Flaws(j) \/ ways' = ways \cup Way("unknown", job[j].fill # 0)
        BY DEF Answer
    <2>2. /\ Way("part", job[j].kind # "fire" /\ job[j].fill # job[j].qty) \subseteq Ways
          /\ Way("overtaken", row # job[j].read) \subseteq Ways
          /\ Way("second", job[j].kind = "mint" /\ Live(row)) \subseteq Ways
          /\ Way("unknown", job[j].fill # 0) \subseteq Ways
        BY WaysAreWays DEF Ways
    <2>3. Flaws(j) \subseteq Ways
        BY <2>2 DEF Flaws
    <2> QED
        BY <2>1, <2>2, <2>3 DEF StoreInv
<1>5. lock' \in Holders /\ mark' \in Marks /\ bot' \in Trades /\ best' \in Prices /\ crew' = crew
    BY <1>3 DEF Holders, market, StoreInv
<1>6. SpentOk'
    BY <1>3, <1>5, SpentSteps DEF NoTrouble
<1> QED
    BY <1>2, <1>3, <1>4, <1>5, <1>6, SoundIdle, StoreOfStep

LEMMA StoreWorld == ASSUME TypeInv, StoreInv, WorldStep PROVE StoreInv'
<1>0. /\ crew \in Crews /\ mark \in Marks /\ row \in Rows /\ bot \in Trades /\ lock \in Holders
      /\ (\A j \in Jobs : Sound(job[j])) /\ SpentOk /\ best \in Prices /\ ways \subseteq Ways
    BY DEF StoreInv
<1>1. CASE BotTrades
    <2>1. crew' = crew /\ UNCHANGED <<mark, row, job, best, ways>> /\ lock' = Bot
        BY <1>1 DEF BotTrades
    <2>2. bot' \in Trades
        <3>1. bot' = [bot EXCEPT !.venue = BotSize - bot.venue] /\ BotSize \in Nat
            BY <1>1, SyntheticGuardAssumption DEF BotTrades
        <3>2. bot.venue \in {0, BotSize}
            BY <1>0 DEF Trades
        <3> DEFINE n == BotSize - bot.venue
        <3>3. n \in {0, BotSize}
            BY <3>1, <3>2
        <3> HIDE DEF n
        <3> QED
            BY <1>0, <3>1, <3>3 DEF Trades, n
    <2>3. SpentOk'
        <3>1. spent.bot \in 0..crew.bot /\ crew.bot \in Nat
            BY <1>0, CrewBounds DEF SpentOk
        <3> DEFINE n == spent.bot + 1
        <3>2. spent' = [spent EXCEPT !.bot = n] /\ spent.bot < crew.bot
            BY <1>1 DEF BotTrades
        <3>3. n \in 0..crew.bot
            BY <3>1, <3>2
        <3> HIDE DEF n
        <3> QED
            BY <1>0, <2>1, <3>2, <3>3 DEF SpentOk
    <2> QED
        BY <1>0, <2>1, <2>2, <2>3 DEF StoreInv, Holders
<1>2. CASE BotBooks
    <2>1. UNCHANGED <<crew, mark, row, job, spent, best, ways>> /\ lock' = Nobody
        BY <1>2 DEF BotBooks
    <2>2. bot' \in Trades
        BY <1>0, <1>2 DEF BotBooks, Trades
    <2> QED
        BY <1>0, <2>1, <2>2 DEF StoreInv, Holders, SpentOk
<1>3. CASE MarkMoves
    <2>1. UNCHANGED <<crew, bot, row, lock, job, spent, best, ways>> /\ mark' \in Marks
        BY <1>3 DEF MarkMoves, hist
    <2> QED
        BY <1>0, <2>1 DEF StoreInv, SpentOk
<1>4. CASE Crash
    <2> DEFINE lost == \E j \in Jobs : job[j].step = "sent" /\ job[j].fill # 0
    <2>1. /\ UNCHANGED <<crew, mark, bot, row, best>> /\ lock' = Nobody /\ Trouble
          /\ job' = [j \in Jobs |-> Idle] /\ ways' = ways \cup Way("crash", lost)
        BY <1>4 DEF Crash, market
    <2>2. Way("crash", lost) \subseteq Ways
        BY WaysAreWays DEF Ways
    <2> HIDE DEF lost
    <2>3. SpentOk'
        BY <2>1, SpentSteps
    <2>4. \A j \in Jobs : Sound(job'[j])
        BY <2>1, SoundIdle
    <2>5. ways' \subseteq Ways
        BY <1>0, <2>1, <2>2
    <2> QED
        BY <1>0, <2>1, <2>3, <2>4, <2>5 DEF StoreInv, Holders
<1>5. CASE UNCHANGED vars
    BY <1>0, <1>5 DEF vars, market, hist, StoreInv, SpentOk
<1> QED
    BY <1>1, <1>2, <1>3, <1>4, <1>5 DEF WorldStep

LEMMA StoreStep == TypeInv /\ GuardInv /\ StoreInv /\ [Next]_vars => StoreInv'
<1> SUFFICES ASSUME TypeInv, GuardInv, StoreInv, [Next]_vars PROVE StoreInv'
    OBVIOUS
<1>1. OrdersFit
    BY DEF GuardInv
<1>2. ASSUME NEW t \in Ticks, Tick(t) PROVE StoreInv'
    BY <1>2, StoreTick
<1>3. ASSUME NEW c \in Callers, RequestOf(c) \/ FinishArm(c) \/ \E n \in Targets : Rebalance(c, n)
      PROVE StoreInv'
    BY <1>3, StoreRequest
<1>4. ASSUME NEW j \in Jobs, Send(j) \/ Answer(j) PROVE StoreInv'
    BY <1>1, <1>4, StoreSend, StoreAnswer
<1>5. CASE WorldStep
    BY <1>5, StoreWorld
<1> QED
    BY <1>2, <1>3, <1>4, <1>5 DEF Next, WorldStep

LEMMA StoreGives == ASSUME TypeInv, StoreInv PROVE TypeOK
<1>1. \A j \in Jobs :
        /\ job[j].step \in {"idle", "positions", "listed", "marking", "wait", "sent", "arming", "drift"}
        /\ job[j].kind \in {"", "tick", "fire", "unwind", "mint", "scale", "close", "arm", "auto"}
        /\ job[j].side \in {"", "sell", "buy"}
    BY DEF TypeInv, JobType, Steps, Kinds
<1>2. \A j \in Jobs : job[j].read \in Rows /\ job[j].fill <= job[j].qty
    BY DEF StoreInv, Sound
<1>3. inflight \in BOOLEAN /\ short \in Int /\ current \subseteq Jobs
    BY DEF TypeInv
<1>4. /\ crew \in Crews /\ mark \in Marks /\ row \in Rows /\ lock \in Jobs \cup {Nobody, Bot}
      /\ bot \in [venue : {0, BotSize}, book : {0, BotSize}]
      /\ spent \in [trouble : 0..crew.trouble, request : 0..crew.request, bot : 0..crew.bot]
      /\ best \in {0} \cup Marks /\ ways \subseteq Ways
    BY DEF StoreInv, Prices, Holders, Trades, SpentOk
<1> QED
    BY <1>1, <1>2, <1>3, <1>4 DEF TypeOK

(* A trigger never leaves the prices, though a pass computes it from a row *)
(* and a mark of another moment (ratchetTrigger, synthetic-guard.ts); no   *)
(* size of a row falls below zero, though the order that changes it was    *)
(* computed from a row that has changed since (planMutation,               *)
(* synthetic-usd.ts); an order fills no more than it asked for.            *)
THEOREM TypeCorrect == Spec => []TypeOK
<1>1. Init => TypeInv /\ GuardInv /\ StoreInv
    BY InvInit, StoreInit
<1>2. TypeInv /\ GuardInv /\ StoreInv /\ [Next]_vars => TypeInv' /\ GuardInv' /\ StoreInv'
    BY InvStep, StoreStep
<1>3. TypeInv /\ GuardInv /\ StoreInv => TypeOK
    BY StoreGives
<1> QED
    BY <1>1, <1>2, <1>3, PTL DEF Spec
=============================================================================
