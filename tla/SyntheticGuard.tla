--------------------------- MODULE SyntheticGuard ---------------------------
(***************************************************************************)
(* An armed synthetic dollar: a short that is sold when the mark falls     *)
(* through its trigger and bought back when the mark recovers. The guard   *)
(* ticks on a timer whether or not its last tick has ended; the operator   *)
(* arms, disarms, mints, scales and closes; the rebalancer scales; bots    *)
(* trade the same instrument, and the venue nets all of it in one          *)
(* position. An order holds the venue's order lock from its placement to   *)
(* its settlement; nothing else does.                                      *)
(*                                                                         *)
(* Source: node-backend/src/services/synthetic-guard.ts, synthetic-usd.ts  *)
(* and synthetic-rebalancer.ts. The market and the venue are external.     *)
(* One market of an inverse contract, long holdings of one coin: the plan  *)
(* of a trigger is its price. The trail is absolute, recovery is reached   *)
(* above the trigger that fired. Manual positions and the entry rungs a    *)
(* fire cancels are left out; an order waits for the lock in any order     *)
(* (see OrderLock). Whether the new hour an unwind waits for has come, the *)
(* cooldown of the rebalancer is over and its basis is fresh, is any.      *)
(***************************************************************************)
EXTENDS Integers, FiniteSets

CONSTANTS
    Ticks,        \* passes of the guard that may be under way at once
    Callers,      \* requests of the operator and of the rebalancer
    Nobody, Bot,  \* the lock is free, or a bot's order holds it
    Marks,        \* prices: 1..n, or all
    Trail,        \* the distance of the trigger to the best mark
    MaxRecoveries, \* arm_max_recoveries
    BotSize,      \* what a bot's trade holds, long
    Targets,      \* sizes and triggers the operator and the rebalancer ask for
    Crews         \* the actors and the bounds to explore, see crew

ASSUME SyntheticGuardAssumption ==
    /\ {Nobody, Bot} \cap (Ticks \cup Callers) = {} /\ Nobody # Bot
    /\ Ticks \cap Callers = {}
    /\ Marks \subseteq Nat \ {0} /\ {2, 3} \subseteq Marks
    /\ \A m \in Marks : 1..m \subseteq Marks
    /\ {Trail, MaxRecoveries, BotSize} \subseteq Nat
    /\ Targets \subseteq Marks
    /\ Crews \subseteq [jobs : SUBSET (Ticks \cup Callers), armed : BOOLEAN,
                       trouble : Nat, request : Nat, bot : Nat]

VARIABLES
    crew,      \* who acts, whether the row starts armed or plainly open, and the bounds: of
               \* troubles (lost answers, part fills, halts, no mark, crashes), requests, bot trades
    mark,      \* the market
    row,       \* synthetic_usd_positions: the row of this market that is live or was last
    inflight,  \* the guard's set of rows with an order out (in memory)
    lock,      \* the holder of the venue's order lock
    short,     \* what the synthetic's orders hold short at the venue
    bot,       \* a bot's long: at the venue and in the book
    job,       \* the passes and requests under way
    spent,     \* troubles, requests and bot trades so far
    current,   \* history: the jobs whose readings nothing has changed since
    best,      \* history: the best trigger since the operator last set one
    ways       \* history: the ways in which things came apart, see Ways

market == <<crew, mark, bot>>
hist   == <<current, best, ways>>
vars   == <<market, row, inflight, lock, short, job, spent, hist>>

Jobs == Ticks \cup Callers

\* part: a fill in part, or cut by the venue to its net position, was booked whole (not by a
\* fire); unknown: an order that did trade was reported as failed; crash: between a fill and
\* its row; overlap: a tick went on though an order of another pass was out; aged: a tick
\* acted on readings that are not of one moment; overtaken: the row changed between what the
\* sender of an order read and what its order does; overwritten: a tick wrote the trigger of
\* a row that changed since it listed it; second: two live rows.
Ways == {"part", "unknown", "crash", "overlap", "aged", "overtaken", "overwritten", "second"}
Way(w, happened) == IF happened THEN {w} ELSE {}

Larger(a, b)  == IF a > b THEN a ELSE b
Smaller(a, b) == IF a < b THEN a ELSE b

Rows == [gen : Nat, st : {"none", "armed", "open", "closed"}, trig : {0} \cup Marks,
         high : {0} \cup Marks, fired : {0} \cup Marks, size : Nat, rec : Nat, auto : BOOLEAN]

NoRow == [gen |-> 0, st |-> "none", trig |-> 0, high |-> 0, fired |-> 0, size |-> 0,
          rec |-> 0, auto |-> FALSE]
Idle  == [step |-> "idle", kind |-> "", snap |-> 0, mark |-> 0, read |-> NoRow,
          qty |-> 0, side |-> "", reduce |-> FALSE, fill |-> 0, ok |-> FALSE]

TypeOK ==
    /\ crew \in Crews
    /\ mark \in Marks
    /\ row \in Rows
    /\ inflight \in BOOLEAN
    /\ lock \in Jobs \cup {Nobody, Bot}
    /\ short \in Int
    /\ bot \in [venue : {0, BotSize}, book : {0, BotSize}]
    /\ \A j \in Jobs :
        /\ job[j].step \in {"idle", "positions", "listed", "marking", "wait", "sent", "arming", "drift"}
        /\ job[j].kind \in {"", "tick", "fire", "unwind", "mint", "scale", "close", "arm", "auto"}
        /\ job[j].side \in {"", "sell", "buy"}
        /\ job[j].read \in Rows
        /\ job[j].fill <= job[j].qty
    /\ spent \in [trouble : 0..crew.trouble, request : 0..crew.request, bot : 0..crew.bot]
    /\ current \subseteq Jobs
    /\ best \in {0} \cup Marks
    /\ ways \subseteq Ways

\* The operator armed the market at 2 with the mark at 3, or minted a plain short that the
\* rebalancer keeps.
Init ==
    /\ crew \in Crews
    /\ mark = 3
    /\ IF crew.armed
       THEN row = [NoRow EXCEPT !.gen = 1, !.st = "armed", !.trig = 2, !.high = 3] /\ short = 0 /\ best = 2
       ELSE row = [NoRow EXCEPT !.gen = 1, !.st = "open", !.size = 2, !.auto = TRUE] /\ short = 2 /\ best = 0
    /\ inflight = FALSE
    /\ lock = Nobody
    /\ bot = [venue |-> 0, book |-> 0]
    /\ job = [j \in Jobs |-> Idle]
    /\ spent = [trouble |-> 0, request |-> 0, bot |-> 0]
    /\ current = {}
    /\ ways = {}

----------------------------------------------------------------------------
(* Rows and readings *)

Live(r)    == r.st \in {"armed", "open"}
InCycle(r) == Live(r) /\ r.trig # 0
Held(r)    == r.rec >= MaxRecoveries
Net        == short - bot.venue      \* the venue's one position, short positive

Trouble    == spent.trouble < crew.trouble /\ spent' = [spent EXCEPT !.trouble = @ + 1]
NoTrouble  == UNCHANGED spent
Request    == spent.request < crew.request /\ spent' = [spent EXCEPT !.request = @ + 1]

Becomes(j, r) == job' = [job EXCEPT ![j] = r]
Ends(j)       == Becomes(j, Idle)

\* Mutant: the sign of the other direction.
RatchetSwapped(r, m) ==
    LET high == Larger(r.high, m) IN [trig |-> Larger(r.trig, high + Trail), high |-> high]

\* ratchetTrigger: the trigger follows the best mark and never moves back
Ratchet(r, m) ==
    LET high == Larger(r.high, m)
    IN  [trig |-> Larger(r.trig, high - Trail), high |-> high]

Breached(m, trig)    == m < trig
Recovered(m, r)      == m > IF r.fired # 0 THEN r.fired ELSE r.trig

\* The write of a tick: computed from the row as it was listed, put over the row as it is.
Patched(r, m) ==
    LET new == Ratchet(r, m)
    IN  IF row.gen # r.gen \/ (new.trig = r.trig /\ new.high = r.high) THEN row
        ELSE [row EXCEPT !.trig = new.trig, !.high = new.high,
                         !.rec = IF new.trig # r.trig THEN 0 ELSE @]

Opened(r, size, fired) == [r EXCEPT !.st = "open", !.size = size, !.fired = fired]

\* Mutant: an unexplained short does not block.
AssessLoose(held, plan) == IF held > 0 /\ held = plan THEN "adopt" ELSE "mint"

\* assessArmedMint: what a breach does, from the short the synthetic seems to hold
Assess(held, plan) ==
    IF held > 0 /\ held = plan THEN "adopt" ELSE IF held # 0 THEN "blocked" ELSE "mint"

Order(kind, side, qty, reduce, r) ==
    [Idle EXCEPT !.step = "wait", !.kind = kind, !.side = side, !.qty = qty, !.reduce = reduce, !.read = r]
Sell(kind, qty, r)        == Order(kind, "sell", qty, FALSE, r)
Buy(kind, qty, reduce, r) == Order(kind, "buy", qty, reduce, r)

----------------------------------------------------------------------------
(* The guard *)

\* A pass reads the positions of the connection. One on the instrument carries its mark.
ReadPositions(t) ==
    /\ t \in crew.jobs /\ job[t].step = "idle"
    /\ Becomes(t, [Idle EXCEPT !.step = "positions", !.kind = "tick", !.snap = Net,
                               !.mark = IF Net # 0 THEN mark ELSE 0])
    /\ current' = current \cup {t}
    /\ UNCHANGED <<market, row, inflight, lock, short, spent, best, ways>>

\* After the trails and the hedges it lists the rows; rows before this one may take their time.
ListRows(t) ==
    /\ t \in Ticks /\ job[t].step = "positions"
    /\ IF InCycle(row) THEN Becomes(t, [job[t] EXCEPT !.step = "listed", !.read = row]) ELSE Ends(t)
    /\ UNCHANGED <<market, row, inflight, lock, short, spent, hist>>

\* What a pass compares is not of one moment: something changed since it read the positions,
\* or a bot's fill is not in the book yet.
Aged(t) == t \notin current \/ bot.venue # bot.book

\* The row is armed: ratchet, and on a breach adopt, refuse or fire.
TickArmed(t, m) ==
    LET r     == job[t].read
        now   == Patched(r, m)
        trig  == Ratchet(r, m).trig
        acts  == Breached(m, trig) /\ now.gen = r.gen /\ now.st = "armed"
        held  == job[t].snap + bot.book
        does  == IF acts THEN Assess(held, now.trig) ELSE "nothing"
        lapse == Way("overwritten", now # row /\ row # r)
        old   == Way("aged", Aged(t))
    IN  /\ r.st = "armed"
        /\ best' = IF now # row /\ row = r THEN Larger(best, now.trig) ELSE best
        /\ \/ /\ does \in {"nothing", "blocked"}
              /\ row' = now
              /\ Ends(t)
              /\ ways' = ways \cup lapse
              /\ NoTrouble /\ UNCHANGED inflight
           \/ /\ does = "adopt"
              /\ row' = Opened(now, held, now.trig)
              /\ Ends(t)
              /\ ways' = (IF held = short THEN ways \ {"unknown", "crash"} ELSE ways) \cup lapse \cup old
              /\ NoTrouble /\ UNCHANGED inflight
           \/ /\ does = "mint"                       \* the account is halted
              /\ row' = now
              /\ Ends(t)
              /\ ways' = ways \cup lapse
              /\ Trouble /\ UNCHANGED inflight
           \/ /\ does = "mint"
              /\ row' = now
              /\ Becomes(t, Sell("fire", now.trig, now))
              /\ inflight' = TRUE
              /\ ways' = ways \cup lapse \cup old \cup Way("overlap", inflight)
              /\ NoTrouble
        /\ current' = IF row' # row THEN {} ELSE current \ {t}
        /\ UNCHANGED <<market, lock, short>>

\* The row is open: past the recovery level buy the short back, if it is what the row says.
TickOpen(t, m) ==
    LET r     == job[t].read
        due   == ~Held(r) /\ Recovered(m, r)
        same  == row.gen = r.gen /\ row.st = "open" /\ row.trig # 0
        agree == job[t].snap + bot.book = row.size
    IN  /\ r.st = "open"
        /\ \/ /\ Ends(t)                             \* held, no recovery, or not yet a new hour
              /\ UNCHANGED <<inflight, ways>>
           \/ /\ due /\ ~(same /\ agree)             \* the unwind pauses
              /\ Ends(t)
              /\ inflight' = FALSE                   \* also if it stood for another pass
              /\ ways' = ways \cup Way("overlap", inflight)
           \/ /\ due /\ same /\ agree
              /\ Becomes(t, [Buy("unwind", row.size, job[t].snap >= row.size, row) EXCEPT !.mark = m])
              /\ inflight' = TRUE
              /\ ways' = ways \cup Way("aged", Aged(t)) \cup Way("overlap", inflight)
        /\ current' = current \ {t}
        /\ UNCHANGED <<market, row, lock, short, spent, best>>

Decide(t, m) == TickArmed(t, m) \/ TickOpen(t, m)

\* The row's turn. With a position on the instrument there is nothing to wait for.
Turn(t) ==
    /\ t \in Ticks /\ job[t].step = "listed"
    /\ \/ /\ inflight
          /\ Ends(t)
          /\ UNCHANGED <<market, row, inflight, lock, short, spent, hist>>
       \/ /\ ~inflight /\ job[t].mark # 0
          /\ Decide(t, job[t].mark)
       \/ /\ ~inflight /\ job[t].mark = 0
          /\ Becomes(t, [job[t] EXCEPT !.step = "marking"])
          /\ UNCHANGED <<market, row, inflight, lock, short, spent, hist>>

\* The ticker answers, or fails on every connection.
MarkRead(t) ==
    /\ t \in Ticks /\ job[t].step = "marking"
    /\ \/ Decide(t, mark)
       \/ /\ Trouble
          /\ Ends(t)
          /\ UNCHANGED <<market, row, inflight, lock, short, hist>>

----------------------------------------------------------------------------
(* Requests. Each reads the row and acts on what it read. *)

Ready(c) == c \in crew.jobs /\ job[c].step = "idle" /\ Request

StartClose(c) ==
    /\ Ready(c) /\ row.st = "open"
    /\ Becomes(c, Buy("close", row.size, TRUE, row))
    /\ UNCHANGED <<market, row, inflight, lock, short, hist>>

\* planMutation
Scale(c, n) ==
    /\ n # row.size
    /\ Becomes(c, IF n > row.size THEN Sell("scale", n - row.size, row)
                                  ELSE Buy("scale", row.size - n, TRUE, row))

StartScale(c, n) ==
    /\ Ready(c) /\ row.st = "open"
    /\ Scale(c, n)
    /\ UNCHANGED <<market, row, inflight, lock, short, hist>>

StartMint(c, n) ==
    /\ Ready(c) /\ ~Live(row)
    /\ Becomes(c, Sell("mint", n, row))
    /\ UNCHANGED <<market, row, inflight, lock, short, hist>>

StartArm(c, p) ==
    /\ Ready(c) /\ row.st # "armed" /\ ~InCycle(row)
    /\ Becomes(c, [Idle EXCEPT !.step = "arming", !.kind = "arm", !.qty = p, !.read = row])
    /\ UNCHANGED <<market, row, inflight, lock, short, hist>>

\* The mark is there: attach to the open row that was read, or insert an armed one.
FinishArm(c) ==
    LET p == job[c].qty r == job[c].read
    IN  /\ c \in Callers /\ job[c].step = "arming"
        /\ \/ /\ r.st = "open"
              /\ row' = IF row.gen # r.gen THEN row
                        ELSE [row EXCEPT !.trig = p, !.high = mark, !.fired = p, !.rec = 0, !.auto = FALSE]
              /\ ways' = ways \cup Way("overtaken", row # r)
           \/ /\ r.st # "open"
              /\ row' = [NoRow EXCEPT !.gen = row.gen + 1, !.st = "armed", !.trig = p, !.high = mark]
              /\ ways' = ways \cup Way("second", Live(row))
        /\ best' = p
        /\ current' = {}
        /\ Ends(c)
        /\ UNCHANGED <<market, inflight, lock, short, spent>>

\* updateArm, with a new trigger
Update(c, p) ==
    /\ Ready(c) /\ row.st = "armed" /\ p # row.trig
    /\ row' = [row EXCEPT !.trig = p, !.high = 0, !.rec = 0]
    /\ best' = p
    /\ current' = {}
    /\ UNCHANGED <<market, inflight, lock, short, job, ways>>

\* An armed row retires, an open one becomes a plain short.
Disarm(c) ==
    /\ Ready(c) /\ InCycle(row)
    /\ row' = IF row.st = "armed" THEN [row EXCEPT !.st = "closed"]
              ELSE [row EXCEPT !.trig = 0, !.high = 0, !.fired = 0]
    /\ current' = {}
    /\ UNCHANGED <<market, inflight, lock, short, job, best, ways>>

SetAuto(c) ==
    /\ Ready(c) /\ row.st = "open" /\ row.trig = 0 /\ ~row.auto
    /\ row' = [row EXCEPT !.auto = TRUE]
    /\ current' = {}
    /\ UNCHANGED <<market, inflight, lock, short, job, best, ways>>

\* The rebalancer lists the rows it keeps.
StartRebalance(c) ==
    /\ Ready(c) /\ row.st = "open" /\ row.auto
    /\ Becomes(c, [Idle EXCEPT !.step = "drift", !.kind = "auto", !.read = row])
    /\ UNCHANGED <<market, row, inflight, lock, short, hist>>

\* It has the positions: pause if they are not what it listed, else scale the row to its target.
Rebalance(c, n) ==
    /\ c \in Callers /\ job[c].step = "drift"
    /\ \/ /\ Net = job[c].read.size /\ n # job[c].read.size /\ row.st = "open"
          /\ IF n = row.size THEN Ends(c) ELSE Scale(c, n)
       \/ /\ Net # job[c].read.size \/ n = job[c].read.size \/ row.st # "open"
          /\ Ends(c)
    /\ UNCHANGED <<market, row, inflight, lock, short, spent, hist>>

----------------------------------------------------------------------------
(* placeAndSettle, and what the caller books *)

\* A reduce-only order trades no more than the venue's position.
Cap(j) == IF job[j].reduce THEN Smaller(job[j].qty, Larger(0, Net)) ELSE job[j].qty

Outcomes(j) ==
    {<<Cap(j), Cap(j) > 0, FALSE>>} \cup
    (IF Cap(j) > 1 THEN {<<1, TRUE, TRUE>>} ELSE {}) \cup
    {<<0, FALSE, TRUE>>, <<Cap(j), FALSE, TRUE>>}

\* The order has the lock: it fills, in whole or in part, or fails; or it fills and is
\* reported as failed.
Send(j) ==
    /\ job[j].step = "wait" /\ lock = Nobody
    /\ \E o \in Outcomes(j) :
        /\ IF o[3] THEN Trouble ELSE NoTrouble
        /\ Becomes(j, [job[j] EXCEPT !.step = "sent", !.fill = o[1], !.ok = o[2]])
        /\ short' = IF job[j].side = "sell" THEN short + o[1] ELSE short - o[1]
        /\ current' = IF o[1] # 0 THEN {} ELSE current
    /\ lock' = j
    /\ ways' = ways \cup Way("overtaken", row # job[j].read)
    /\ UNCHANGED <<market, row, inflight, best>>

\* Mutant: a fire books what it asked for.
FiredPlanned(j) == Opened(row, job[j].qty, job[j].read.trig)

\* The row as the caller leaves it, from the row it read and the order it placed.
Fired(j)   == Opened(row, job[j].fill, job[j].read.trig)
Rearmed(j) ==
    LET r == job[j].read
    IN  [row EXCEPT !.st = "armed", !.size = 0, !.auto = FALSE, !.high = job[j].mark, !.fired = 0,
                    !.trig = IF r.fired # 0 THEN r.fired ELSE r.trig, !.rec = r.rec + 1]
Scaled(j)  ==
    LET r == job[j].read
    IN  [row EXCEPT !.size = IF job[j].side = "sell" THEN r.size + job[j].qty ELSE r.size - job[j].qty]
Minted(j)  == [NoRow EXCEPT !.gen = row.gen + 1, !.st = "open", !.size = job[j].qty]
Closed(j)  == [row EXCEPT !.st = "closed", !.size = 0]

Booked(j) ==
    IF job[j].kind = "mint" THEN Minted(j)
    ELSE IF row.gen # job[j].read.gen THEN row      \* an older row is booked
    ELSE CASE job[j].kind = "fire"   -> Fired(j)
           [] job[j].kind = "unwind" -> Rearmed(j)
           [] job[j].kind = "scale"  -> Scaled(j)
           [] job[j].kind = "close"  -> Closed(j)

\* What is wrong with what it books.
Flaws(j) ==
    Way("part", job[j].kind # "fire" /\ job[j].fill # job[j].qty) \cup
    Way("overtaken", row # job[j].read) \cup
    Way("second", job[j].kind = "mint" /\ Live(row))

\* Mutant: a failed order leaves its row in flight.
AnswerSticky(j) ==
    /\ job[j].step = "sent"
    /\ IF job[j].ok
       THEN row' = Booked(j) /\ ways' = ways \cup Flaws(j)
       ELSE UNCHANGED row /\ ways' = ways \cup Way("unknown", job[j].fill # 0)
    /\ current' = IF row' # row THEN {} ELSE current
    /\ lock' = Nobody
    /\ inflight' = (inflight /\ ~job[j].ok)
    /\ Ends(j)
    /\ UNCHANGED <<market, short, spent, best>>

Answer(j) ==
    /\ job[j].step = "sent"
    /\ IF job[j].ok
       THEN row' = Booked(j) /\ ways' = ways \cup Flaws(j)
       ELSE UNCHANGED row /\ ways' = ways \cup Way("unknown", job[j].fill # 0)
    /\ current' = IF row' # row THEN {} ELSE current
    /\ lock' = Nobody
    /\ inflight' = (inflight /\ job[j].kind \notin {"fire", "unwind"})
    /\ Ends(j)
    /\ UNCHANGED <<market, short, spent, best>>

----------------------------------------------------------------------------
(* Bots, the market and the process *)

\* A bot opens or closes its trade, under the order lock.
BotTrades ==
    /\ lock = Nobody /\ spent.bot < crew.bot
    /\ spent' = [spent EXCEPT !.bot = @ + 1]
    /\ bot' = [bot EXCEPT !.venue = BotSize - @]
    /\ lock' = Bot
    /\ current' = {}
    /\ UNCHANGED <<crew, mark, row, inflight, short, job, best, ways>>

BotBooks ==
    /\ lock = Bot
    /\ bot' = [bot EXCEPT !.book = bot.venue]
    /\ lock' = Nobody
    /\ current' = {}
    /\ UNCHANGED <<crew, mark, row, inflight, short, job, spent, best, ways>>

MarkMoves ==
    /\ mark' \in Marks \ {mark}
    /\ UNCHANGED <<crew, bot, row, inflight, lock, short, job, spent, hist>>

\* Rows are all that is kept.
Crash ==
    /\ lock # Bot
    /\ \E j \in Jobs : job[j].step # "idle"
    /\ Trouble
    /\ job' = [j \in Jobs |-> Idle]
    /\ inflight' = FALSE
    /\ lock' = Nobody
    /\ current' = {}
    /\ ways' = ways \cup Way("crash", \E j \in Jobs : job[j].step = "sent" /\ job[j].fill # 0)
    /\ UNCHANGED <<market, row, short, best>>

Tick(t) == ReadPositions(t) \/ ListRows(t) \/ Turn(t) \/ MarkRead(t)

RequestOf(c) ==
    \/ StartClose(c) \/ Disarm(c) \/ SetAuto(c) \/ StartRebalance(c)
    \/ \E n \in Targets : StartScale(c, n) \/ StartMint(c, n) \/ StartArm(c, n) \/ Update(c, n)

Next ==
    \/ \E t \in Ticks : Tick(t)
    \/ \E c \in Callers : RequestOf(c) \/ FinishArm(c) \/ \E n \in Targets : Rebalance(c, n)
    \/ \E j \in Jobs : Send(j) \/ Answer(j)
    \/ BotTrades \/ BotBooks \/ MarkMoves \/ Crash

Spec == Init /\ [][Next]_vars

\* The timer keeps ticking; what was started ends.
FairSpec ==
    /\ Spec
    /\ \A t \in Ticks : WF_vars(Tick(t))
    /\ WF_vars(\E j \in Jobs : Send(j) \/ Answer(j))
    /\ WF_vars(BotBooks)

----------------------------------------------------------------------------
(* Properties *)

Idling == \A j \in Jobs : job[j].step \notin {"wait", "sent"}

\* With no order out the row says what the synthetic holds at the venue, whatever trades next
\* to it on the same instrument and however fires, unwinds and requests interleave; a floor the
\* operator set only rises until the operator sets another, and a short that was bought back as
\* often as its level allows stays, through fires, recoveries and restarts.
GuardKeepsItsWord ==
    /\ Idling /\ ways = {} => short = IF row.st = "open" THEN row.size ELSE 0
    /\ row.st = "armed" /\ ways \subseteq {"unknown", "crash"} => row.trig >= best
    /\ ways \subseteq {"unknown", "crash"} => row.rec <= MaxRecoveries

Sells(t) == job[t].step = "wait" /\ job[t].kind = "fire" /\ short' > short /\ job'[t].step = "sent"

\* A fire sells only when nothing of the synthetic is out: after a crash or a fill reported as
\* failed the short is found and adopted, or blocks the fire, and is never sold a second time.
NeverSoldTwice ==
    [][\A t \in Ticks : Sells(t) =>
        short = 0 \/ ways' \cap {"overlap", "aged", "overtaken"} # {}]_vars

\* A breach that lasts is answered: the row opens, unless the short is out already.
Fires ==
    (row.st = "armed" /\ Breached(mark, row.trig) /\ crew.jobs \cap Ticks # {}) ~>
        (row.st # "armed" \/ ~Breached(mark, row.trig) \/ ways # {} \/ short # 0)

\* Runs stop at the first way that nothing heals.
Unspoilt == ways \subseteq {"unknown", "crash"}
=============================================================================
