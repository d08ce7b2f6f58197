----------------------------- MODULE Reconciler -----------------------------
(***************************************************************************)
(* The reconciler of one account and symbol at a venue that nets: it       *)
(* settles the book, reads it, reads the venue's position, lists the       *)
(* working orders, and then either waits, corrects the venue with a market *)
(* order or books what is gone as a close. It holds the order lock, which  *)
(* keeps entries and closes of the bots out; the venue's fills and the     *)
(* user's own trades on the platform come between its reads. PANIC, which  *)
(* takes no lock, is PanicHalt's subject.                                  *)
(*                                                                         *)
(* Source: node-backend/src/services/reconciler.ts, adoptVenueClose in     *)
(* venue-exit-sweep.ts, planExitAttribution in exit-attribution.ts, and    *)
(* the pre-steps in websocket/signal-client.ts. A lineage enters once, in  *)
(* the order of its number. Unattributed executions, orders given up as    *)
(* lost, hedged accounts and venues that are only observed are left out.   *)
(***************************************************************************)
EXTENDS Integers, FiniteSets, Functions, ContractCount

CONSTANTS
    Lineages,     \* 1..n, newer ones have larger numbers
    Size,         \* contracts of each lineage
    Dirs,         \* the directions to explore: functions from Lineages to {1, -1}
    UserSizes,    \* what the user may hold on the platform before the executor starts
    MaxDelta,     \* RECONCILE_MAX_DELTA
    MaxFaults,    \* bound: failed lookups and placements, orders the venue kills, restarts
    MaxTrades,    \* bound: trades of the user on the platform
    MaxCorrections \* bound: corrections working at once

ASSUME ReconcilerAssumption ==
    /\ Lineages \subseteq Nat \ {0}
    /\ IsFiniteSet(Lineages)
    /\ Size \in [Lineages -> Nat \ {0}]
    /\ Dirs \subseteq [Lineages -> {1, -1}]
    /\ UserSizes \subseteq Int
    /\ {MaxDelta, MaxFaults, MaxTrades, MaxCorrections} \subseteq Nat

VARIABLES
    dir,      \* each lineage's direction
    lists,    \* the adapter has listWorkingOrders (tradestation-couchdb; the others have none)
    exec,     \* signal_executions
    entry,    \* each lineage's entry order at the venue
    exit,     \* its last close order: state and quantity
    stop,     \* its protective stop
    unk,      \* unresolved order_settlements
    pos,      \* the venue's net position
    marker,   \* manual_positions has a row for the pair
    first,    \* the pair's venue has not been through a pass since the start
    cool,     \* within RECONCILE_COOLDOWN_MS of the last attempt
    grace,    \* within RECONCILE_EXIT_GRACE_MS of the last exit settlement row
    rec,      \* the tick: its step and what it read
    corr,     \* correction orders: state, signed quantity, the net they were sized on
    faults, trades,
    held,     \* history: what each lineage really holds
    boot,     \* history: what the user held at the start
    ways      \* history: the ways in which the reads did not fit together, see Ways

db    == <<exec, unk, marker, grace>>
venue == <<entry, exit, stop, pos, corr, held>>
mem   == <<first, cool, rec>>
world == <<trades, boot>>
vars  == <<dir, lists, db, venue, mem, world, faults, ways>>

\* inflight: it acted while the outcome of an order or of a correction was open, or one came
\* between its reads; moved: the position changed after it was read; sibling: a close was sized
\* or booked on a lineage that does not hold what its row says; cleared: the user's marker was
\* cleared because the venue's net happened to match; hidden: the first pass saw no overhang
\* for that reason.
Ways == {"inflight", "moved", "sibling", "cleared", "hidden"}
Way(w, happened) == IF happened THEN {w} ELSE {}

Signed(s, q) == dir[s] * q
Live(ex, s) == IF ex[s].st \in {"open", "closing"} /\ ex[s].opened > ex[s].closed
                 THEN ex[s].opened - ex[s].closed ELSE 0
Rem(s)   == Live(exec, s)

\* The position the book expects.
Expected == Sum([s \in Lineages |-> Signed(s, Rem(s))])
Abs(n)   == IF n < 0 THEN -n ELSE n
Sign(n)  == IF n < 0 THEN -1 ELSE IF n > 0 THEN 1 ELSE 0
Lesser(a, b) == IF a < b THEN a ELSE b

OrderState == {"none", "working", "filled", "dead"}
NoOrder    == [st |-> "none", q |-> 0]
NoCorr     == [st |-> "none", q |-> 0, base |-> 0]
Idle       == [pc |-> "idle", exp |-> 0, brk |-> 0, open |-> FALSE, busy |-> FALSE, recent |-> FALSE]

At(pc)   == rec.pc = pc
GoTo(pc) == rec' = [rec EXCEPT !.pc = pc]
PreTicks == <<"idle", "sweep", "resolve", "retry", "book">>

TypeOK ==
    /\ dir \in Dirs
    /\ lists \in BOOLEAN
    /\ exec \in [Lineages -> [st : {"none", "open", "closing", "closed", "error"},
                              opened : Nat, closed : Nat]]
    /\ \A s \in Lineages : exec[s].opened \in {0, Size[s]} /\ exec[s].closed <= exec[s].opened
    /\ entry \in [Lineages -> OrderState]
    /\ exit \in [Lineages -> [st : OrderState, q : Nat]]
    /\ \A s \in Lineages : exit[s].q <= Size[s]
    /\ stop \in [Lineages -> {"none", "resting", "filled"}]
    /\ unk \subseteq {"entry", "exit"} \X Lineages
    /\ pos \in Int
    /\ marker \in BOOLEAN /\ first \in BOOLEAN /\ cool \in BOOLEAN /\ grace \in BOOLEAN
    /\ rec \in [pc : Range(PreTicks) \cup {"pos", "listed"}, exp : Int, brk : Int,
                open : BOOLEAN, busy : BOOLEAN, recent : BOOLEAN]
    /\ corr \in [1..MaxCorrections -> [st : OrderState, q : Int, base : Int]]
    /\ faults \in 0..MaxFaults /\ trades \in 0..MaxTrades
    /\ held \in [Lineages -> Int]
    /\ boot \in UserSizes
    /\ ways \subseteq Ways

Init ==
    /\ dir \in Dirs
    /\ lists \in BOOLEAN
    /\ exec = [s \in Lineages |-> [st |-> "none", opened |-> 0, closed |-> 0]]
    /\ entry = [s \in Lineages |-> "none"]
    /\ exit = [s \in Lineages |-> NoOrder]
    /\ stop = [s \in Lineages |-> "none"]
    /\ unk = {}
    /\ boot \in UserSizes
    /\ pos = boot
    /\ marker = FALSE /\ first = TRUE /\ cool = FALSE /\ grace = FALSE
    /\ rec = Idle
    /\ corr = [i \in 1..MaxCorrections |-> NoCorr]
    /\ faults = 0 /\ trades = 0
    /\ held = [s \in Lineages |-> 0]
    /\ ways = {}

Fault    == faults < MaxFaults /\ faults' = faults + 1
NoFault  == UNCHANGED faults
LockFree == rec.pc = "idle"

----------------------------------------------------------------------------
(* Booking: attributeVenueExit, newest first, over every open execution *)

Above(s)    == Sum([t \in Lineages |-> IF t > s THEN Rem(t) ELSE 0])

\* Mutant: an entry takes more than it has open.
AllocBare(q) == [s \in Lineages |-> IF Rem(s) > 0 /\ q > Above(s) THEN q - Above(s) ELSE 0]

Alloc(q)    == [s \in Lineages |-> IF q > Above(s) THEN Lesser(Rem(s), q - Above(s)) ELSE 0]

Booked(e, q) == LET closed == e.closed + q IN
                [e EXCEPT !.closed = closed, !.st = IF closed = e.opened THEN "closed" ELSE "open"]

\* The executions after a close of q contracts is booked.
BookLifo(q) == LET a == Alloc(q) IN
               [s \in Lineages |-> IF a[s] > 0 THEN Booked(exec[s], a[s]) ELSE exec[s]]

\* A booking that leaves a row saying something else than its lineage holds.
Misbooked(ex) == \E s \in Lineages : ex[s] # exec[s] /\ Live(ex, s) # held[s]

----------------------------------------------------------------------------
(* Entries and closes of the bots, under the order lock *)

\* An entry: the handler waits for the fill, and leaves an order that does not settle to the
\* resolver; its row is open with nothing in it until then.
Enter(s) ==
    /\ LockFree
    /\ exec[s].st = "none"
    /\ \A t \in Lineages : t < s => exec[t].st # "none"
    /\ \/ /\ exec' = [exec EXCEPT ![s] = [st |-> "open", opened |-> Size[s], closed |-> 0]]
          /\ entry' = [entry EXCEPT ![s] = "filled"]
          /\ held' = [held EXCEPT ![s] = Size[s]]
          /\ pos' = pos + Signed(s, Size[s])
          /\ stop' = [stop EXCEPT ![s] = "resting"]
          /\ UNCHANGED unk
       \/ /\ exec' = [exec EXCEPT ![s] = [st |-> "open", opened |-> 0, closed |-> 0]]
          /\ entry' = [entry EXCEPT ![s] = "working"]
          /\ unk' = unk \cup {<<"entry", s>>}
          /\ UNCHANGED <<held, pos, stop>>
       \/ /\ exec' = [exec EXCEPT ![s] = [st |-> "error", opened |-> 0, closed |-> 0]]
          /\ entry' = [entry EXCEPT ![s] = "dead"]
          /\ UNCHANGED <<held, pos, stop, unk>>
    /\ UNCHANGED <<dir, lists, marker, grace, exit, corr, mem, world, faults, ways>>

\* Whether a close may trust its lineage's own size: the book explains the venue, or the
\* venue holds that much on the lineage's side. (What it does with a book that drifted is
\* CloseFlow's subject.)
Trusts(s) == Expected = pos \/ dir[s] * pos >= Rem(s)

\* A close order of q contracts of the lineage: filled and booked, or unconfirmed.
CloseOrder(s, q) ==
    \/ /\ exec' = [exec EXCEPT ![s].st = "closed", ![s].closed = exec[s].opened]
       /\ exit' = [exit EXCEPT ![s] = [st |-> "filled", q |-> q]]
       /\ held' = [held EXCEPT ![s] = @ - q]
       /\ pos' = pos - Signed(s, q)
       /\ grace' = TRUE
       /\ UNCHANGED unk
    \/ /\ exec' = [exec EXCEPT ![s].st = "closing"]
       /\ exit' = [exit EXCEPT ![s] = [st |-> "working", q |-> q]]
       /\ unk' = unk \cup {<<"exit", s>>}
       /\ grace' = TRUE
       /\ UNCHANGED <<held, pos>>

\* Nothing live at the venue: the lineage is closed without an order.
CloseFlat(s) ==
    /\ exec' = [exec EXCEPT ![s].st = "closed", ![s].closed = exec[s].opened]
    /\ UNCHANGED <<exit, held, pos, unk, grace>>

\* A close of a lineage cancels its stop. Its races with the stop are CloseFlow's and
\* ExitStop's subject.
Close(s) ==
    LET q == IF Trusts(s) THEN Rem(s) ELSE 0 IN
    /\ LockFree
    /\ exec[s].st = "open" /\ Rem(s) > 0
    /\ <<"entry", s>> \notin unk
    /\ stop[s] # "filled"
    /\ q > 0 \/ pos = 0
    /\ stop' = [stop EXCEPT ![s] = "none"]
    /\ IF q > 0 THEN CloseOrder(s, q) ELSE CloseFlat(s)
    /\ ways' = ways \cup Way("sibling", q # Rem(s) \/ q # held[s])
    /\ UNCHANGED <<dir, lists, marker, entry, corr, mem, world, faults>>

----------------------------------------------------------------------------
(* The venue and the user: no lock *)

EntrySettles(s) ==
    /\ entry[s] = "working"
    /\ \/ /\ entry' = [entry EXCEPT ![s] = "filled"]
          /\ held' = [held EXCEPT ![s] = @ + Size[s]]
          /\ pos' = pos + Signed(s, Size[s])
       \/ /\ entry' = [entry EXCEPT ![s] = "dead"]
          /\ UNCHANGED <<held, pos>>
    /\ UNCHANGED <<dir, lists, db, exit, stop, corr, mem, world, faults, ways>>

ExitSettles(s) ==
    /\ exit[s].st = "working"
    /\ \/ /\ exit' = [exit EXCEPT ![s].st = "filled"]
          /\ held' = [held EXCEPT ![s] = @ - exit[s].q]
          /\ pos' = pos - Signed(s, exit[s].q)
          /\ NoFault
       \/ /\ exit' = [exit EXCEPT ![s].st = "dead"]
          /\ UNCHANGED <<held, pos>>
          /\ Fault
    /\ UNCHANGED <<dir, lists, db, entry, stop, corr, mem, world, ways>>

StopFires(s) ==
    /\ stop[s] = "resting"
    /\ stop' = [stop EXCEPT ![s] = "filled"]
    /\ held' = [held EXCEPT ![s] = @ - Size[s]]
    /\ pos' = pos - Signed(s, Size[s])
    /\ UNCHANGED <<dir, lists, db, entry, exit, corr, mem, world, faults, ways>>

CorrectionSettles(i) ==
    /\ corr[i].st = "working"
    /\ \/ /\ corr' = [corr EXCEPT ![i].st = "filled"]
          /\ pos' = pos + corr[i].q
          /\ ways' = ways \cup Way("moved", pos # corr[i].base)
          /\ NoFault
       \/ /\ corr' = [corr EXCEPT ![i].st = "dead"]
          /\ UNCHANGED <<pos, ways>>
          /\ Fault
    /\ UNCHANGED <<dir, lists, db, entry, exit, stop, held, mem, world>>

\* The user trades on the platform, beside the executor.
UserTrades ==
    /\ trades < MaxTrades
    /\ trades' = trades + 1
    /\ \E q \in {1, -1} : pos' = pos + q
    /\ UNCHANGED <<dir, lists, db, entry, exit, stop, corr, held, mem, boot, faults, ways>>

----------------------------------------------------------------------------
(* The tick: pre-steps *)

\* A retry sells no more than the venue holds, and nothing when it holds the other side.
RetryQty(s) == IF dir[s] * pos > 0 THEN Lesser(Rem(s), Abs(pos)) ELSE 0

\* What each of the pre-steps finds to settle for a lineage.
Swept(s)         == stop[s] = "filled"
EntryResolved(s) == <<"entry", s>> \in unk /\ entry[s] \in {"filled", "dead"}
ExitResolved(s)  == <<"exit", s>> \in unk /\ exit[s].st \in {"filled", "dead"}
RetryDue(s)      == exec[s].st = "closing" /\ <<"exit", s>> \notin unk /\ Rem(s) > 0
                    /\ (RetryQty(s) > 0 \/ pos = 0)

Due(pc) == \E s \in Lineages : CASE pc = "sweep"   -> Swept(s)
                                [] pc = "resolve" -> EntryResolved(s) \/ ExitResolved(s)
                                [] pc = "retry"   -> RetryDue(s)
                                [] OTHER          -> FALSE

\* A tick takes the lock and goes from one pre-step to the next. It leaves behind only
\* what it could not look up.
GoOn(n) == \E i \in 1..Lesser(n, 4) : /\ At(PreTicks[i])
                          /\ IF \E k \in i..(n - 1) : Due(PreTicks[k]) THEN Fault ELSE NoFault

PreTick(n) == GoOn(n) /\ GoTo(PreTicks[n]) /\ UNCHANGED <<first, cool>>

\* sweepRestingExits: a filled stop is booked on its own lineage.

Sweep(s) ==
    /\ PreTick(2)
    /\ Swept(s)
    /\ stop' = [stop EXCEPT ![s] = "none"]
    /\ IF Rem(s) > 0
         THEN exec' = [exec EXCEPT ![s] = Booked(@, Rem(s))] /\ grace' = TRUE
         ELSE UNCHANGED <<exec, grace>>
    /\ UNCHANGED <<dir, lists, unk, marker, entry, exit, pos, corr, held, world, ways>>

\* resolveUnknownOrders, an entry: what it opened is what filled.
ResolveEntry(s) ==
    /\ PreTick(3)
    /\ EntryResolved(s)
    /\ unk' = unk \ {<<"entry", s>>}
    /\ exec' = [exec EXCEPT ![s].st = IF entry[s] = "filled" THEN "open" ELSE "error",
                            ![s].opened = IF entry[s] = "filled" THEN Size[s] ELSE 0]
    /\ UNCHANGED <<dir, lists, marker, grace, venue, world, ways>>

\* A close: booked newest first, whichever lineage it was for.
ResolveExit(s) ==
    /\ PreTick(3)
    /\ ExitResolved(s)
    /\ unk' = unk \ {<<"exit", s>>}
    /\ exec' = IF exit[s].st = "filled" THEN BookLifo(exit[s].q) ELSE exec
    /\ ways' = ways \cup Way("sibling", \E t \in Lineages \ {s} : exec'[t] # exec[t])
    /\ UNCHANGED <<dir, lists, marker, grace, venue, world>>

\* retryPendingCloses
Retry(s) ==
    /\ PreTick(4)
    /\ RetryDue(s)
    /\ IF pos = 0 THEN CloseFlat(s) ELSE CloseOrder(s, RetryQty(s))
    /\ ways' = ways \cup Way("sibling", RetryQty(s) # Rem(s) \/ RetryQty(s) # held[s])
    /\ UNCHANGED <<dir, lists, marker, entry, stop, corr, world>>

Settleable == \E pc \in Range(PreTicks) : Due(pc)

\* The book is read. What was left unsettled is read as it stands. (rec.brk is
\* only a history value until the positions are read, rec.open always.)
ReadBook ==
    /\ GoOn(5)
    /\ rec' = [rec EXCEPT !.pc = "book", !.exp = Expected, !.brk = pos,
                        !.open = unk # {} \/ Settleable]
    /\ UNCHANGED <<dir, lists, db, venue, first, cool, world, ways>>

----------------------------------------------------------------------------
(* The tick: reads *)

Executed  == \E s \in Lineages : exec[s].st # "none"     \* the pair is one we have executed

\* Mutant: an overhang is adopted only where nothing was ever executed.
AdoptsUnexecuted == ~Executed

\* Adoption of what the user held: on the first pass, or while we never executed there. It
\* goes over the positions the broker lists, so a net of 0 marks nothing.
Adopts    == first \/ ~Executed

Working   == \/ \E s \in Lineages : entry[s] = "working" \/ exit[s].st = "working" \/ stop[s] = "resting"
             \/ \E i \in DOMAIN corr : corr[i].st = "working"

ReadPositions ==
    LET overhang == pos - rec.exp
        mark     == marker \/ (Adopts /\ pos # 0 /\ overhang # 0) IN
    /\ At("book")
    /\ \/ /\ rec' = [rec EXCEPT !.pc = IF Executed THEN "pos" ELSE "idle", !.brk = pos,
                     !.open = @ \/ pos # rec.brk \/ \E i \in DOMAIN corr : corr[i].st = "working"]
          /\ first' = FALSE
          /\ marker' = mark
          /\ ways' = ways \cup Way("hidden", boot # 0 /\ Adopts /\ ~mark)
          /\ NoFault
       \/ /\ Fault                                       \* getPositions failed
          /\ rec' = Idle
          /\ UNCHANGED <<first, marker, ways>>
    /\ UNCHANGED <<dir, lists, exec, unk, grace, venue, cool, world>>

WorkingSeen == lists /\ Working

\* The working orders; a listing that fails counts as none. The exits of the last minutes.
ReadOrders ==
    /\ At("pos")
    /\ \/ rec' = [rec EXCEPT !.pc = "listed", !.busy = WorkingSeen, !.recent = grace] /\ NoFault
       \/ rec' = [rec EXCEPT !.pc = "listed", !.busy = FALSE, !.recent = grace] /\ lists /\ Fault
    /\ UNCHANGED <<dir, lists, db, venue, first, cool, world, ways>>

----------------------------------------------------------------------------
(* The tick: the decision *)

Delta == rec.exp - rec.brk

\* Mutant: a mismatch to exactly zero is not corrected.
ReducesSharp(brk, d) == brk # 0 /\ Sign(d) = -Sign(brk) /\ Abs(d) < Abs(brk)

\* Trust direction: a correction only shrinks what the venue holds, never past zero.
Reduces(brk, d) == brk # 0 /\ Sign(d) = -Sign(brk) /\ Abs(d) <= Abs(brk)

Held == \/ marker                    \* skipped_manual
        \/ Abs(Delta) > MaxDelta     \* skipped_large
        \/ rec.recent                \* skipped_recent_exit
        \/ rec.busy                  \* skipped_working

Ends == rec' = Idle

Balanced ==
    /\ At("listed") /\ Delta = 0
    /\ marker' = FALSE
    /\ ways' = ways \cup Way("cleared", marker /\ boot # 0)
    /\ Ends
    /\ UNCHANGED <<dir, lists, exec, unk, grace, venue, first, cool, world, faults>>

Skips ==
    /\ At("listed") /\ Delta # 0
    /\ Held \/ cool
    /\ Ends
    /\ UNCHANGED <<dir, lists, db, venue, first, cool, world, faults, ways>>

\* What goes wrong when it acts on what it read.
Acted == Way("inflight", rec.open) \cup Way("moved", pos # rec.brk)

\* adoptVenueClose: our exposure that is gone is booked, never re-opened.
Adopt ==
    LET q == Lesser(Abs(Delta), Abs(rec.exp)) IN
    /\ At("listed") /\ Delta # 0
    /\ ~Held /\ ~cool
    /\ ~Reduces(rec.brk, Delta)
    /\ exec' = BookLifo(q)
    /\ grace' = TRUE
    /\ cool' = TRUE
    /\ stop' = [s \in Lineages |-> IF exec'[s].st = "closed" /\ stop[s] = "resting" THEN "none" ELSE stop[s]]
    /\ ways' = ways \cup Acted \cup Way("sibling", Misbooked(exec'))
    /\ Ends
    /\ UNCHANGED <<dir, lists, unk, marker, entry, exit, pos, corr, held, first, world, faults>>

\* A market order in the direction of the delta; it fills, is left working, or was never placed.
\* TradeStation forwards no reduce-only.
Correct ==
    /\ At("listed") /\ Delta # 0
    /\ ~Held /\ ~cool
    /\ Reduces(rec.brk, Delta)
    /\ \/ /\ cool' = TRUE
          /\ \E i \in DOMAIN corr :
              /\ corr[i].st # "working"
              /\ \/ /\ corr' = [corr EXCEPT ![i] = [st |-> "filled", q |-> Delta, base |-> rec.brk]]
                    /\ pos' = pos + Delta
                 \/ /\ corr' = [corr EXCEPT ![i] = [st |-> "working", q |-> Delta, base |-> rec.brk]]
                    /\ UNCHANGED pos
          /\ ways' = ways \cup Acted
          /\ NoFault
       \/ cool' = TRUE /\ UNCHANGED <<pos, corr, ways>> /\ Fault
       \/ UNCHANGED <<cool, pos, corr, ways>> /\ Fault       \* the market is closed
    /\ Ends
    /\ UNCHANGED <<dir, lists, db, entry, exit, stop, held, first, world>>

----------------------------------------------------------------------------
(* Time and restarts *)

CooldownLapses == cool /\ cool' = FALSE /\ UNCHANGED <<dir, lists, db, venue, first, rec, world, faults, ways>>
GraceLapses    == grace /\ grace' = FALSE
                  /\ UNCHANGED <<dir, lists, exec, unk, marker, venue, mem, world, faults, ways>>

\* The executor starts again: what it kept in memory is gone.
Restart ==
    /\ Fault
    /\ first' = TRUE /\ cool' = FALSE /\ rec' = Idle
    /\ UNCHANGED <<dir, lists, db, venue, world, ways>>

BotStep    == \E s \in Lineages : Enter(s) \/ Close(s)
VenueStep  == \/ \E s \in Lineages : EntrySettles(s) \/ ExitSettles(s)
              \/ \E i \in DOMAIN corr : CorrectionSettles(i)
PreStep    == \E s \in Lineages : Sweep(s) \/ ResolveEntry(s) \/ ResolveExit(s) \/ Retry(s)
TickStep   == \/ PreStep \/ ReadBook \/ ReadPositions \/ ReadOrders
              \/ Balanced \/ Skips \/ Adopt \/ Correct

Next == \/ BotStep
        \/ VenueStep
        \/ \E s \in Lineages : StopFires(s)
        \/ UserTrades
        \/ TickStep
        \/ CooldownLapses \/ GraceLapses
        \/ Restart

Spec == Init /\ [][Next]_vars

\* The interval timer keeps ticking, orders settle at the venue, time passes.
FairSpec == /\ Spec
            /\ WF_vars(TickStep)
            /\ WF_vars(VenueStep)
            /\ WF_vars(CooldownLapses)
            /\ WF_vars(GraceLapses)

----------------------------------------------------------------------------
(* Properties *)

Settled   == LockFree /\ unk = {} /\ ~Settleable

\* While every trade is the executor's own or older than it, the reconciler places no order:
\* neither its reads, which are of different moments, nor lost lookups, restarts, a stop that
\* fills unseen or a position of the user's that it found make it trade. And a close it adopts
\* is of a position that is gone: once the book is settled it holds what each lineage holds.
OwnTradesStand ==
    trades = 0 /\ ways = {} =>
        /\ \A i \in DOMAIN corr : corr[i].st = "none"
        /\ Settled => \A s \in Lineages : Rem(s) = held[s]

\* Whatever went wrong before, the book and the venue agree again, or the user has been told
\* that they must be brought together by hand; a resting order of the pair holds it back.
Converges == []<>(Expected = pos \/ marker \/ Abs(Expected - pos) > MaxDelta \/ WorkingSeen)
=============================================================================
