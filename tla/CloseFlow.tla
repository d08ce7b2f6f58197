----------------------------- MODULE CloseFlow -----------------------------
(***************************************************************************)
(* How the executor closes what it opened. A `close` signal sells its own  *)
(* bot's entries (its lineage) out of a position that other bots may share *)
(* at the venue. A close that does not confirm leaves its entries          *)
(* `closing`; the reconciler tick resolves orders of unknown outcome and   *)
(* re-issues what is still owed.                                           *)
(*                                                                         *)
(* Source: node-backend/src/websocket/signal-client.ts                     *)
(* (executeCloseSignal, settleClose, attributeExitFills,                   *)
(* retryPendingCloses, resolveUnknownOrders), services/exit-attribution.ts *)
(* and storage/database.ts.                                                *)
(*                                                                         *)
(* One exchange account and one symbol, all entries long, filled and       *)
(* numbered in the order they were opened; contracts are whole. The order  *)
(* lock is held while job # NoJob or todo # {}.                            *)
(***************************************************************************)
EXTENDS Integers, Sequences, FiniteSets, FiniteSetsExt, ContractCount

CONSTANTS
    Closes,    \* close signals
    Scenarios, \* what was opened, what is closed, and what may go wrong
    NoJob      \* no order is being settled

\* How an adapter reports an order killed after a part fill; whether it answers
\* `filled` to a market order that was merely accepted; what its venue does with
\* a client order id it has seen before.
Adapter ==
    {a \in [partial : {"partially_filled", "cancelled"}, acks : BOOLEAN,
            dedup : {"none", "open", "ever", "reuse"}] : a.dedup \in {"open", "ever"} => a.acks}

Faulty == {"kill", "part", "timeout", "throw", "crash", "refuse"}

\* size: contracts of each entry, entry e newer than e - 1; entryBot, closeBot:
\* whose lineage an entry is, and a close; halves: the closes with fraction
\* 1/2, the others close everything; faults: what may go wrong. Bounds:
\* maxFaults, how often it does; maxDeliveries of one close.
Scenario(s) ==
    /\ s.size \in Seq(Nat \ {0})
    /\ DOMAIN s.entryBot = DOMAIN s.size
    /\ s.closeBot \in [Closes -> {s.entryBot[e] : e \in DOMAIN s.size}]
    /\ s.halves \subseteq Closes
    /\ s.adapters \subseteq Adapter
    /\ s.faults \subseteq Faulty
    /\ s.maxFaults \in Nat /\ s.maxDeliveries \in Nat
    /\ DOMAIN s.size \cap Closes = {}

ASSUME CloseAssumption == IsFiniteSet(Closes) /\ \A s \in Scenarios : Scenario(s)

ASSUME NoJobAssumption == NoJob \notin [who : Closes \cup Nat, label : Nat, qty : Nat, full : BOOLEAN, ord : Nat]

VARIABLES
    scenario, \* the account's story, fixed from the start
    adapter, \* the account's adapter
    execs,    \* signal_executions: status, qty_closed, qty_pending_close (0: null)
    live,    \* entry signals whose status is still 'executed'
    csig,    \* signals.status of the closes
    rows,    \* order_settlements of kind exit, unique per (signal, target label)
    job,     \* the order the lock's holder is settling
    pc,      \* where it is: awaiting the reply or the first poll, or the second poll
    todo,    \* closing executions the reconciler tick has still to look at
    snap,    \* venue position size as that tick read it
    inbox,   \* closes queued on the lock
    got,     \* how often each close was delivered
    acks,    \* executed acks sent per close
    asked,   \* quantity each close was first placed for
    orders,  \* the venue's orders
    troubles   \* how many things went wrong

bookVars == <<execs, live, csig, rows>>
lockVars == <<job, pc, todo, snap>>
setting == <<scenario, adapter>>
closeVars == <<setting, bookVars, lockVars, inbox, got, acks, asked, orders, troubles>>

Opened     == scenario.size
EntryBot == scenario.entryBot
CloseBot == scenario.closeBot
Halves   == scenario.halves

Entries == DOMAIN Opened
Bots    == {EntryBot[e] : e \in Entries}
MaxQty  == Sum(Opened)

Least(m, n) == IF m < n THEN m ELSE n
Minus(m, n) == IF m > n THEN m - n ELSE 0

BotOf(who) == IF who \in Closes THEN CloseBot[who] ELSE EntryBot[who]

Sold == Sum([o \in DOMAIN orders |-> orders[o].fill])
Net  == MaxQty - Sold

\* A partial close over an entry and its add may book on the one of them that
\* is closed already: `closed` alone does not bound an entry.
CloseTypeOK ==
    /\ scenario \in Scenarios
    /\ adapter \in scenario.adapters
    /\ execs \in [Entries -> [status : {"open", "closing", "closed"},
                             closed : Nat, pending : 0..MaxQty]]
    /\ live \subseteq Entries
    /\ csig \in [Closes -> {"none", "pending", "executed", "rejected"}]
    /\ \A r \in rows : /\ r.who \in Closes \cup Entries
                       /\ r.label \in 0..MaxQty
                       /\ r.status \in {"unknown", "filled", "cancelled"}
                       /\ r.ord \in DOMAIN orders
    /\ \A q, r \in rows : q.who = r.who /\ q.label = r.label => q = r
    /\ job = NoJob \/ job.ord \in DOMAIN orders
    /\ pc \in {"idle", "reply", "poll2"}
    /\ todo \subseteq Entries
    /\ snap \in 0..MaxQty
    /\ inbox \subseteq Closes
    /\ \A o \in DOMAIN orders : orders[o].fill \in 0..orders[o].qty

CloseInit ==
    /\ scenario \in Scenarios
    /\ adapter \in scenario.adapters
    /\ execs   = [e \in Entries |-> [status |-> "open", closed |-> 0, pending |-> 0]]
    /\ live   = Entries
    /\ csig   = [c \in Closes |-> "none"]
    /\ rows   = {}
    /\ job    = NoJob
    /\ pc     = "idle"
    /\ todo   = {}
    /\ snap   = 0
    /\ inbox  = {}
    /\ got    = [c \in Closes |-> 0]
    /\ acks   = [c \in Closes |-> 0]
    /\ asked  = [c \in Closes |-> 0]
    /\ orders = <<>>
    /\ troubles = 0

Trouble(kind) ==
    /\ kind \in scenario.faults
    /\ troubles < scenario.maxFaults
    /\ troubles' = troubles + 1

LockIdle == job = NoJob /\ todo = {}

----------------------------------------------------------------------------
(* The book *)

Open(e)   == Minus(Opened[e], execs[e].closed)
IsLive(e) == execs[e].status \in {"open", "closing"}
OpenOf(es) == [e \in Entries |-> IF e \in es /\ IsLive(e) THEN Open(e) ELSE 0]
BookNet   == Sum(OpenOf(Entries))

Lineage(c) == {e \in live : EntryBot[e] = CloseBot[c]}

\* Quantity q spread over the entries newest first, none gets more than offered.
Newer(offer, e) == Sum([f \in Entries |-> IF f > e THEN offer[f] ELSE 0])
Spread(q, offer) == [e \in Entries |-> Least(offer[e], Minus(q, Newer(offer, e)))]

\* attributeExitFills: an entry that is fully booked already takes all that is
\* left of a partial close; a full close gives every entry what it has open.
ExitShares(es, q, full) ==
    LET offer == [e \in Entries |-> IF e \notin es THEN 0
                                    ELSE IF full \/ Open(e) > 0 THEN Open(e) ELSE q]
    IN  IF full THEN [e \in Entries |-> IF q > Newer(offer, e) THEN offer[e] ELSE 0]
        ELSE Spread(q, offer)

\* planExitAttribution: every open execution on the symbol, of any bot.
VenueShares(q) == Spread(q, OpenOf(Entries))

Book(shares) ==
    [e \in Entries |->
        IF shares[e] = 0 THEN execs[e]
        ELSE [execs[e] EXCEPT
                !.closed = @ + shares[e],
                !.status = IF execs[e].closed + shares[e] >= Opened[e] THEN "closed" ELSE "open"]]

\* Mutant: a refreshed row is added beside the one it refreshes.
PutBeside(who, label, status, ord) ==
    rows \cup {[who |-> who, label |-> label, status |-> status, ord |-> ord]}

\* insertOrderSettlement: one row per signal and target label, refreshed in place.
Put(who, label, status, ord) ==
    {r \in rows : r.who # who \/ r.label # label}
        \cup {[who |-> who, label |-> label, status |-> status, ord |-> ord]}

Processed(c, label) ==
    \E r \in rows : r.who = c /\ r.label = label /\ r.status \in {"unknown", "filled"}

\* Mutant: a resolved row still counts.
UnresolvedAny == rows

Unresolved == {r \in rows : r.status = "unknown"}

AckExecuted(c) == acks' = [acks EXCEPT ![c] = @ + 1]

----------------------------------------------------------------------------
(* Placing an order: the venue may have seen its client order id before.   *)

Seen(who, label) == {o \in DOMAIN orders : orders[o].who = who /\ orders[o].label = label}

Cancelled(o) == ~orders[o].working /\ orders[o].fill < orders[o].qty

\* "reuse": the newest order under the id is taken for this one unless it was
\* cancelled. "open", "ever": a second order under the id is refused while the
\* first is working, or always (such a venue's adapter answers `filled` on
\* acceptance, so none of its closes is ever re-issued).
Reusable(who, label) ==
    IF adapter.dedup = "reuse"
    THEN {o \in Seen(who, label) : ~Cancelled(o) /\ \A p \in Seen(who, label) : p <= o}
    ELSE {}

Refused(who, label) ==
    \/ adapter.dedup = "ever" /\ Seen(who, label) # {}
    \/ adapter.dedup = "open" /\ \E o \in Seen(who, label) : orders[o].working

Place(who, label, qty, full) ==
    /\ LET old == Reusable(who, label)
           ord == IF old # {} THEN Max(old) ELSE Len(orders) + 1
       IN  /\ job' = [who |-> who, label |-> label, qty |-> qty, full |-> full, ord |-> ord]
           /\ orders' = IF old # {} THEN orders
                        ELSE Append(orders, [who |-> who, label |-> label, qty |-> qty,
                                             fill |-> 0, working |-> TRUE])
    /\ pc' = "reply"

----------------------------------------------------------------------------
(* A close signal, up to its order *)

\* Delivered or replayed: the replay reads the local status before it queues.
Deliver(c) ==
    /\ got[c] < scenario.maxDeliveries
    /\ csig[c] # "executed"
    /\ got'   = [got EXCEPT ![c] = @ + 1]
    /\ inbox' = inbox \cup {c}
    /\ UNCHANGED <<setting, bookVars, lockVars, acks, asked, orders, troubles>>

TakeNext(c) == LockIdle /\ c \in inbox /\ inbox' = inbox \ {c}

Reject(c) ==
    /\ csig' = [csig EXCEPT ![c] = "rejected"]
    /\ UNCHANGED <<execs, live, rows, acks>>

\* No session, or the positions cannot be read.
RefuseClose(c) ==
    /\ TakeNext(c)
    /\ Trouble("refuse")
    /\ Reject(c)
    /\ UNCHANGED <<lockVars, got, asked, orders>>

\* Nothing of this bot is open: whatever the venue holds is somebody else's.
NothingOpen(c) ==
    /\ TakeNext(c)
    /\ Lineage(c) = {}
    /\ csig' = [csig EXCEPT ![c] = "executed"]
    /\ AckExecuted(c)
    /\ UNCHANGED <<execs, live, rows, lockVars, got, asked, orders, troubles>>

\* A prior close is still in flight: no order, no ack.
WaitForPrior(c) ==
    /\ TakeNext(c)
    /\ \E e \in Lineage(c) : execs[e].status = "closing"
    /\ csig' = [csig EXCEPT ![c] = "pending"]
    /\ UNCHANGED <<execs, live, rows, acks, lockVars, got, asked, orders, troubles>>

MayPlace(c) ==
    /\ Lineage(c) # {}
    /\ \A e \in Lineage(c) : execs[e].status # "closing"

AlreadyFlat(c) ==
    /\ TakeNext(c)
    /\ MayPlace(c)
    /\ Net = 0
    /\ execs' = [e \in Entries |->
                  IF e \in Lineage(c) THEN [execs[e] EXCEPT !.status = "closed"] ELSE execs[e]]
    /\ live' = live \ Lineage(c)
    /\ csig' = [csig EXCEPT ![c] = "executed"]
    /\ AckExecuted(c)
    /\ UNCHANGED <<rows, lockVars, got, asked, orders, troubles>>

\* What the close asks for: the lineage's own open quantity, or the venue's
\* when the book has none; capped at the venue when neither the venue covers
\* the close nor the whole book explains the venue. Halves round down to
\* whole contracts, but never to nothing.
LineageQty(c) == Sum(OpenOf(Lineage(c)))

CloseBase(c) == IF LineageQty(c) > 0 THEN LineageQty(c) ELSE Net

CloseCap(c) ==
    LET base   == LineageQty(c)
        covers == IF c \in Halves THEN 2 * Net + 1 >= base ELSE Net >= base
    IN  IF base > 0 /\ (covers \/ BookNet = Net) THEN base ELSE Net

CloseQty(c) ==
    LET want == IF c \in Halves THEN CloseBase(c) \div 2 ELSE CloseBase(c)
    IN  Least(IF want = 0 THEN CloseBase(c) ELSE want, CloseCap(c))

IsFull(c) == c \notin Halves \/ CloseQty(c) >= CloseBase(c)

Label(c) == IF IsFull(c) THEN 0 ELSE CloseQty(c)

Duplicate(c) ==
    /\ TakeNext(c)
    /\ MayPlace(c)
    /\ Net > 0
    /\ Processed(c, Label(c))
    /\ csig' = [csig EXCEPT ![c] = "executed"]
    /\ UNCHANGED <<execs, live, rows, acks, lockVars, got, asked, orders, troubles>>

CanPlace(c) ==
    /\ MayPlace(c)
    /\ Net > 0
    /\ ~Processed(c, Label(c))

PlaceClose(c) ==
    /\ TakeNext(c)
    /\ CanPlace(c)
    /\ ~Refused(c, Label(c))
    /\ Place(c, Label(c), CloseQty(c), IsFull(c))
    /\ asked' = IF asked[c] = 0 THEN [asked EXCEPT ![c] = CloseQty(c)] ELSE asked
    /\ UNCHANGED <<bookVars, todo, snap, got, acks, troubles>>

\* The venue refuses the client order id: placeOrder throws.
CloseRefused(c) ==
    /\ TakeNext(c)
    /\ CanPlace(c)
    /\ Refused(c, Label(c))
    /\ Reject(c)
    /\ UNCHANGED <<lockVars, got, asked, orders, troubles>>

----------------------------------------------------------------------------
(* Settling: what the venue answers about the order *)

Report(o) ==
    CASE orders[o].working -> "working"
      [] ~orders[o].working /\ orders[o].fill = orders[o].qty -> "filled"
      [] ~orders[o].working /\ orders[o].fill = 0 -> "cancelled"
      [] OTHER -> adapter.partial

FillReport(o) == Report(o) \in {"filled", "partially_filled"}

Done == job' = NoJob /\ pc' = "idle"

\* A close that filled as far as it went.
BookClose(c, n) ==
    LET es     == Lineage(c)
        all    == n = job.qty
        booked == Book(ExitShares(es, n, all /\ job.full))
    IN  /\ execs' = IF all THEN booked
                   ELSE [e \in Entries |->
                           IF e \in es THEN [booked[e] EXCEPT !.status = "closing", !.pending = job.qty - n]
                           ELSE booked[e]]
        /\ rows' = Put(c, job.label, "filled", job.ord)
        /\ live' = IF all /\ job.full THEN live \ es ELSE live
        /\ csig' = [csig EXCEPT ![c] = IF all THEN "executed" ELSE "pending"]
        /\ IF all THEN AckExecuted(c) ELSE UNCHANGED acks

\* Mutant: whatever a re-issued close filled retires the execution.
BookRetryRetires(e, n) ==
    /\ execs' = [execs EXCEPT ![e] = [status |-> "closed", closed |-> @.closed + n, pending |-> 0]]
    /\ live' = live \ {e}
    /\ UNCHANGED <<rows, csig, acks>>

\* A re-issued close that filled: the execution is retired, reopened with the
\* rest of its position, or still owes a remainder.
BookRetry(e, n) ==
    LET x      == execs[e]
        closed == x.closed + n
        all    == n = job.qty
        ends   == n >= snap \/ closed >= Opened[e] \/ (x.pending = 0 /\ all)
    IN  /\ execs' = [execs EXCEPT ![e] =
                      [status  |-> IF ends THEN "closed" ELSE IF all THEN "open" ELSE "closing",
                       closed  |-> closed,
                       pending |-> IF ends \/ all \/ x.pending = 0 THEN 0 ELSE job.qty - n]]
        /\ live' = IF ends THEN live \ {e} ELSE live
        /\ UNCHANGED <<rows, csig, acks>>

BookFill(n) ==
    /\ IF job.who \in Closes THEN BookClose(job.who, n) ELSE BookRetry(job.who, n)
    /\ Done
    /\ todo' = todo \ {job.who}
    /\ UNCHANGED <<snap, inbox, got, asked, orders>>

SettleFilled ==
    /\ job # NoJob
    /\ ~adapter.acks
    /\ FillReport(job.ord)
    /\ BookFill(Least(orders[job.ord].fill, job.qty))
    /\ UNCHANGED troubles

\* `filled` came with the order's acceptance, without a quantity; a status
\* query replaces it only by a fill.
TrustAck ==
    /\ job # NoJob
    /\ adapter.acks
    /\ BookFill(IF Report(job.ord) = "filled" THEN Least(orders[job.ord].fill, job.qty) ELSE job.qty)
    /\ UNCHANGED troubles

\* Mutant: the entries owe all they have open, not what the close asked for.
UnconfirmedWhole ==
    /\ IF job.who \in Closes
       THEN /\ execs' = [e \in Entries |->
                          IF e \in Lineage(job.who)
                          THEN [execs[e] EXCEPT !.status = "closing", !.pending = Open(e)]
                          ELSE execs[e]]
            /\ csig' = [csig EXCEPT ![job.who] = "pending"]
       ELSE UNCHANGED <<execs, csig>>
    /\ Done
    /\ todo' = todo \ {job.who}
    /\ UNCHANGED <<live, snap, inbox, got, acks, asked>>

\* Nothing is known to have closed: the entries owe the close from now on.
Unconfirmed ==
    /\ IF job.who \in Closes
       THEN /\ execs' = [e \in Entries |->
                          IF e \in Lineage(job.who)
                          THEN [execs[e] EXCEPT !.status = "closing", !.pending = job.qty]
                          ELSE execs[e]]
            /\ csig' = [csig EXCEPT ![job.who] = "pending"]
       ELSE UNCHANGED <<execs, csig>>
    /\ Done
    /\ todo' = todo \ {job.who}
    /\ UNCHANGED <<live, snap, inbox, got, acks, asked>>

SettleUnfilled ==
    /\ job # NoJob
    /\ ~adapter.acks
    /\ Report(job.ord) \notin {"working", "filled", "partially_filled"}
    /\ Unconfirmed
    /\ UNCHANGED <<rows, orders, troubles>>

\* The first poll window closes: cancel (it may fail), then poll again.
PollTimeout ==
    /\ job # NoJob
    /\ ~adapter.acks
    /\ pc = "reply"
    /\ Trouble("timeout")
    /\ pc' = "poll2"
    /\ \/ /\ orders[job.ord].working
          /\ orders' = [orders EXCEPT ![job.ord].working = FALSE]
       \/ UNCHANGED orders
    /\ UNCHANGED <<bookVars, job, todo, snap, inbox, got, acks, asked>>

SettleTimeout ==
    /\ job # NoJob
    /\ pc = "poll2"
    /\ Unconfirmed
    /\ rows' = Put(job.who, job.label, "unknown", job.ord)
    /\ UNCHANGED <<orders, troubles>>

\* placeOrder throws, although the order may have reached the venue.
PlaceThrows ==
    /\ job # NoJob
    /\ pc = "reply"
    /\ Trouble("throw")
    /\ csig' = IF job.who \in Closes THEN [csig EXCEPT ![job.who] = "rejected"] ELSE csig
    /\ \/ orders' = [orders EXCEPT ![job.ord].working = FALSE]
       \/ UNCHANGED orders
    /\ Done
    /\ todo' = todo \ {job.who}
    /\ UNCHANGED <<execs, live, rows, snap, inbox, got, acks, asked>>

----------------------------------------------------------------------------
(* The reconciler tick *)

StartTick ==
    /\ LockIdle
    /\ todo' = {e \in Entries : execs[e].status = "closing"}
    /\ todo' # {}
    /\ snap' = Net
    /\ UNCHANGED <<bookVars, job, pc, inbox, got, acks, asked, orders, troubles>>

NextRetry(e) == job = NoJob /\ todo # {} /\ e = Min(todo)

\* An order of unknown outcome may still fill: wait for it.
RetryWaits(e) ==
    /\ NextRetry(e)
    /\ Unresolved # {}
    /\ todo' = todo \ {e}
    /\ UNCHANGED <<bookVars, job, pc, snap, inbox, got, acks, asked, orders, troubles>>

RetryFlat(e) ==
    /\ NextRetry(e)
    /\ Unresolved = {}
    /\ snap = 0
    /\ execs' = [execs EXCEPT ![e] = [@ EXCEPT !.status = "closed", !.pending = 0]]
    /\ live' = live \ {e}
    /\ todo' = todo \ {e}
    /\ UNCHANGED <<csig, rows, job, pc, snap, inbox, got, acks, asked, orders, troubles>>

\* Mutant: the whole live position is closed, whoever holds it.
ReissueQtyVenue(e) == snap

ReissueQty(e) ==
    LET bound == IF Open(e) > 0 THEN Open(e) ELSE snap
        owed  == IF execs[e].pending > 0 THEN execs[e].pending ELSE bound
    IN  Least(owed, Least(snap, bound))

RetryClose(e) ==
    /\ NextRetry(e)
    /\ Unresolved = {}
    /\ snap > 0
    /\ Place(e, 0, ReissueQty(e), FALSE)
    /\ UNCHANGED <<bookVars, todo, snap, inbox, got, acks, asked, troubles>>

\* The market is closed: wait for the next tick.
RetryPostponed(e) ==
    /\ NextRetry(e)
    /\ Unresolved = {}
    /\ snap > 0
    /\ Trouble("refuse")
    /\ todo' = todo \ {e}
    /\ UNCHANGED <<bookVars, job, pc, snap, inbox, got, acks, asked, orders>>

----------------------------------------------------------------------------
(* resolveUnknownOrders *)

\* The row of a close: its fill goes to whatever executions the venue position
\* has open. The row of a retry: its own execution.
ResolveFilled(r) ==
    /\ LockIdle
    /\ r \in Unresolved
    /\ FillReport(r.ord)
    /\ LET n == orders[r.ord].fill
           booked == IF r.who \in Closes THEN Book(VenueShares(n))
                     ELSE [execs EXCEPT ![r.who] =
                             [status  |-> IF @.closed + n >= Opened[r.who] THEN "closed" ELSE "open",
                              closed  |-> @.closed + n, pending |-> 0]]
           ended  == {e \in Entries : booked[e].status = "closed" /\ booked[e] # execs[e]}
       IN  /\ execs' = [e \in Entries |->
                         IF e \in ended THEN [booked[e] EXCEPT !.pending = 0] ELSE booked[e]]
           /\ live' = live \ ended
    /\ rows' = Put(r.who, r.label, "filled", r.ord)
    /\ UNCHANGED <<csig, lockVars, inbox, got, acks, asked, orders, troubles>>

ResolveUnfilled(r) ==
    /\ LockIdle
    /\ r \in Unresolved
    /\ Report(r.ord) \notin {"working", "filled", "partially_filled"}
    /\ rows' = Put(r.who, r.label, "cancelled", r.ord)
    /\ UNCHANGED <<execs, live, csig, lockVars, inbox, got, acks, asked, orders, troubles>>

----------------------------------------------------------------------------
(* The venue: a reduce-only market order takes what the position still has *)

VenueFills(o, n) ==
    orders' = [orders EXCEPT ![o].working = FALSE, ![o].fill = n]

VenueFill(o) ==
    /\ orders[o].working
    /\ VenueFills(o, Least(orders[o].qty, Net))
    /\ UNCHANGED <<bookVars, lockVars, inbox, got, acks, asked, troubles>>

\* Killed with nothing or with a part of it filled.
VenueKill(o) ==
    /\ orders[o].working
    /\ \/ Trouble("kill") /\ VenueFills(o, 0)
       \/ /\ Trouble("part")
          /\ \E n \in 1..(Least(orders[o].qty, Net + 1) - 1) : VenueFills(o, n)
    /\ UNCHANGED <<bookVars, lockVars, inbox, got, acks, asked>>

\* The process dies and comes back without the lock, its queue and its holder.
Crash ==
    /\ ~LockIdle \/ inbox # {}
    /\ Trouble("crash")
    /\ Done
    /\ todo'  = {}
    /\ inbox' = {}
    /\ UNCHANGED <<setting, bookVars, snap, got, acks, asked, orders>>

HandleStep(c) ==
    /\ UNCHANGED setting
    /\ \/ RefuseClose(c) \/ NothingOpen(c) \/ WaitForPrior(c) \/ AlreadyFlat(c)
       \/ Duplicate(c) \/ PlaceClose(c) \/ CloseRefused(c)

SettleStep ==
    /\ UNCHANGED setting
    /\ \/ SettleFilled \/ TrustAck \/ SettleUnfilled
       \/ PollTimeout \/ SettleTimeout \/ PlaceThrows

RetryStep ==
    /\ UNCHANGED setting
    /\ \/ StartTick
       \/ \E e \in Entries : RetryWaits(e) \/ RetryFlat(e) \/ RetryClose(e) \/ RetryPostponed(e)

ResolveStep ==
    /\ UNCHANGED setting
    /\ \E r \in rows : ResolveFilled(r) \/ ResolveUnfilled(r)

MarketStep ==
    /\ UNCHANGED setting
    /\ \E o \in DOMAIN orders : VenueFill(o) \/ VenueKill(o)

CloseNext ==
    \/ \E c \in Closes : Deliver(c) \/ HandleStep(c)
    \/ SettleStep \/ RetryStep \/ ResolveStep \/ MarketStep \/ Crash

CloseSpec == CloseInit /\ [][CloseNext]_closeVars

(* The handler's awaits return, the reconciler ticks, its lookups get an   *)
(* answer in the end, and a market order is filled or killed. Resolving    *)
(* competes with handlers and ticks for the lock, hence strong fairness:   *)
(* every tick starts with it.                                              *)
Fairness ==
    /\ WF_closeVars(SettleStep) /\ WF_closeVars(RetryStep) /\ SF_closeVars(ResolveStep) /\ WF_closeVars(MarketStep)
    /\ \A c \in Closes : SF_closeVars(HandleStep(c))

CloseFairSpec == CloseSpec /\ Fairness

----------------------------------------------------------------------------
(* Properties *)

Outstanding == Sum([o \in DOMAIN orders |-> IF orders[o].working THEN orders[o].qty ELSE 0])
Closed == Sum([e \in Entries |-> execs[e].closed])

BotSold(b)   == Sum([o \in DOMAIN orders |-> IF BotOf(orders[o].who) = b THEN orders[o].fill ELSE 0])
BotSize(b)   == Sum([e \in Entries |-> IF EntryBot[e] = b THEN Opened[e] ELSE 0])
BotClosed(b) == Sum([e \in Entries |-> IF EntryBot[e] = b THEN execs[e].closed ELSE 0])
BotAsked(b)  == Sum([c \in Closes |-> IF CloseBot[c] = b THEN asked[c] ELSE 0])

\* No bot adds to its entry: with an add, a fraction is booked, and what it
\* still owes re-issued, once per entry.
OneEntryEach == \A e, f \in Entries : EntryBot[e] = EntryBot[f] => e = f

\* A bot's closes never sell more than the bot bought: nothing of a position
\* that another bot holds at the venue.
NeverSellsSibling == \A b \in Bots : BotSold(b) <= BotSize(b)

\* The exits booked on a bot's entries were sold by that bot's closes.
BookedOnOwnLineage == \A b \in Bots : BotClosed(b) <= BotSold(b)

(* No entry is booked as closed beyond what it opened: "each signal's      *)
(* fills-based PnL reflects what was closed against it"                    *)
(* (attributeExitFills).                                                   *)
NoEntryOverClosed == \A e \in Entries : execs[e].closed <= Opened[e]

(* Two bots on one position: each "may only ever flatten its own lineage"  *)
(* (executeCloseSignal), in what it sells, in whose rows the sale is       *)
(* booked on, and up to what the entry opened - through kills, part fills, *)
(* refusals, re-issues and second deliveries.                              *)
OwnLineageOnly ==
    OneEntryEach => NeverSellsSibling /\ BookedOnOwnLineage /\ NoEntryOverClosed

(* A close sells what it was sent for. Its re-issues sell "exactly this    *)
(* fraction": a bot whose closes were delivered once sold no more than     *)
(* they asked for. "A re-fired exit for the SAME target must not place a   *)
(* second order" (executeCloseSignal): of a close of everything there is   *)
(* one order, its copies and the closes it waited for notwithstanding.     *)
SellsWhatWasAsked ==
    OneEntryEach =>
        /\ \A b \in Bots :
              (\A c \in Closes : CloseBot[c] = b => got[c] <= 1) => BotSold(b) <= BotAsked(b)
        /\ \A c \in Closes \ Halves : Cardinality({o \in DOMAIN orders : orders[o].who = c}) <= 1

(* A close stays within its own lineage and within what was asked.         *)
ClosesItsOwn == OwnLineageOnly /\ SellsWhatWasAsked

(* What the adapter acked as filled was filled.                            *)
AcksKept == adapter.acks => \A o \in DOMAIN orders : ~Cancelled(o)

(* The exits booked on the entries are contracts the venue really sold     *)
(* ("Only a confirmed fill retires the position", settleClose), unless an  *)
(* entry was over-closed, after which a full close books what the others   *)
(* seem to have open; and every contract still held at the venue is still  *)
(* open in the book, unless an order for it is still working.              *)
BookMatchesVenue ==
    AcksKept =>
        /\ NoEntryOverClosed => Closed <= Sold + IF adapter.acks THEN Outstanding ELSE 0
        /\ Net <= BookNet + Outstanding

(* An entry left `closing` is finished in the end, by the tick's re-issues *)
(* or the resolver.                                                        *)
ClosingIsFinished ==
    \A e \in UNION {DOMAIN s.size : s \in Scenarios} :
        (e \in Entries /\ execs[e].status = "closing") ~> execs[e].status # "closing"

=============================================================================
