----------------------------- MODULE PanicHalt -----------------------------
(***************************************************************************)
(* The kill switch: PANIC flattens every account, or the daily-loss trip   *)
(* one account, while entries are on their way. An entry passes the halt   *)
(* gate, waits for its sizing and market checks, meets the daily-loss      *)
(* rail, and only then places its order. A flatten sets the halt, reads    *)
(* each account's position, places a market close for it, and when every   *)
(* close is placed books the fills on the executions, newest first, and    *)
(* retires the protection of the positions it ended. It takes no order     *)
(* lock, so every await of the one interleaves with every step of the      *)
(* other.                                                                  *)
(*                                                                         *)
(* Source: node-backend/src/services/panic.ts, daily-loss-trip.ts,         *)
(* account-halt.ts, exit-attribution.ts, manual-trade.ts and               *)
(* websocket/signal-client.ts (processSignalForSub).                       *)
(*                                                                         *)
(* Every entry buys one contract; an account is one venue connection with  *)
(* one symbol. A position bought by hand has no execution row.             *)
(***************************************************************************)
EXTENDS Integers, FiniteSets, FiniteSetsExt

CONSTANTS
    Accounts,
    Entries,      \* entry signals and manual orders
    Panics,       \* PANIC calls: the route or a remote command
    NoOne,        \* no account, no holder of a lock
    AccountOf,    \* the account an entry trades on
    Manual,       \* entries placed by hand
    Held,         \* entries that are open positions to begin with
    ReduceOnly,   \* accounts whose venue honours reduceOnly
    MaxLosses,    \* bound: accounts whose realized loss reaches the limit
    MaxFaults,    \* bound: reads, orders and reports that fail
    MaxResumes    \* bound: halts cleared by the user

ASSUME PanicAssumption ==
    /\ NoOne \notin Accounts \cup Entries
    /\ IsFiniteSet(Entries)
    /\ Entries \cap Panics = {}
    /\ AccountOf \in [Entries -> Accounts]
    /\ Manual \subseteq Entries
    /\ Held \subseteq Entries \ Manual
    /\ ReduceOnly \subseteq Accounts
    /\ {MaxLosses, MaxFaults, MaxResumes} \subseteq Nat

Flattens == Panics \cup Entries   \* an entry's own flatten is its daily-loss trip

VARIABLES
    halted,       \* executor_halt
    accountHalt,  \* account_halts
    breached,     \* accounts past their daily-loss limit
    lock,         \* holder of each account's order lock
    step,         \* where each entry is
    row,          \* signal_executions: status, qty opened and closed
    born,         \* order in which the rows were inserted
    armed,        \* entries with a bracket (stop and take-profit) at the venue
    managed,      \* entries with an active server_exit_state
    net,          \* the venue's position
    fl,           \* each flatten: phase, sessions to go, position read, closes placed
    order,        \* each flatten's close per account: state, side and size, fill
    trips,        \* daily-loss flattens per account since its halt was last cleared
    faults, resumes

haltVars  == <<halted, accountHalt, trips>>
entryVars == <<lock, step>>
bookVars  == <<row, born, armed, managed>>
panicVars == <<fl, order>>
vars == <<haltVars, breached, entryVars, bookVars, net, panicVars, faults, resumes>>

On(a)    == {e \in Entries : AccountOf[e] = a}
Tracked  == Entries \ Manual

NoRow   == [status |-> "none", opened |-> 0, closed |-> 0]
NoOrder == [state |-> "none", size |-> 0, fill |-> 0]
Idle    == [phase |-> "idle", scope |-> {}, todo |-> {}, at |-> NoOne, size |-> 0,
            placed |-> {}, failed |-> FALSE, states |-> {}]

TypeOK ==
    /\ halted \in BOOLEAN
    /\ accountHalt \subseteq Accounts
    /\ breached \subseteq Accounts
    /\ lock \in [Accounts -> Entries \cup {NoOne}]
    /\ step \in [Entries -> {"idle", "gated", "tripping", "cleared", "sent", "filled", "held", "refused"}]
    /\ row \in [Entries -> [status : {"none", "open", "closed", "error"}, opened : 0..1, closed : 0..1]]
    /\ born \in [Entries -> 0..Cardinality(Entries)]
    /\ armed \subseteq Tracked
    /\ managed \subseteq Tracked
    /\ net \in [Accounts -> Int]
    /\ fl \in [Flattens -> [phase : {"idle", "tripped", "placing", "booking", "done"},
                            scope : SUBSET Accounts, todo : SUBSET Accounts,
                            at : Accounts \cup {NoOne}, size : Int,
                            placed : SUBSET Accounts, failed : BOOLEAN,
                            states : SUBSET Tracked]]
    /\ \A f \in Flattens, a \in Accounts :
         order[f][a].state \in {"none", "working", "filled", "cancelled"}
    /\ trips \in [Accounts -> Nat]
    /\ faults \in 0..MaxFaults
    /\ resumes \in 0..MaxResumes

Init ==
    /\ halted = FALSE
    /\ accountHalt = {}
    /\ breached = {}
    /\ lock = [a \in Accounts |-> NoOne]
    /\ step = [e \in Entries |-> IF e \in Held THEN "held" ELSE "idle"]
    /\ row  = [e \in Entries |-> IF e \in Held THEN [status |-> "open", opened |-> 1, closed |-> 0]
                                 ELSE NoRow]
    /\ born \in [Entries -> 0..Cardinality(Held)]
    /\ \A e \in Entries : born[e] = 0 <=> e \notin Held
    /\ \A e1, e2 \in Held : e1 # e2 => born[e1] # born[e2]
    /\ armed = Held
    /\ managed = Held
    /\ net  = [a \in Accounts |-> Cardinality(Held \cap On(a))]
    /\ fl    = [f \in Flattens |-> Idle]
    /\ order = [f \in Flattens |-> [a \in Accounts |-> NoOrder]]
    /\ trips = [a \in Accounts |-> 0]
    /\ faults = 0
    /\ resumes = 0

Fault == faults < MaxFaults /\ faults' = faults + 1

Becomes(e, s) == step' = [step EXCEPT ![e] = s]

Release(e) == lock' = [lock EXCEPT ![AccountOf[e]] = IF @ = e THEN NoOne ELSE @]

----------------------------------------------------------------------------
(* Outside *)

\* Realized loss since 00:00 UTC reaches the account's limit.
LossHits(a) ==
    /\ Cardinality(breached) < MaxLosses
    /\ breached' = breached \cup {a}
    /\ UNCHANGED <<haltVars, entryVars, bookVars, net, panicVars, faults, resumes>>

Resume ==
    /\ resumes < MaxResumes
    /\ resumes' = resumes + 1
    /\ \/ halted' = FALSE /\ UNCHANGED <<accountHalt, trips>>
       \/ \E a \in accountHalt : /\ accountHalt' = accountHalt \ {a}
                                 /\ trips' = [trips EXCEPT ![a] = 0]
                                 /\ UNCHANGED halted
    /\ UNCHANGED <<breached, entryVars, bookVars, net, panicVars, faults>>

----------------------------------------------------------------------------
(* Entries *)

MayStart(e) == e \in Manual \/ lock[AccountOf[e]] = NoOne

\* The halt gate. A signal passes it under its order lock, a manual order
\* before it takes the lock. What follows is awaited.
PassGate(e) ==
    /\ step[e] = "idle" /\ MayStart(e)
    /\ ~halted /\ AccountOf[e] \notin accountHalt
    /\ lock' = IF e \in Manual THEN lock ELSE [lock EXCEPT ![AccountOf[e]] = e]
    /\ Becomes(e, "gated")
    /\ UNCHANGED <<haltVars, breached, bookVars, net, panicVars, faults, resumes>>

RefuseHalted(e) ==
    /\ step[e] = "idle" /\ MayStart(e)
    /\ halted \/ AccountOf[e] \in accountHalt
    /\ Becomes(e, "refused")
    /\ UNCHANGED <<haltVars, breached, lock, bookVars, net, panicVars, faults, resumes>>

RailClear(e) ==
    /\ step[e] = "gated"
    /\ AccountOf[e] \notin breached
    /\ Becomes(e, "cleared")
    /\ UNCHANGED <<haltVars, breached, lock, bookVars, net, panicVars, faults, resumes>>

Trips(e, a) ==
    /\ accountHalt' = accountHalt \cup {a}
    /\ trips' = [trips EXCEPT ![a] = @ + 1]
    /\ fl' = [fl EXCEPT ![e].phase = "tripped", ![e].scope = {a}]
    /\ Becomes(e, "tripping")
    /\ UNCHANGED lock

\* Mutant: whoever sees the breach flattens.
DailyLossRailBlind(e) ==
    LET a == AccountOf[e] IN
    /\ step[e] = "gated"
    /\ a \in breached
    /\ Trips(e, a)
    /\ UNCHANGED <<halted, breached, bookVars, net, order, faults, resumes>>

\* The daily-loss rail: the first to see the breach halts the account, in one
\* step with its check, and flattens it; the next one is refused.
DailyLossRail(e) ==
    LET a == AccountOf[e] IN
    /\ step[e] = "gated"
    /\ a \in breached
    /\ IF a \in accountHalt
       THEN Becomes(e, "refused") /\ Release(e) /\ UNCHANGED <<accountHalt, trips, fl>>
       ELSE Trips(e, a)
    /\ UNCHANGED <<halted, breached, bookVars, net, order, faults, resumes>>

\* The flatten of its trip is over, or had nothing to do: the entry is refused.
TripDone(e) ==
    /\ step[e] = "tripping" /\ fl[e].phase = "done"
    /\ Becomes(e, "refused") /\ Release(e)
    /\ UNCHANGED <<haltVars, breached, bookVars, net, panicVars, faults, resumes>>

Newest == Max({born[e] : e \in Entries})

\* The row is inserted open and the order goes out, in one step. A manual
\* order waits for the lock first.
SendEntry(e) ==
    /\ step[e] = "cleared"
    /\ lock[AccountOf[e]] \in {NoOne, e}
    /\ lock' = [lock EXCEPT ![AccountOf[e]] = e]
    /\ IF e \in Manual THEN UNCHANGED <<row, born>>
       ELSE /\ row'  = [row EXCEPT ![e] = [status |-> "open", opened |-> 1, closed |-> 0]]
            /\ born' = [born EXCEPT ![e] = Newest + 1]
    /\ Becomes(e, "sent")
    /\ UNCHANGED <<haltVars, breached, armed, managed, net, panicVars, faults, resumes>>

VenueFillsEntry(e) ==
    /\ step[e] = "sent"
    /\ net' = [net EXCEPT ![AccountOf[e]] = @ + 1]
    /\ Becomes(e, "filled")
    /\ UNCHANGED <<haltVars, breached, lock, bookVars, panicVars, faults, resumes>>

RejectEntry(e) ==
    /\ Fault
    /\ step[e] = "sent"
    /\ Becomes(e, "refused") /\ Release(e)
    /\ row' = IF e \in Manual THEN row ELSE [row EXCEPT ![e].status = "error", ![e].opened = 0]
    /\ UNCHANGED <<haltVars, breached, born, armed, managed, net, panicVars, resumes>>

\* Mutant: the fill is booked on top of the quantity the row was inserted with.
SettleEntryOnTop(e) ==
    /\ step[e] = "filled"
    /\ Becomes(e, "held") /\ Release(e)
    /\ IF e \in Manual THEN UNCHANGED <<row, armed, managed>>
       ELSE /\ row' = [row EXCEPT ![e].status = "open", ![e].opened = @ + 1]
            /\ armed' = armed \cup {e}
            /\ managed' = managed \cup {e}
    /\ UNCHANGED <<haltVars, breached, born, net, panicVars, faults, resumes>>

\* The fill is booked and the brackets are placed.
SettleEntry(e) ==
    /\ step[e] = "filled"
    /\ Becomes(e, "held") /\ Release(e)
    /\ IF e \in Manual THEN UNCHANGED <<row, armed, managed>>
       ELSE /\ row' = [row EXCEPT ![e].status = "open", ![e].opened = 1]
            /\ armed' = armed \cup {e}
            /\ managed' = managed \cup {e}
    /\ UNCHANGED <<haltVars, breached, born, net, panicVars, faults, resumes>>

----------------------------------------------------------------------------
(* Flattening *)

Begin(f, scope) ==
    fl' = [fl EXCEPT ![f].phase = "placing", ![f].scope = scope, ![f].todo = scope]

\* PANIC, with or without halt: the flag first, then every session.
PanicCloseAll(f, halt) ==
    /\ f \in Panics /\ fl[f].phase = "idle"
    /\ halted' = (halted \/ halt)
    /\ Begin(f, Accounts)
    /\ UNCHANGED <<accountHalt, trips, breached, entryVars, bookVars, net, order, faults, resumes>>

\* Mutant: the trip's flatten queues on the account's order lock, as a close does.
PanicCloseAccountLocked(f) ==
    /\ fl[f].phase = "tripped"
    /\ lock[AccountOf[f]] = NoOne
    /\ accountHalt' = accountHalt \cup fl[f].scope
    /\ Begin(f, fl[f].scope)
    /\ UNCHANGED <<halted, trips, breached, entryVars, bookVars, net, order, faults, resumes>>

\* The trip, once its module is loaded: the account is halted again, then flattened.
PanicCloseAccount(f) ==
    /\ fl[f].phase = "tripped"
    /\ accountHalt' = accountHalt \cup fl[f].scope
    /\ Begin(f, fl[f].scope)
    /\ UNCHANGED <<halted, trips, breached, entryVars, bookVars, net, order, faults, resumes>>

Flattening(f, a) == fl[f].phase = "placing" /\ fl[f].at = NoOne /\ a \in fl[f].todo

\* A session that is not connected, or whose getPositions fails, is passed over.
SkipSession(f, a) ==
    /\ Fault
    /\ Flattening(f, a)
    /\ fl' = [fl EXCEPT ![f].todo = @ \ {a}]
    /\ UNCHANGED <<haltVars, breached, entryVars, bookVars, net, order, resumes>>

ReadPosition(f, a) ==
    /\ Flattening(f, a)
    /\ fl' = [fl EXCEPT ![f].todo = @ \ {a},
                        ![f].at = IF net[a] = 0 THEN NoOne ELSE a,
                        ![f].size = net[a]]
    /\ UNCHANGED <<haltVars, breached, entryVars, bookVars, net, order, faults, resumes>>

\* A market order of the size read, on the other side.
PlaceClose(f) ==
    LET a == fl[f].at IN
    /\ a # NoOne
    /\ order' = [order EXCEPT ![f][a] = [state |-> "working", size |-> fl[f].size, fill |-> 0]]
    /\ fl' = [fl EXCEPT ![f].at = NoOne, ![f].placed = @ \cup {a}]
    /\ UNCHANGED <<haltVars, breached, entryVars, bookVars, net, faults, resumes>>

\* placeOrder throws; the order may be at the venue all the same.
PlaceCloseFails(f) ==
    LET a == fl[f].at IN
    /\ Fault
    /\ a # NoOne
    /\ \/ UNCHANGED order
       \/ order' = [order EXCEPT ![f][a] = [state |-> "working", size |-> fl[f].size, fill |-> 0]]
    /\ fl' = [fl EXCEPT ![f].at = NoOne, ![f].failed = TRUE]
    /\ UNCHANGED <<haltVars, breached, entryVars, bookVars, net, resumes>>

MagnitudeMin(x, y) == IF x > 0 THEN (IF x < y THEN x ELSE y) ELSE (IF x > y THEN x ELSE y)

\* Mutant: the adapter does not forward reduceOnly.
ReducibleUnflagged(a, size) == size

\* What a close of the given size takes off the position: with reduceOnly no
\* more than there is on that side.
Reducible(a, size) ==
    IF a \notin ReduceOnly THEN size
    ELSE IF size * net[a] <= 0 THEN 0 ELSE MagnitudeMin(size, net[a])

VenueFillsClose(f, a) ==
    LET qty == Reducible(a, order[f][a].size) IN
    /\ order[f][a].state = "working"
    /\ net' = [net EXCEPT ![a] = @ - qty]
    /\ order' = [order EXCEPT ![f][a].state = IF qty = 0 THEN "cancelled" ELSE "filled",
                              ![f][a].fill = qty]
    /\ UNCHANGED <<haltVars, breached, entryVars, bookVars, fl, faults, resumes>>

VenueRejectsClose(f, a) ==
    /\ Fault
    /\ order[f][a].state = "working"
    /\ order' = [order EXCEPT ![f][a].state = "cancelled"]
    /\ UNCHANGED <<haltVars, breached, entryVars, bookVars, net, fl, resumes>>

\* Every close is placed. The bookings start together, each reading first which
\* server-managed positions are on its account.
BeginBooking(f) ==
    /\ fl[f].phase = "placing" /\ fl[f].todo = {} /\ fl[f].at = NoOne
    /\ fl' = [fl EXCEPT ![f].phase = "booking", ![f].todo = fl[f].placed,
                        ![f].states = {e \in managed : /\ AccountOf[e] \in fl[f].placed
                                                       /\ row[e].status = "open"}]
    /\ UNCHANGED <<haltVars, breached, entryVars, bookVars, net, order, faults, resumes>>

----------------------------------------------------------------------------
(* Booking *)

Open(e) == row[e].status = "open" /\ row[e].opened > row[e].closed

\* planExitAttribution: the open executions of the account, newest first.
Attributed(a, qty) ==
    {e \in On(a) : Open(e) /\ Cardinality({n \in On(a) : Open(n) /\ born[n] > born[e]}) < qty}

\* The fill is booked, the protection of the ended positions retired, and the
\* server told of the ones it manages; a report that fails leaves them active.
Book(f, a, qty) ==
    LET closed == Attributed(a, qty)
        states == {e \in fl[f].states : AccountOf[e] = a}
    IN  /\ row' = [e \in Entries |-> IF e \in closed
                                     THEN [row[e] EXCEPT !.status = "closed", !.closed = @ + 1]
                                     ELSE row[e]]
        /\ armed' = armed \ (closed \cup states)
        /\ \/ managed' = managed \ states /\ UNCHANGED faults
           \/ Fault /\ states # {} /\ UNCHANGED managed

\* Mutant: an accepted close counts as a fill.
BookCloseOnAck(f, a) ==
    /\ fl[f].phase = "booking" /\ a \in fl[f].todo
    /\ Book(f, a, order[f][a].size)
    /\ fl' = [fl EXCEPT ![f].todo = @ \ {a}]
    /\ UNCHANGED <<haltVars, breached, entryVars, born, net, order, resumes>>

BookClose(f, a) ==
    /\ fl[f].phase = "booking" /\ a \in fl[f].todo
    /\ order[f][a].state = "filled"
    /\ Book(f, a, order[f][a].fill)
    /\ fl' = [fl EXCEPT ![f].todo = @ \ {a}]
    /\ UNCHANGED <<haltVars, breached, entryVars, born, net, order, resumes>>

\* Cancelled, rejected, or still working when the poll ends: nothing is touched.
LeaveUnconfirmed(f, a) ==
    /\ fl[f].phase = "booking" /\ a \in fl[f].todo
    /\ order[f][a].state # "filled"
    /\ order[f][a].state = "working" => Fault
    /\ order[f][a].state # "working" => UNCHANGED faults
    /\ fl' = [fl EXCEPT ![f].todo = @ \ {a}]
    /\ UNCHANGED <<haltVars, breached, entryVars, bookVars, net, order, resumes>>

Report(f) ==
    /\ fl[f].phase = "booking" /\ fl[f].todo = {}
    /\ fl' = [fl EXCEPT ![f].phase = "done"]
    /\ UNCHANGED <<haltVars, breached, entryVars, bookVars, net, order, faults, resumes>>

\* flat: no close failed. (Hedges, which PANIC skips, are not modelled.)
Flat(f) == fl[f].phase = "done" /\ ~fl[f].failed

----------------------------------------------------------------------------
EntryStep(e) ==
    \/ PassGate(e) \/ RefuseHalted(e) \/ RailClear(e) \/ DailyLossRail(e)
    \/ TripDone(e) \/ SendEntry(e) \/ SettleEntry(e)

FlattenStep(f) ==
    \/ PanicCloseAccount(f) \/ PlaceClose(f) \/ BeginBooking(f) \/ Report(f)
    \/ \E a \in Accounts : ReadPosition(f, a) \/ BookClose(f, a) \/ LeaveUnconfirmed(f, a)

VenueStep ==
    \/ \E e \in Entries : VenueFillsEntry(e)
    \/ \E f \in Flattens, a \in Accounts : VenueFillsClose(f, a)

Next ==
    \/ Resume \/ VenueStep
    \/ \E a \in Accounts : LossHits(a)
    \/ \E e \in Entries : EntryStep(e) \/ RejectEntry(e)
    \/ \E f \in Flattens :
         \/ FlattenStep(f) \/ PlaceCloseFails(f)
         \/ \E halt \in BOOLEAN : PanicCloseAll(f, halt)
         \/ \E a \in Accounts : SkipSession(f, a) \/ VenueRejectsClose(f, a)

Spec == Init /\ [][Next]_vars

\* Promises settle and the venue works its orders; the entry of a trip waits
\* for its own flatten only.
FairSpec ==
    /\ Spec
    /\ WF_vars(VenueStep)
    /\ \A e \in Entries : WF_vars(EntryStep(e))
    /\ \A f \in Flattens : WF_vars(FlattenStep(f))

----------------------------------------------------------------------------
(* Properties *)

\* "A concurrent open that also saw the breach must hit the halt, not flatten a
\* second time" (the daily-loss rail): one flatten per account and halt.
OneTripPerHalt == \A a \in Accounts : trips[a] <= 1

\* A trip closes and halts its own account only: an account with no loss of its
\* own, and no PANIC, keeps every contract and takes entries ("other venues and
\* accounts keep trading", daily-loss-trip.ts).
Bought(a) == Cardinality({e \in On(a) : step[e] \in {"filled", "held"}})
TripsStayLocal ==
    (\A f \in Panics : fl[f].phase = "idle") =>
        \A a \in Accounts \ breached : a \notin accountHalt /\ net[a] = Bought(a)

\* The daily loss of an account flattens it once per halt, and it alone.
OneLocalTrip == OneTripPerHalt /\ TripsStayLocal

\* A position none of whose closes is confirmed filled keeps its row, its stop
\* and its exit state ("its stops stay and the server is not told it's flat").
UnconfirmedTouchesNothing ==
    \A e \in Tracked :
        /\ step[e] = "held"
        /\ \A f \in Flattens : order[f][AccountOf[e]].state # "filled"
        => Open(e) /\ e \in armed /\ e \in managed

\* However many flattens overlap, none of them turns a position around where
\* the venue honours reduceOnly.
NeverReversed == \A a \in ReduceOnly : net[a] >= 0

UnderWay ==
    \/ \E f \in Flattens : fl[f].phase \notin {"idle", "done"}
    \/ \E e \in Entries : step[e] = "tripping"

\* Whatever flattens are under way, they all come to their reports, and the
\* entries that tripped the daily loss are answered: none waits for a lock that
\* another one holds.
FlattenReports == UnderWay ~> ~UnderWay

\* "Every position closed" (PanicReport.flat): where nothing failed and no
\* other entry was let in, an account of a flatten that reports flat is flat.
FlatMeansFlat ==
    \A f \in Flattens : (Flat(f) /\ faults = 0) =>
        \A a \in fl[f].scope \cap ReduceOnly :
            net[a] = 0 \/ \E e \in On(a) \ Held : step[e] \notin {"idle", "refused"}

\* Overlapping flattens turn no position around, one that reports flat left none,
\* and one that could not confirm its closes left everything as it was.
FlattensCleanly == NeverReversed /\ FlatMeansFlat /\ UnconfirmedTouchesNothing
=============================================================================
