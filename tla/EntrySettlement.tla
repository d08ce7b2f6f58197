-------------------------- MODULE EntrySettlement --------------------------
(***************************************************************************)
(* The life of an entry order in the executor: a `buy`/`sell` signal       *)
(* arrives (live or replayed), is opened at most once, is placed at the    *)
(* venue, settled, and, when its outcome stays unknown, chased by the      *)
(* reconciler's resolveUnknownOrders pass until the book is right.         *)
(*                                                                         *)
(* Source: node-backend/src/websocket/signal-client.ts (handleSignalInner, *)
(* processSignalForSub, settleEntry, resolveUnknownOrders),                *)
(* services/order-settlement.ts and storage/database.ts.                   *)
(*                                                                         *)
(* All signals share one venue, hence one order lock: the handler that     *)
(* holds it (holder, pc) is volatile; the tables signals (sig),            *)
(* signal_executions (exec), signal_fills (fills) and order_settlements    *)
(* (row) survive a crash; the venue's orders (ord, fill) are not ours.     *)
(***************************************************************************)
EXTENDS Naturals

CONSTANTS
    Signals,        \* ids of the entry signals
    NoSignal,       \* nobody holds the venue's order lock
    Qty,            \* contracts one entry asks for
    PartialState,   \* how the adapter reports a killed order that had a part fill
    LivePartial,    \* the adapter reports a resting part-filled order as such
    Throwing,       \* signals for which a step after the booking of the fill may throw
    Lossy           \* signals whose calls fail: the one POST of an ack, a week of lookups

ASSUME SignalsAssumption == NoSignal \notin Signals
ASSUME QtyAssumption     == Qty \in Nat \ {0}
ASSUME VenueAssumption   == /\ PartialState \in {"partially_filled", "cancelled"}
                            /\ LivePartial \in BOOLEAN
                            /\ Throwing \subseteq Signals
                            /\ Lossy \subseteq Signals

VARIABLES
    sig,      \* signals.status
    exec,     \* signal_executions: status and qty_opened ("none": no row)
    fills,    \* signal_fills: contracts booked as entry fills
    row,      \* order_settlements: status ("none": no row) and entry-attempt label
    age,      \* how long it has been unknown: 0, past 30 minutes (1), past 7 days (2)
    holder,   \* the signal whose handler holds the order lock
    pc,       \* where that handler is suspended
    inbox,    \* signals queued on the lock
    stale,    \* signals older than staleOpenWindowMs
    server,   \* the outcome the API was last told
    placed,   \* placeOrder requests sent to the venue
    ord,      \* the venue's order for the signal
    fill      \* contracts that order has filled

dbVars      == <<sig, exec, fills, row, age>>
handlerVars == <<holder, pc>>
venueVars   == <<placed, ord, fill>>
entryVars == <<dbVars, handlerVars, inbox, stale, server, venueVars>>

----------------------------------------------------------------------------
(* Types *)

SigStatus == {"none", "pending", "executed", "rejected", "expired"}
RowStatus == {"none", "unknown", "filled", "cancelled", "rejected", "lost"}
OrdState  == {"none", "inflight", "working", "filled", "cancelled", "rejected"}
Pc        == {"idle", "send", "reply", "poll", "cancel", "poll2", "tail"}

EntryTypeOK ==
    /\ sig    \in [Signals -> SigStatus]
    /\ exec   \in [Signals -> [status : {"none", "open", "error"}, opened : 0..Qty]]
    /\ fills  \in [Signals -> Nat]
    /\ row    \in [Signals -> [status : RowStatus, attempt : BOOLEAN]]
    /\ age    \in [Signals -> 0..2]
    /\ holder \in Signals \cup {NoSignal}
    /\ pc     \in Pc
    /\ inbox  \subseteq Signals
    /\ stale  \subseteq Signals
    /\ server \in [Signals -> {"none", "executed", "rejected"}]
    /\ placed \in [Signals -> Nat]
    /\ ord    \in [Signals -> OrdState]
    /\ fill   \in [Signals -> 0..Qty]

NoRow == [status |-> "none", attempt |-> FALSE]

EntryInit ==
    /\ sig    = [s \in Signals |-> "none"]
    /\ exec   = [s \in Signals |-> [status |-> "none", opened |-> 0]]
    /\ fills  = [s \in Signals |-> 0]
    /\ row    = [s \in Signals |-> NoRow]
    /\ age    = [s \in Signals |-> 0]
    /\ holder = NoSignal
    /\ pc     = "idle"
    /\ inbox  = {}
    /\ stale  = {}
    /\ server = [s \in Signals |-> "none"]
    /\ placed = [s \in Signals |-> 0]
    /\ ord    = [s \in Signals |-> "none"]
    /\ fill   = [s \in Signals |-> 0]

----------------------------------------------------------------------------
(* What getOrderStatus answers about an order the venue knows, and which   *)
(* answers the settlement loop takes as final.                             *)

Terminal == {"filled", "partially_filled", "cancelled", "rejected"}

Report(s) ==
    CASE ord[s] = "working"   -> IF LivePartial /\ fill[s] > 0 THEN "partially_filled" ELSE "working"
      [] ord[s] = "cancelled" -> IF fill[s] > 0 THEN PartialState ELSE "cancelled"
      [] ord[s] \in {"filled", "rejected"} -> ord[s]
      [] OTHER -> "unknown"

(* ackToApi: one POST, never repeated; it may not reach the server.        *)
Ack(s, outcome) ==
    \/ server' = [server EXCEPT ![s] = outcome]
    \/ s \in Lossy /\ UNCHANGED server

Release == holder' = NoSignal /\ pc' = "idle"

----------------------------------------------------------------------------
(* Delivery *)

\* A signal reaches the handler and queues on the order lock. The replay of
\* missed signals reads the local status here, before the lock is held.
Deliver(s) ==
    /\ s \notin stale
    /\ sig[s] # "executed"
    /\ inbox' = inbox \cup {s}
    /\ UNCHANGED <<dbVars, handlerVars, stale, server, venueVars>>

\* Nobody looks at the age of a signal that has executed.
GoStale(s) ==
    /\ s \notin stale
    /\ sig[s] # "executed"
    /\ stale' = stale \cup {s}
    /\ UNCHANGED <<dbVars, handlerVars, inbox, server, venueVars>>

\* A replayed entry older than the window is dropped without taking the lock.
\* recordSignal throws on an existing row, so only a new row reads 'expired'.
StaleReplay(s) ==
    /\ s \in stale
    /\ sig[s] # "executed"
    /\ sig' = IF sig[s] = "none" THEN [sig EXCEPT ![s] = "expired"] ELSE sig
    /\ Ack(s, "rejected")
    /\ UNCHANGED <<exec, fills, row, age, handlerVars, inbox, stale, venueVars>>

----------------------------------------------------------------------------
(* The handler, up to the order *)

TakeNext(s) == holder = NoSignal /\ s \in inbox /\ inbox' = inbox \ {s}

\* Some guard ahead of the idempotent insert (halt, caps, session, ...) refuses.
RefuseOpen(s) ==
    /\ TakeNext(s)
    /\ sig' = [sig EXCEPT ![s] = "rejected"]
    /\ Ack(s, "rejected")
    /\ UNCHANGED <<exec, fills, row, age, handlerVars, stale, venueVars>>

DuplicateOpen(s) ==
    /\ TakeNext(s)
    /\ exec[s].status # "none"
    /\ UNCHANGED <<dbVars, handlerVars, stale, server, venueVars>>

\* Mutant: the insert no longer collides on the signal id.
SeedOpenAgain(s) ==
    /\ TakeNext(s)
    /\ sig'  = IF sig[s] = "none" THEN [sig EXCEPT ![s] = "pending"] ELSE sig
    /\ exec' = [exec EXCEPT ![s] = [status |-> "open", opened |-> Qty]]
    /\ holder' = s
    /\ pc' = "send"
    /\ UNCHANGED <<fills, row, age, stale, server, venueVars>>

\* The execution is seeded open with the full quantity before the order exists.
SeedOpen(s) ==
    /\ TakeNext(s)
    /\ exec[s].status = "none"
    /\ sig'  = IF sig[s] = "none" THEN [sig EXCEPT ![s] = "pending"] ELSE sig
    /\ exec' = [exec EXCEPT ![s] = [status |-> "open", opened |-> Qty]]
    /\ holder' = s
    /\ pc' = "send"
    /\ UNCHANGED <<fills, row, age, stale, server, venueVars>>

SendOrder(s) ==
    /\ holder = s
    /\ pc = "send"
    /\ ord' = [ord EXCEPT ![s] = "inflight"]
    /\ placed' = [placed EXCEPT ![s] = @ + 1]
    /\ pc' = "reply"
    /\ UNCHANGED <<dbVars, holder, inbox, stale, server, fill>>

----------------------------------------------------------------------------
(* Outcomes of the handler *)

\* Mutant: the fill is added to the seeded quantity instead of replacing it.
BookEntryOnTop(s) ==
    /\ fills' = [fills EXCEPT ![s] = @ + fill[s]]
    /\ exec'  = [exec EXCEPT ![s].opened = @ + fill[s]]
    /\ pc' = "tail"
    /\ UNCHANGED <<sig, row, age, holder, inbox, stale, server, venueVars>>

\* Filled: book the fill and the real quantity, then place the brackets (tail).
BookEntry(s) ==
    /\ fills' = [fills EXCEPT ![s] = @ + fill[s]]
    /\ exec'  = [exec EXCEPT ![s] = [status |-> "open", opened |-> fill[s]]]
    /\ pc' = "tail"
    /\ UNCHANGED <<sig, row, age, holder, inbox, stale, server, venueVars>>

RejectEntry(s) ==
    /\ exec' = [exec EXCEPT ![s] = [status |-> "error", opened |-> 0]]
    /\ sig'  = [sig EXCEPT ![s] = "rejected"]
    /\ Ack(s, "rejected")
    /\ Release
    /\ UNCHANGED <<fills, row, age, inbox, stale, venueVars>>

\* Timeout: keep the execution at 0 and persist the unknown order; no ack.
TimeoutEntry(s) ==
    /\ exec' = [exec EXCEPT ![s].opened = 0]
    /\ row'  = [row EXCEPT ![s] = [status |-> "unknown", attempt |-> FALSE]]
    /\ age'  = [age EXCEPT ![s] = 0]
    /\ sig'  = [sig EXCEPT ![s] = "pending"]
    /\ Release
    /\ UNCHANGED <<fills, inbox, stale, server, venueVars>>

\* Mutant: a throw proves nothing was placed, so no row is kept.
FailEntryUntracked(s) ==
    /\ exec' = [exec EXCEPT ![s] = [status |-> "error", opened |-> 0]]
    /\ sig'  = [sig EXCEPT ![s] = "rejected"]
    /\ Ack(s, "rejected")
    /\ Release
    /\ UNCHANGED <<fills, row, age, inbox, stale, venueVars>>

\* A throw anywhere in the order block: book it failed, keep an entry-attempt row.
FailEntry(s) ==
    /\ exec' = [exec EXCEPT ![s] = [status |-> "error", opened |-> 0]]
    /\ row'  = [row EXCEPT ![s] = [status |-> "unknown", attempt |-> TRUE]]
    /\ age'  = [age EXCEPT ![s] = 0]
    /\ sig'  = [sig EXCEPT ![s] = "rejected"]
    /\ Ack(s, "rejected")
    /\ Release
    /\ UNCHANGED <<fills, inbox, stale, venueVars>>

----------------------------------------------------------------------------
(* The handler, from the order's answer on *)

PlaceThrows(s) ==
    /\ holder = s
    /\ pc \in {"send", "reply"}
    /\ FailEntry(s)

ReplyFilled(s) ==
    /\ holder = s
    /\ pc = "reply"
    /\ ord[s] = "filled"
    /\ BookEntry(s)

ReplyRejected(s) ==
    /\ holder = s
    /\ pc = "reply"
    /\ ord[s] = "rejected"
    /\ RejectEntry(s)

ReplyPending(s) ==
    /\ holder = s
    /\ pc = "reply"
    /\ ord[s] \in {"working", "filled", "cancelled"}
    /\ pc' = "poll"
    /\ UNCHANGED <<dbVars, holder, inbox, stale, server, venueVars>>

\* Mutant: a cancelled entry is booked whether or not it filled.
PollTerminalUnchecked(s) ==
    /\ holder = s
    /\ pc \in {"poll", "poll2"}
    /\ Report(s) \in Terminal
    /\ IF Report(s) = "rejected" THEN RejectEntry(s) ELSE BookEntry(s)

\* A poll of either window sees a final answer.
PollTerminal(s) ==
    /\ holder = s
    /\ pc \in {"poll", "poll2"}
    /\ Report(s) \in Terminal
    /\ IF Report(s) = "rejected" \/ fill[s] = 0 THEN RejectEntry(s) ELSE BookEntry(s)

\* The first window closes without one: cancel, then poll again.
PollTimeout(s) ==
    /\ holder = s
    /\ pc = "poll"
    /\ pc' = "cancel"
    /\ UNCHANGED <<dbVars, holder, inbox, stale, server, venueVars>>

CancelOrder(s) ==
    /\ holder = s
    /\ pc = "cancel"
    /\ \/ /\ ord[s] = "working"
          /\ ord' = [ord EXCEPT ![s] = "cancelled"]
       \/ UNCHANGED ord
    /\ pc' = "poll2"
    /\ UNCHANGED <<dbVars, holder, inbox, stale, server, placed, fill>>

SettleTimeout(s) ==
    /\ holder = s
    /\ pc = "poll2"
    /\ TimeoutEntry(s)

FinishEntry(s) ==
    /\ holder = s
    /\ pc = "tail"
    /\ sig' = [sig EXCEPT ![s] = "executed"]
    /\ Ack(s, "executed")
    /\ Release
    /\ UNCHANGED <<exec, fills, row, age, inbox, stale, venueVars>>

TailThrow(s) ==
    /\ s \in Throwing
    /\ holder = s
    /\ pc = "tail"
    /\ FailEntry(s)

----------------------------------------------------------------------------
(* resolveUnknownOrders, one row at a time, under the venue's order lock   *)

Unresolved(s) == row[s].status = "unknown"

\* Half an hour, then a week, passes. A request still on its way to the venue
\* arrives or dies long before.
Age(s) ==
    /\ Unresolved(s)
    /\ age[s] < 2
    /\ ord[s] # "inflight"
    /\ age' = [age EXCEPT ![s] = @ + 1]
    /\ UNCHANGED <<sig, exec, fills, row, handlerVars, inbox, stale, server, venueVars>>

\* Mutant: the row is left unknown, so the next pass applies it again.
ResolveAsUnmarked(s, status) ==
    /\ holder = NoSignal
    /\ Unresolved(s)
    /\ UNCHANGED <<row, age, handlerVars, inbox, stale, venueVars>>

ResolveAs(s, status) ==
    /\ holder = NoSignal
    /\ Unresolved(s)
    /\ row' = [row EXCEPT ![s].status = status]
    /\ age' = [age EXCEPT ![s] = 0]
    /\ UNCHANGED <<handlerVars, inbox, stale, venueVars>>

\* The venue confirms it has no order under the client id of a thrown entry.
ResolveAbsent(s) ==
    /\ row[s].attempt
    /\ age[s] >= 1
    /\ ord[s] \in {"none", "inflight"}
    /\ ResolveAs(s, "rejected")
    /\ UNCHANGED <<sig, exec, fills, server>>

\* No usable answer for a week: nothing known of the broker's own id, or no
\* lookup ever succeeded.
ResolveLost(s) ==
    /\ age[s] = 2
    /\ s \in Lossy \/ (Report(s) = "unknown" /\ ~row[s].attempt)
    /\ ResolveAs(s, "lost")
    /\ UNCHANGED <<sig, exec, fills, server>>

ResolveFilled(s) ==
    /\ Report(s) \in {"filled", "partially_filled"}
    /\ ResolveAs(s, "filled")
    /\ exec'  = [exec EXCEPT ![s] = [status |-> "open", opened |-> fill[s]]]
    /\ fills' = [fills EXCEPT ![s] = @ + fill[s]]
    /\ sig'   = [sig EXCEPT ![s] = "executed"]
    /\ Ack(s, "executed")

\* Mutant: only a cancelled order counts as terminal without a fill.
ResolveUnfilledCancelled(s) ==
    /\ Report(s) = "cancelled"
    /\ ResolveAs(s, Report(s))
    /\ exec' = [exec EXCEPT ![s] = [status |-> "error", opened |-> 0]]
    /\ sig'  = [sig EXCEPT ![s] = "rejected"]
    /\ Ack(s, "rejected")
    /\ UNCHANGED fills

ResolveUnfilled(s) ==
    /\ Report(s) \in {"cancelled", "rejected"}
    /\ ResolveAs(s, Report(s))
    /\ exec' = [exec EXCEPT ![s] = [status |-> "error", opened |-> 0]]
    /\ sig'  = [sig EXCEPT ![s] = "rejected"]
    /\ Ack(s, "rejected")
    /\ UNCHANGED fills

----------------------------------------------------------------------------
(* The venue and the process *)

VenueAccept(s) ==
    /\ ord[s] = "inflight"
    /\ \E st \in {"working", "rejected"} : ord' = [ord EXCEPT ![s] = st]
    /\ UNCHANGED <<dbVars, handlerVars, inbox, stale, server, placed, fill>>

\* The request is lost, or refused without an order coming to exist.
VenueDrop(s) ==
    /\ ord[s] = "inflight"
    /\ ord' = [ord EXCEPT ![s] = "none"]
    /\ UNCHANGED <<dbVars, handlerVars, inbox, stale, server, placed, fill>>

VenueFill(s) ==
    /\ ord[s] = "working"
    /\ \E n \in (fill[s] + 1)..Qty :
         /\ fill' = [fill EXCEPT ![s] = n]
         /\ ord'  = IF n = Qty THEN [ord EXCEPT ![s] = "filled"] ELSE ord
    /\ UNCHANGED <<dbVars, handlerVars, inbox, stale, server, placed>>

\* The venue, or somebody at the venue's own screen, kills the rest of it.
VenueCancel(s) ==
    /\ ord[s] = "working"
    /\ ord' = [ord EXCEPT ![s] = "cancelled"]
    /\ UNCHANGED <<dbVars, handlerVars, inbox, stale, server, placed, fill>>

\* The process dies and comes back: the lock, its queue and the handler go.
Crash ==
    /\ holder # NoSignal \/ inbox # {}
    /\ Release
    /\ inbox' = {}
    /\ UNCHANGED <<dbVars, stale, server, venueVars>>

HandlerStep(s) ==
    \/ SendOrder(s) \/ PlaceThrows(s) \/ ReplyFilled(s) \/ ReplyRejected(s)
    \/ ReplyPending(s) \/ PollTerminal(s) \/ PollTimeout(s) \/ CancelOrder(s)
    \/ SettleTimeout(s) \/ FinishEntry(s) \/ TailThrow(s)

ResolveStep(s) ==
    ResolveAbsent(s) \/ ResolveLost(s) \/ ResolveFilled(s) \/ ResolveUnfilled(s)

IntakeStep(s) ==
    \/ Deliver(s) \/ GoStale(s) \/ StaleReplay(s)
    \/ RefuseOpen(s) \/ DuplicateOpen(s) \/ SeedOpen(s)

VenueStep(s) == VenueAccept(s) \/ VenueDrop(s) \/ VenueFill(s) \/ VenueCancel(s)

EntryNext ==
    \/ \E s \in Signals :
         IntakeStep(s) \/ HandlerStep(s) \/ ResolveStep(s) \/ VenueStep(s) \/ Age(s)
    \/ Crash

EntrySpec == EntryInit /\ [][EntryNext]_entryVars

(* The handler's awaits return (every REST call has a timeout), the        *)
(* reconciler ticks on a timer and its lookups get an answer in the end,   *)
(* and time passes. Nothing is assumed of deliveries, the venue's orders   *)
(* or crashes, except that a request does not stay on the wire for ever.   *)
EntryFairness ==
    /\ WF_entryVars(\E s \in Signals : HandlerStep(s))
    /\ WF_entryVars(\E s \in Signals : ResolveStep(s))
    /\ WF_entryVars(\E s \in Signals : Age(s))
    /\ WF_entryVars(\E s \in Signals : VenueAccept(s) \/ VenueDrop(s))

EntryFairSpec == EntrySpec /\ EntryFairness

----------------------------------------------------------------------------
(* Properties *)

(* One placeOrder per signal id, however often the signal is delivered,    *)
(* replayed, raced against itself or interrupted by a crash.               *)
AtMostOnePlacement == \A s \in Signals : placed[s] <= 1

(* Every contract the venue has filled for a signal is either in the       *)
(* execution's qty_opened or still chased by a settlement row (a row given *)
(* up on as lost has raised its alert).                                    *)
NoInvisibleExposure ==
    \A s \in Signals :
        exec[s].opened >= fill[s] \/ row[s].status \in {"unknown", "lost"}

(* The entry fills booked for a signal never exceed what the venue filled: *)
(* the handler and the resolver do not both book the same order, unless a  *)
(* write fails behind the booking.                                         *)
NoDoubleBooking == \A s \in Signals \ Throwing : fills[s] <= fill[s]

(* The server hears `executed` only of an order the venue really filled.   *)
ExecutedAckMeansFill == \A s \in Signals : server[s] = "executed" => fill[s] > 0

(* A signal has one order, and is executed only if that order filled.      *)
OneRealOrder == AtMostOnePlacement /\ ExecutedAckMeansFill

(* An order whose outcome became unknown is settled with the venue's       *)
(* answer in the end, once the venue is done with it: no row stays         *)
(* unresolved for ever, whatever else competes for the order lock, and     *)
(* whatever is lost of another signal's calls.                             *)
UnknownIsResolved ==
    \A s \in Signals \ Lossy :
        (Unresolved(s) /\ ord[s] \notin {"inflight", "working"})
            ~> row[s].status \in {"filled", "cancelled", "rejected"}

=============================================================================
