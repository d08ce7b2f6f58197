--------------------------- MODULE AccumulateRide ---------------------------
(***************************************************************************)
(* A plan that accumulates and rides: rungs rest below the market, and at  *)
(* a breakout they are cancelled, an entry may be bought, the position is  *)
(* handed over to a ride and a new ladder is placed. A decision is kept in *)
(* the plan's row and run action by action; an action that throws or a     *)
(* restart leaves the rest to the next minute's tick. Beside the tick      *)
(* there are the operator's stop, the floor that fires on the instrument,  *)
(* the reconciler's sweep of the resting rungs, and the venue.             *)
(*                                                                         *)
(* Source: node-backend/src/services/accumulate-ride-service.ts and        *)
(* accumulate-ride-store.ts, packages/types/src/trading/accumulate-ride.ts,*)
(* ride-handover.ts, the rung sweeps of signal-client.ts and the floor of  *)
(* synthetic-guard.ts. Venue, market and user are external.                *)
(* One long plan on one market, alone or beside the ride of another plan,  *)
(* whose contracts are a number (parent). The decision is started outside  *)
(* the tick by create only. Prices are left out, and with them the stop of *)
(* a ride (see ExitStop), the manual marker, and the orphaned stops of     *)
(* failed swaps.                                                           *)
(***************************************************************************)
EXTENDS Integers, Sequences, FiniteSets, FiniteSetsExt, ContractCount

CONSTANTS
    Seqs,         \* ladders of the plan: 1..n, the bound of the breakouts
    Ladder,       \* the rungs of a ladder, 1..k
    Size,         \* contracts of a rung
    Starts,       \* the plans to explore: [phase, base, parent]
    MaxFaults     \* failed calls and restarts

ASSUME AccumulateRideAssumption ==
    /\ IsFiniteSet(Seqs) /\ Seqs = 1..Cardinality(Seqs) /\ 1 \in Seqs
    /\ IsFiniteSet(Ladder) /\ Ladder = 1..Cardinality(Ladder)
    /\ Size \in [Ladder -> Nat \ {0}]
    /\ Starts \subseteq [phase : {"ladder", "armed", "waiting"}, base : Nat, parent : Nat]
    /\ MaxFaults \in Nat

VARIABLES
    plan,     \* accumulate_plans: the plan's row, see TypeOK
    slip,     \* accumulate_rungs: state of a rung's row
    track,    \* dca_resting_rungs: what a fill is booked on, and what was booked
    ord,      \* venue: rung orders
    fill,     \* venue: contracts filled on them
    bought,   \* market entries, by ladder: filled at the venue; in order_settlements; there as rejected
    ride,     \* the execution of the plan's ride: contracts opened and not closed
    parent,   \* contracts of another plan's ride
    guard,    \* venue: the reduce-only stop for fills nobody rides
    net,      \* venue: the position
    base,     \* history: contracts the user had before
    proc,     \* the tick (or a settle), the operator's stop and the floor, as far as they got
    sweep,    \* the rung whose status the sweep waits for
    faults,   \* failed calls and restarts so far
    ways      \* history: the ways in which things came apart, see Ways

rungs == <<slip, track, ord, fill>>
venue == <<bought, ride, parent, guard, net, base>>
vars  == <<plan, rungs, venue, proc, sweep, faults, ways>>

Rungs == Seqs \X Ladder
Procs == {"tick", "stop", "floor"}

\* overwritten: the plan was stopped under a tick that went on; orphan: it was stopped when
\* something a cut-short action did is not on record; skipped: the floor stopped it with a rung
\* of an earlier ladder open, which its settle does not look at; swallowed: a fill was dropped with
\* its rung; twice: sweep and cancel booked one fill; replayed: a fill was booked again when
\* the ladder was placed again; again: a rung that was cut short by a stop that failed was
\* placed again; part: a part fill at placement was taken for booked; late: a
\* rung filled into a ride that had ended; stale: the position read for a hand-over changed;
\* gone: it was closed before the hand-over; refused: no stop could be placed for the fills;
\* erased: the floor wrote cancelled over the fill of a rung of an earlier ladder; ghost: an
\* entry that did not fill counted as bought.
Ways == {"overwritten", "orphan", "skipped", "swallowed", "twice", "replayed", "part", "late", "stale",
         "again", "gone", "refused", "erased", "ghost"}
Way(w, happened) == IF happened THEN {w} ELSE {}

NoPend == [acts |-> << >>, done |-> 0, next |-> "none"]
NoRow  == [on |-> "none", got |-> 0]
NoStop == [st |-> "none", qty |-> 0]
Idle   == [step |-> "idle", todo |-> {}, open |-> {}, pend |-> NoPend, n |-> 0]
NoAsk  == [rung |-> << >>, on |-> "none", was |-> 0]

TypeOK ==
    /\ plan.phase \in {"ladder", "armed", "waiting", "riding", "stopped", "closed"}
    /\ plan.seq \in Seqs \cup {0}
    /\ plan.pend.done <= Len(plan.pend.acts)
    /\ plan.ride \in BOOLEAN /\ plan.ended \in BOOLEAN /\ plan.entry \in {0, 1}
    /\ plan.settle \in {"none", "pending", "done"} /\ plan.stop \in {"none", "set", "orphan"}
    /\ slip \in [Rungs -> {"none", "open", "filled", "cancelled"}]
    /\ \A r \in Rungs : track[r].on \in {"none", "marker", "ride"} /\ track[r].got \in 0..Size[r[2]]
    /\ ord \in [Rungs -> {"none", "working", "filled", "cancelled"}]
    /\ \A r \in Rungs : fill[r] \in 0..Size[r[2]] /\ (ord[r] = "filled" <=> fill[r] = Size[r[2]])
    /\ bought.venue \cup bought.row \subseteq Seqs
    /\ bought.refused \subseteq Seqs \ (bought.venue \cup bought.row)
    /\ ride.st \in {"none", "open", "ended"} /\ ride.qty \in Nat
    /\ {parent, net, base} \subseteq Nat
    /\ guard.st \in {"none", "working", "filled", "cancelled"}
    /\ \A p \in Procs : proc[p].step \in {"idle", "look", "run", "cancel", "market", "refused",
                                         "handover", "handed", "ladder", "settle", "protect"}
    /\ faults \in 0..MaxFaults
    /\ ways \subseteq Ways

\* create and maybeRearm: the row is inserted with its first ladder to place; a plan without
\* a position waits for its breakout with no ladder.
Init ==
    /\ \E s \in Starts :
        /\ plan = [phase |-> s.phase, seq |-> IF s.phase = "waiting" THEN 0 ELSE 1,
                   pend |-> IF s.phase = "waiting" THEN NoPend
                            ELSE [acts |-> <<"ladder">>, done |-> 0, next |-> s.phase],
                   ride |-> FALSE, ended |-> FALSE, entry |-> 0, settle |-> "none", stop |-> "none"]
        /\ parent = s.parent /\ base = s.base /\ net = s.base + s.parent
    /\ slip = [r \in Rungs |-> "none"] /\ track = [r \in Rungs |-> NoRow]
    /\ ord = [r \in Rungs |-> "none"] /\ fill = [r \in Rungs |-> 0]
    /\ bought = [venue |-> {}, row |-> {}, refused |-> {}]
    /\ ride = [st |-> "none", qty |-> 0]
    /\ guard = NoStop
    /\ proc = [p \in Procs |-> Idle]
    /\ sweep = NoAsk
    /\ faults = 0
    /\ ways = {}

Fault   == faults < MaxFaults /\ faults' = faults + 1
NoFault == UNCHANGED faults
Becomes(p, r) == proc' = [proc EXCEPT ![p] = r]
Ends(p)       == Becomes(p, Idle)

Tracked(r) == track[r].on # "none"
Stopped    == plan.phase \in {"stopped", "closed"}
Pending    == plan.pend # NoPend
ToDo(act)  == \E i \in DOMAIN plan.pend.acts : i > plan.pend.done /\ plan.pend.acts[i] = act
Ridden     == parent + IF ride.st = "open" THEN ride.qty ELSE 0

\* ownTranche: what the plan bought itself since its last ride
Own ==
    plan.entry + IF plan.ended THEN 0
                 ELSE Sum([r \in Rungs |-> IF slip[r] = "filled" THEN fill[r] ELSE 0])

\* Contracts filled on the ride's rungs that the sweep has not seen yet.
Unswept == Sum([r \in Rungs |-> IF track[r].on = "ride" THEN fill[r] - track[r].got ELSE 0])

----------------------------------------------------------------------------
(* Booking a rung's fill: what is past the row that was read is new *)

Ask(r)        == [rung |-> r, on |-> track[r].on, was |-> track[r].got]
News(x)       == fill[x.rung] - x.was
Book(x, n)    == ride' = IF x.on = "ride" THEN [ride EXCEPT !.qty = @ + n] ELSE ride
Misbooked(x, n) ==
    IF n = 0 THEN {}
    ELSE Way("twice", track[x.rung] # [on |-> x.on, got |-> x.was])
         \cup Way("late", x.on = "ride" /\ ride.st # "open")
Drop(x)       == track' = [track EXCEPT ![x.rung] = NoRow]
Advance(x, n) == track' = IF Tracked(x.rung) THEN [track EXCEPT ![x.rung].got = x.was + n] ELSE track

\* expireDcaRungs: the status is awaited with the row in hand.
SweepAsks(r) ==
    /\ sweep = NoAsk /\ Tracked(r) /\ (fill[r] > track[r].got \/ ord[r] # "working")
    /\ sweep' = Ask(r)
    /\ UNCHANGED <<plan, rungs, venue, proc, faults, ways>>

SweepBooks ==
    /\ sweep # NoAsk
    /\ Book(sweep, News(sweep))
    /\ IF ord[sweep.rung] = "working" THEN Advance(sweep, News(sweep)) ELSE Drop(sweep)
    /\ ways' = ways \cup Misbooked(sweep, News(sweep))
    /\ sweep' = NoAsk
    /\ UNCHANGED <<plan, slip, ord, fill, bought, parent, guard, net, base, proc, faults>>

----------------------------------------------------------------------------
(* Cancelling rungs: cancelRestingDcaRungsForSignals, one rung at a time *)

\* The cancel went through, or failed on an order that had ended: what it filled is booked.
CancelRung(p, x) ==
    /\ proc[p].step \in {"cancel", "settle"} /\ x \in proc[p].todo
    /\ ord' = [ord EXCEPT ![x.rung] = IF @ = "working" THEN "cancelled" ELSE @]
    /\ Book(x, News(x))
    /\ Drop(x)
    /\ ways' = ways \cup Misbooked(x, News(x))
    /\ Becomes(p, [proc[p] EXCEPT !.todo = @ \ {x}])
    /\ UNCHANGED <<plan, slip, fill, bought, parent, guard, net, base, sweep, faults>>

\* The cancel went through and the lookup after it failed: best effort, nothing is booked.
CancelUnread(p, x) ==
    /\ proc[p].step \in {"cancel", "settle"} /\ x \in proc[p].todo /\ ord[x.rung] = "working"
    /\ Fault
    /\ ord' = [ord EXCEPT ![x.rung] = "cancelled"]
    /\ Drop(x)
    /\ ways' = ways \cup Way("swallowed", News(x) > 0)
    /\ Becomes(p, [proc[p] EXCEPT !.todo = @ \ {x}])
    /\ UNCHANGED <<plan, slip, fill, venue, sweep>>

\* The cancel failed and the order still works, or cannot be read: the row is kept.
CancelFails(p, x) ==
    /\ proc[p].step \in {"cancel", "settle"} /\ x \in proc[p].todo
    /\ Fault
    /\ \/ ord[x.rung] = "working" /\ Book(x, News(x)) /\ Advance(x, News(x))
          /\ ways' = ways \cup Misbooked(x, News(x))
       \/ UNCHANGED <<ride, track, ways>>
    /\ Becomes(p, [proc[p] EXCEPT !.todo = @ \ {x}])
    /\ UNCHANGED <<plan, slip, ord, fill, bought, parent, guard, net, base, sweep>>

\* confirmGoneRungs over rs: rows are settled by what the venue says of their orders; one
\* that still works untracked is pulled and keeps the caller waiting, as does a tracked one.
Ended(r) == ~Tracked(r) /\ ord[r] \in {"filled", "cancelled"}
\* Mutant: a rung whose row is gone was cancelled.
SettledCancelled(rs) ==
    slip' = [r \in Rungs |-> IF r \in rs /\ Ended(r) THEN "cancelled" ELSE slip[r]]
Settled(rs) ==
    slip' = [r \in Rungs |-> IF r \in rs /\ Ended(r)
                             THEN IF fill[r] > 0 THEN "filled" ELSE "cancelled"
                             ELSE slip[r]]
Pulled(rs) ==
    ord' = [r \in Rungs |-> IF r \in rs /\ ~Tracked(r) /\ ord[r] = "working" THEN "cancelled" ELSE ord[r]]
Confirmed(rs) == \A r \in rs : Ended(r)
OpenRungs == {r \in Rungs : slip[r] = "open"}

\* cancelRungs: a tracked rung left over throws before anything is pulled.
Confirm(rs) == Settled(rs) /\ IF \E r \in rs : Tracked(r) THEN UNCHANGED ord ELSE Pulled(rs)

----------------------------------------------------------------------------
(* The tick: decide *)

\* What a cut-short action did and no row says: a rung, an entry, a ride.
Unrecorded ==
    \/ \E r \in Rungs : slip[r] = "none" /\ (ord[r] = "working" \/ fill[r] > 0)
    \/ plan.seq \in bought.venue /\ ToDo("market")
    \/ ride.st = "open" /\ ~plan.ride

\* tickPlan on a live plan: syncRungs reads the rungs whose row is gone.
TickStarts ==
    /\ proc["tick"].step = "idle" /\ ~Stopped
    /\ Settled(OpenRungs)
    /\ Becomes("tick", [Idle EXCEPT !.step = "look"])
    /\ UNCHANGED <<plan, track, ord, fill, venue, sweep, faults, ways>>

\* A decision that is kept is taken up where it stopped.
Resume ==
    /\ proc["tick"].step = "look" /\ Pending
    /\ Becomes("tick", [Idle EXCEPT !.step = "run", !.pend = plan.pend])
    /\ UNCHANGED <<plan, rungs, venue, sweep, faults, ways>>

\* The actions of a breakout, and the phase they end in.
Breakout(phase) ==
    CASE phase = "ladder"  -> <<"cancel", "handover", "ladder">>
      [] phase = "armed"   -> <<"cancel", "market", "handover", "ladder">>
      [] phase = "waiting" -> <<"market", "handover", "ladder">>
      [] phase = "riding"  -> <<"cancel", "ladder">>
      [] OTHER             -> << >>

\* begin: the ladder's number and the decision are written over whatever the plan is now.
Begin(acts, next) ==
    LET needsSeq == \E i \in DOMAIN acts : acts[i] \in {"ladder", "market"}
        decision == [acts |-> acts, done |-> 0, next |-> next]
    IN  /\ needsSeq => plan.seq + 1 \in Seqs
        /\ plan' = [plan EXCEPT !.seq = IF needsSeq THEN @ + 1 ELSE @, !.pend = decision]
        /\ Becomes("tick", [Idle EXCEPT !.step = "run", !.pend = decision])

\* rideActiveFor: a plan with a ride of its own follows that one.
RideOver(phase) == phase = "riding" /\ ride.st # "open"
PositionGone(phase) == phase = "ladder" /\ net = 0

Decide ==
    /\ proc["tick"].step = "look" /\ ~Stopped /\ ~Pending
    /\ IF RideOver(plan.phase) \/ PositionGone(plan.phase)
       THEN Begin(<<"cancel">>, "waiting")
       ELSE Begin(Breakout(plan.phase), "riding")
    /\ UNCHANGED <<rungs, venue, sweep, faults, ways>>

\* No bar, no breakout, or a reading that failed; and a plan that was stopped since the tick
\* read it, on which the code decides all the same and which is followed no further.
NothingToDo ==
    /\ proc["tick"].step = "look" /\ ~Pending
    /\ Stopped \/ ~(RideOver(plan.phase) \/ PositionGone(plan.phase))
    /\ Ends("tick")
    /\ UNCHANGED <<plan, rungs, venue, sweep, faults, ways>>

----------------------------------------------------------------------------
(* The tick: runPending *)

Mem == proc["tick"].pend
Act == IF Mem.done < Len(Mem.acts) THEN Mem.acts[Mem.done + 1] ELSE "commit"

\* An action throws: what is left stays pending.
TickFails ==
    /\ proc["tick"].step \in {"run", "market", "refused", "handover", "handed", "ladder", "settle", "protect"}
    /\ Fault
    /\ Ends("tick")
    /\ UNCHANGED <<plan, rungs, venue, sweep, ways>>

\* Mutant: an action counts twice.
ProgressTwice == [Mem EXCEPT !.done = @ + 2]
\* setPending: the copy the tick holds is written, whatever the row says by now.
Progress == [Mem EXCEPT !.done = @ + 1]
ActionDone(row) ==
    /\ plan' = [row EXCEPT !.pend = Progress]
    /\ Becomes("tick", [Idle EXCEPT !.step = "run", !.pend = Progress])

CancelRungs ==
    /\ proc["tick"].step = "run" /\ Act = "cancel"
    /\ Becomes("tick", [proc["tick"] EXCEPT !.step = "cancel",
                        !.todo = {Ask(r) : r \in {o \in OpenRungs : Tracked(o)}}])
    /\ UNCHANGED <<plan, rungs, venue, sweep, faults, ways>>

RungsCancelled ==
    /\ proc["tick"].step = "cancel" /\ proc["tick"].todo = {}
    /\ Confirm(OpenRungs)
    /\ IF Confirmed(OpenRungs) THEN ActionDone(plan) ELSE Ends("tick") /\ UNCHANGED plan
    /\ UNCHANGED <<track, fill, venue, sweep, faults, ways>>

AtEntry  == proc["tick"].step = "run" /\ Act = "market"
Recorded == plan.seq \in bought.row \cup bought.refused

\* Mutant: an entry that is on record is an error.
EntryOnRecordThrows ==
    /\ AtEntry /\ Recorded
    /\ Ends("tick")
    /\ UNCHANGED <<plan, rungs, venue, sweep, faults, ways>>

\* marketEntry, where the entry is in order_settlements under its key: it is not placed again.
\* One that was rejected throws, at this tick and at each later one; any other is bought.
EntryOnRecord ==
    /\ AtEntry /\ Recorded
    /\ IF plan.seq \in bought.refused
       THEN Ends("tick") /\ UNCHANGED plan
       ELSE ActionDone([plan EXCEPT !.entry = 1])
    /\ ways' = ways \cup Way("ghost", plan.seq \in bought.row \ bought.venue)
    /\ UNCHANGED <<rungs, venue, sweep, faults>>

\* It is placed, filled and recorded; the venue knows by its label one whose answer was lost.
MarketEntry ==
    /\ AtEntry /\ ~Recorded
    /\ net' = IF plan.seq \in bought.venue THEN net ELSE net + 1
    /\ bought' = [bought EXCEPT !.venue = @ \cup {plan.seq}, !.row = @ \cup {plan.seq}]
    /\ Becomes("tick", [proc["tick"] EXCEPT !.step = "market"])
    /\ UNCHANGED <<plan, rungs, ride, parent, guard, base, sweep, faults, ways>>

\* It is recorded and did not fill: refused by the venue, or accepted and ended, which counts
\* as bought all the same.
EntryUnfilled ==
    /\ AtEntry /\ ~Recorded /\ plan.seq \notin bought.venue
    /\ bought' = [bought EXCEPT !.row = @ \cup {plan.seq}]
    /\ \/ Becomes("tick", [proc["tick"] EXCEPT !.step = "refused"]) /\ UNCHANGED ways
       \/ Becomes("tick", [proc["tick"] EXCEPT !.step = "market"]) /\ ways' = ways \cup {"ghost"}
    /\ UNCHANGED <<plan, rungs, ride, parent, guard, net, base, sweep, faults>>

Rejects(s) == bought' = [bought EXCEPT !.row = @ \ {s}, !.refused = @ \cup {s}]

\* The refusal is settled, resolved as rejected, and thrown; or, after a restart, resolved by
\* resolveUnknownOrders.
EntryRejected ==
    /\ proc["tick"].step = "refused"
    /\ Rejects(plan.seq)
    /\ Ends("tick")
    /\ UNCHANGED <<plan, rungs, ride, parent, guard, net, base, sweep, faults, ways>>
EntryResolved(s) ==
    /\ s \in bought.row \ bought.venue
    /\ Rejects(s)
    /\ UNCHANGED <<plan, rungs, ride, parent, guard, net, base, proc, sweep, faults, ways>>

\* The order filled and its answer was lost.
MarketEntryLost ==
    /\ AtEntry /\ ~Recorded /\ plan.seq \notin bought.venue
    /\ Fault
    /\ net' = net + 1
    /\ bought' = [bought EXCEPT !.venue = @ \cup {plan.seq}]
    /\ Ends("tick")
    /\ UNCHANGED <<plan, rungs, ride, parent, guard, base, sweep, ways>>

MarketSettled ==
    /\ proc["tick"].step = "market"
    /\ ActionDone([plan EXCEPT !.entry = 1])
    /\ UNCHANGED <<rungs, venue, sweep, faults, ways>>

\* handOver reads the position: beside the ride of another plan only what this plan bought is
\* handed over; alone, all of it. A ride that an interrupted hand-over left is taken.
HandOver ==
    /\ proc["tick"].step = "run" /\ Act = "handover"
    /\ LET qty == IF parent > 0 THEN Own ELSE net
       IN  IF parent = 0 /\ ride.st = "open"
           THEN ActionDone([plan EXCEPT !.ride = TRUE])
           ELSE /\ IF qty = 0 \/ qty > net
                   THEN Ends("tick")
                   ELSE Becomes("tick", [proc["tick"] EXCEPT !.step = "handover", !.n = qty])
                /\ UNCHANGED plan
    /\ UNCHANGED <<rungs, venue, sweep, faults, ways>>

\* handover, under the lock: the server has the ride, its execution is written. Where only
\* what the plan bought is handed over, the contracts the user had before stay his.
HandedOver ==
    /\ proc["tick"].step = "handover"
    /\ ride' = IF ride.st = "open" THEN ride ELSE [st |-> "open", qty |-> proc["tick"].n]
    /\ base' = IF proc["tick"].n = Own THEN base ELSE 0
    /\ ways' = ways \cup Way("stale", proc["tick"].n > net - parent)
    /\ Becomes("tick", [proc["tick"] EXCEPT !.step = "handed"])
    /\ UNCHANGED <<plan, rungs, bought, parent, guard, net, sweep, faults>>

RideRecorded ==
    /\ proc["tick"].step = "handed"
    /\ ActionDone([plan EXCEPT !.ride = TRUE])
    /\ UNCHANGED <<rungs, venue, sweep, faults, ways>>

PlaceLadder ==
    /\ proc["tick"].step = "run" /\ Act = "ladder"
    /\ Becomes("tick", [proc["tick"] EXCEPT !.step = "ladder", !.n = 1])
    /\ UNCHANGED <<plan, rungs, venue, sweep, faults, ways>>

Rung     == <<plan.seq, proc["tick"].n>>
NextRung == Becomes("tick", [proc["tick"] EXCEPT !.n = @ + 1])
RungOn   == IF plan.ride THEN "ride" ELSE "marker"

\* An order the venue knows by its label is not placed again unless it was cancelled; a new
\* one may fill at once.
Reply(k) ==
    LET r == Rung
    IN  IF ord[r] \in {"none", "cancelled"}
        THEN /\ k \in 0..Size[r[2]]
             /\ ord'  = [ord EXCEPT ![r] = IF k = Size[r[2]] THEN "filled" ELSE "working"]
             /\ fill' = [fill EXCEPT ![r] = k]
             /\ net'  = net + k
        ELSE k = fill[r] /\ UNCHANGED <<ord, fill, net>>

\* The answer is booked: a fill goes to the ride at once, a part of one to the row only.
PlaceRung(k) ==
    /\ proc["tick"].step = "ladder" /\ Rung[2] \in Ladder
    /\ Reply(k)
    /\ LET r == Rung
           filled == ord'[r] = "filled"
           new == ~filled /\ ~Tracked(r)
       IN  /\ slip'  = [slip EXCEPT ![r] = IF filled THEN "filled" ELSE "open"]
           /\ track' = IF new THEN [track EXCEPT ![r] = [on |-> RungOn, got |-> k]] ELSE track
           /\ ride'  = IF filled /\ plan.ride THEN [ride EXCEPT !.qty = @ + k] ELSE ride
           /\ ways'  = ways \cup Way("replayed", filled /\ plan.ride /\ slip[r] # "none")
                            \cup Way("part", new /\ plan.ride /\ k > 0)
                            \cup Way("again", ord[r] = "cancelled" /\ fill[r] > 0)
                            \cup Way("late", filled /\ plan.ride /\ ride.st # "open")
    /\ NextRung
    /\ UNCHANGED <<plan, bought, parent, guard, base, sweep, faults>>

\* The venue refused the rung: it is skipped. Or the order rests and its answer was lost.
RungRejected ==
    /\ proc["tick"].step = "ladder" /\ Rung[2] \in Ladder /\ ord[Rung] = "none"
    /\ Fault
    /\ NextRung
    /\ UNCHANGED <<plan, rungs, venue, sweep, ways>>
RungLost ==
    /\ proc["tick"].step = "ladder" /\ Rung[2] \in Ladder /\ ord[Rung] = "none"
    /\ Fault
    /\ ord' = [ord EXCEPT ![Rung] = "working"]
    /\ Ends("tick")
    /\ UNCHANGED <<plan, slip, track, fill, venue, sweep, ways>>

LadderPlaced ==
    /\ proc["tick"].step = "ladder" /\ Rung[2] \notin Ladder
    /\ ActionDone(plan)
    /\ UNCHANGED <<rungs, venue, sweep, faults, ways>>

\* Every action done: the next phase is written. A plan whose ride ended is closed where
\* another one waits on the market.
Commit ==
    /\ proc["tick"].step = "run" /\ Mem # NoPend /\ Act = "commit"
    /\ \E phase \in IF Mem.next = "waiting" THEN {"waiting", "closed"} ELSE {Mem.next} :
        LET leaving == plan.phase = "riding" /\ Mem.next # "riding"
        IN  plan' = [plan EXCEPT
                !.phase = phase, !.pend = NoPend,
                !.ended = @ \/ leaving,
                !.entry = IF Mem.next = "riding" /\ plan.phase # "riding" THEN 0 ELSE @,
                !.ride  = @ /\ ~leaving /\ Mem.next # "waiting"]
    /\ Ends("tick")
    /\ UNCHANGED <<rungs, venue, sweep, faults, ways>>

----------------------------------------------------------------------------
(* The operator's stop and the floor *)

StopStarts ==
    /\ proc["stop"].step = "idle" /\ proc["floor"].step = "idle" /\ plan.phase # "stopped"
    /\ Becomes("stop", [Idle EXCEPT !.step = "cancel",
                        !.todo = {Ask(r) : r \in {o \in OpenRungs : Tracked(o)}}])
    /\ UNCHANGED <<plan, rungs, venue, sweep, faults, ways>>

InDecision == proc["tick"].step \notin {"idle", "settle", "protect"}
StopsPlan  == Way("overwritten", InDecision) \cup Way("orphan", Unrecorded)

\* stop: with every rung gone the plan is stopped, and what was decided is dropped.
StopEnds ==
    /\ proc["stop"].step = "cancel" /\ proc["stop"].todo = {}
    /\ Confirm(OpenRungs)
    /\ IF Confirmed(OpenRungs)
       THEN plan' = [plan EXCEPT !.phase = "stopped", !.pend = NoPend]
            /\ ways' = ways \cup StopsPlan
       ELSE UNCHANGED <<plan, ways>>
    /\ Ends("stop")
    /\ UNCHANGED <<track, fill, venue, sweep, faults>>

\* cancelFloorRungs: the plan that waits for a breakout, its rungs and those before its ride.
FloorFires ==
    /\ proc["stop"].step = "idle" /\ proc["floor"].step = "idle" /\ plan.phase \in {"ladder", "armed", "waiting"}
    /\ LET rs == {r \in Rungs : Tracked(r) /\ (track[r].on = "marker" \/ slip[r] = "open")}
       IN  Becomes("floor", [Idle EXCEPT !.step = "cancel", !.todo = {Ask(r) : r \in rs},
                                 !.open = {r \in rs : slip[r] = "open"}])
    /\ UNCHANGED <<plan, rungs, venue, sweep, faults, ways>>

\* Rungs that were open at the fire and whose row is gone are written cancelled, whatever they
\* are by now; the settle finds out, at once unless a tick of the plan is under way.
FloorStops ==
    /\ proc["floor"].step = "cancel" /\ proc["floor"].todo = {}
    /\ slip' = [r \in Rungs |-> IF r \in proc["floor"].open /\ ~Tracked(r) THEN "cancelled" ELSE slip[r]]
    /\ plan' = [plan EXCEPT !.phase = "stopped", !.pend = NoPend, !.settle = "pending"]
    /\ ways' = ways \cup StopsPlan
                \cup Way("skipped", \E r \in OpenRungs : r[1] # plan.seq)
                \cup Way("erased", \E r \in proc["floor"].open :
                                     ~Tracked(r) /\ slip[r] = "filled" /\ r[1] # plan.seq)
    /\ Ends("floor")
    /\ UNCHANGED <<track, ord, fill, venue, sweep, faults>>

----------------------------------------------------------------------------
(* Settling what the floor stopped *)

Unsure == {r \in Rungs : r[1] = plan.seq /\ slip[r] \in {"open", "cancelled"}}

SettleStarts ==
    /\ proc["tick"].step = "idle" /\ plan.phase = "stopped" /\ plan.settle = "pending"
    /\ Becomes("tick", [Idle EXCEPT !.step = "settle",
                        !.todo = {Ask(r) : r \in {u \in Unsure : Tracked(u)}}])
    /\ UNCHANGED <<plan, rungs, venue, sweep, faults, ways>>

RungsSettled ==
    /\ proc["tick"].step = "settle" /\ proc["tick"].todo = {}
    /\ Settled(Unsure) /\ Pulled(Unsure)
    /\ Becomes("tick", IF Confirmed(Unsure) THEN [Idle EXCEPT !.step = "protect"] ELSE Idle)
    /\ UNCHANGED <<plan, track, fill, venue, sweep, faults, ways>>

\* Fills of a plan that rode are in its ride. Others that the venue still holds beyond the
\* rides go to the ride of the other plan, or behind a stop of their own.
Loose == LET qty == IF plan.ride THEN 0 ELSE Own
             free == net - Ridden
         IN  IF qty < free THEN qty ELSE free

Done(stop) == plan' = [plan EXCEPT !.settle = "done", !.stop = stop]

Protect ==
    /\ proc["tick"].step = "protect"
    /\ \/ /\ Loose <= 0 /\ Done(plan.stop) /\ UNCHANGED <<parent, guard>>
       \/ /\ Loose > 0 /\ parent > 0
          /\ parent' = parent + Loose /\ Done(plan.stop) /\ UNCHANGED guard
       \/ /\ Loose > 0 /\ parent = 0
          /\ guard' = IF guard.st = "none" THEN [st |-> "working", qty |-> Loose] ELSE guard
          /\ Done("set") /\ UNCHANGED parent
    /\ Ends("tick")
    /\ UNCHANGED <<rungs, bought, ride, net, base, sweep, faults, ways>>

\* The stop rests and its answer was lost; or it is refused, and the user is told.
ProtectLost ==
    /\ proc["tick"].step = "protect" /\ Loose > 0 /\ parent = 0 /\ guard.st = "none"
    /\ Fault
    /\ guard' = [st |-> "working", qty |-> Loose]
    /\ Ends("tick")
    /\ UNCHANGED <<plan, rungs, bought, ride, parent, net, base, sweep, ways>>
ProtectRefused ==
    /\ proc["tick"].step = "protect" /\ Loose > 0 /\ parent = 0 /\ guard.st = "none"
    /\ Fault
    /\ Done(plan.stop) /\ ways' = ways \cup {"refused"}
    /\ Ends("tick")
    /\ UNCHANGED <<rungs, venue, sweep>>

\* watchFloorStop: a stop that ended is forgotten, one with nothing left to guard withdrawn.
WatchStop ==
    /\ proc["tick"].step = "idle" /\ Stopped /\ plan.settle # "pending" /\ plan.stop = "set"
    /\ \/ guard.st \in {"filled", "cancelled"} /\ plan' = [plan EXCEPT !.stop = "none"]
       \/ guard.st = "working" /\ net <= Ridden /\ plan' = [plan EXCEPT !.stop = "orphan"]
    /\ UNCHANGED <<rungs, venue, proc, sweep, faults, ways>>

\* sweepFloorOrphan: cancelled and read back.
SweepOrphan ==
    /\ proc["tick"].step = "idle" /\ plan.stop = "orphan"
    /\ plan' = [plan EXCEPT !.stop = "none"]
    /\ guard' = [guard EXCEPT !.st = IF @ = "working" THEN "cancelled" ELSE @]
    /\ UNCHANGED <<rungs, bought, ride, parent, net, base, proc, sweep, faults, ways>>

----------------------------------------------------------------------------
(* Venue, user and restarts *)

RungFills(r) ==
    /\ ord[r] = "working"
    /\ fill' = [fill EXCEPT ![r] = @ + 1]
    /\ ord'  = [ord EXCEPT ![r] = IF fill'[r] = Size[r[2]] THEN "filled" ELSE @]
    /\ net'  = net + 1
    /\ ways' = ways \cup Way("late", track[r].on = "ride" /\ ride.st # "open")
    /\ UNCHANGED <<plan, slip, track, bought, ride, parent, guard, base, proc, sweep, faults>>

\* What a reduce-only order leaves of the position.
Left(n) == IF n < net THEN net - n ELSE 0

\* The stop of the ride takes out what it was sized to.
RideEnds ==
    /\ ride.st = "open"
    /\ net' = Left(ride.qty)
    /\ ride' = [st |-> "ended", qty |-> 0]
    /\ ways' = ways \cup Way("late", Unswept > 0) \cup Way("gone", ToDo("handover"))
    /\ UNCHANGED <<plan, rungs, bought, parent, guard, base, proc, sweep, faults>>

ParentEnds ==
    /\ parent > 0
    /\ net' = Left(parent) /\ parent' = 0
    /\ UNCHANGED <<plan, rungs, bought, ride, guard, base, proc, sweep, faults, ways>>

StopFills ==
    /\ guard.st = "working" /\ net > 0
    /\ net' = Left(guard.qty)
    /\ guard' = [guard EXCEPT !.st = "filled"]
    /\ UNCHANGED <<plan, rungs, bought, ride, parent, base, proc, sweep, faults, ways>>

\* The user closes what nobody rides.
UserCloses ==
    /\ plan.phase \in {"ladder", "stopped"} /\ parent = 0 /\ ride.st # "open" /\ net > 0
    /\ net' = 0 /\ base' = 0
    /\ ways' = ways \cup Way("gone", ToDo("handover"))
    /\ UNCHANGED <<plan, rungs, bought, ride, parent, guard, proc, sweep, faults>>

Crash ==
    /\ Fault
    /\ \E p \in Procs : proc[p] # Idle
    /\ proc' = [p \in Procs |-> Idle]
    /\ sweep' = NoAsk
    /\ UNCHANGED <<plan, rungs, venue, ways>>

----------------------------------------------------------------------------
Cancels(p) == \E x \in proc[p].todo : CancelRung(p, x) \/ CancelUnread(p, x) \/ CancelFails(p, x)

TickStep ==
    \/ TickStarts \/ Resume \/ Decide \/ NothingToDo \/ CancelRungs \/ Cancels("tick") \/ RungsCancelled
    \/ EntryOnRecord \/ MarketEntry \/ EntryUnfilled \/ EntryRejected \/ MarketSettled
    \/ HandOver \/ HandedOver \/ RideRecorded \/ PlaceLadder
    \/ (\E k \in 0..Max({Size[i] : i \in Ladder}) : PlaceRung(k)) \/ LadderPlaced \/ Commit
    \/ SettleStarts \/ RungsSettled \/ Protect \/ WatchStop \/ SweepOrphan

TickTrouble == TickFails \/ MarketEntryLost \/ RungRejected \/ RungLost \/ ProtectLost \/ ProtectRefused

Sweeps == SweepBooks \/ \E r \in Rungs : SweepAsks(r)
Next ==
    \/ TickStep \/ TickTrouble \/ Sweeps
    \/ StopStarts \/ Cancels("stop") \/ StopEnds
    \/ FloorFires \/ Cancels("floor") \/ FloorStops
    \/ (\E r \in Rungs : RungFills(r)) \/ (\E s \in Seqs : EntryResolved(s))
    \/ RideEnds \/ ParentEnds \/ StopFills \/ UserCloses \/ Crash

Spec == Init /\ [][Next]_vars

\* The minute tick, and calls under way that settle.
FairSpec ==
    /\ Spec
    /\ WF_vars(TickStep)
    /\ WF_vars(Cancels("stop") \/ StopEnds)
    /\ WF_vars(Cancels("floor") \/ FloorStops)
    /\ WF_vars(Sweeps)

----------------------------------------------------------------------------
(* Properties *)

AtRest == ~Pending /\ plan.settle # "pending"
Quiet  == AtRest /\ \A p \in Procs : proc[p] = Idle

\* A plan that waits for its next breakout, was stopped or closed has no rung left at the
\* venue, and a rung that rests is on record.
NothingLeftBehind ==
    \A r \in Rungs : ord[r] = "working" => plan.phase \notin {"waiting", "stopped", "closed"} /\ Tracked(r)

Guarded == Ridden + IF guard.st = "working" THEN guard.qty ELSE 0

\* Each contract is somebody's: a ride holds what was bought for it, the user what he had
\* before and no ride took over, and what the floor stopped is with the other ride or behind
\* a stop of its own.
EveryContractIsHeld ==
    /\ plan.phase = "riding" /\ ride.st = "open" => net = Ridden + Unswept + base
    /\ plan.phase = "waiting" => net <= Ridden + Own + base
    /\ plan.settle = "done" => net - base <= Guarded

\* At rest, whatever failed, filled, fired or was stopped on the way.
PlanKeepsCount == Quiet /\ ways = {} => NothingLeftBehind /\ EveryContractIsHeld

\* The entry of the decision was refused, and every tick throws on its record.
Refused == ToDo("market") /\ plan.seq \in bought.refused

\* A decision is finished or dropped, and fills the floor left are looked after: the plan
\* comes to rest between any two breakouts, unless the venue refused its market entry, on
\* which the decision is stuck until the plan is stopped.
DecisionsEnd == ~AtRest ~> (AtRest \/ Refused \/ ways # {})

\* Runs stop at the first way.
Unspoilt == ways = {}
=============================================================================
