------------------------------ MODULE ExitStop ------------------------------
(***************************************************************************)
(* The protective stop of one server-managed position. An update of the    *)
(* server moves it: the old stop is retired and a new one placed, or the   *)
(* other way round. The venue-exit sweep looks at the stops the book       *)
(* tracks and books the ones that filled. Both hold the order lock of the  *)
(* venue, so they do not interleave with each other; the venue interleaves *)
(* with both, and an answer of it may be late, unreadable or lost.         *)
(*                                                                         *)
(* Source: node-backend/src/services/server-exit-stop.ts, pending-stop.ts, *)
(* venue-exit-sweep.ts and handleServerExitUpdate in                       *)
(* websocket/signal-client.ts. The venue is external. The lineage is long  *)
(* one unit. Take-profit legs, trails and the user's stop floor are left   *)
(* out; a bracket-only stop that is gone is not re-placed (the guarded     *)
(* re-placement blocks on a venue without the position).                   *)
(***************************************************************************)
EXTENDS Integers, FiniteSets

CONSTANTS
    Orders,       \* order ids at the venue; an id that nothing names is used again
    None,         \* no order
    Seqs,         \* exit sequence numbers of the server's updates: 1..n
    Level,        \* the stop level of each update (the entry's stop has level 0)
    MaxFaults,    \* bound: lost answers, unreadable lookups, failed cancels, crashes
    Configs       \* the venue settings to explore, see cfg

ASSUME ExitStopAssumption ==
    /\ IsFiniteSet(Orders) /\ None \notin Orders
    /\ \A o \in Orders \cup {None} : o \notin [lvl : Nat, keep : Orders \cup {None}]   \* an id is no marker
    /\ Seqs \subseteq Nat \ {0}
    /\ Level \in [Seqs -> Nat]
    /\ MaxFaults \in Nat
    /\ Configs \subseteq [noReduceOnly : BOOLEAN, opposed : BOOLEAN]

VARIABLES
    cfg,      \* noReduceOnly: TradeStation; opposed: another lineage nets the account short
    ord,      \* orders at the venue: state and stop level
    unread,   \* orders that fired, their outcome not readable yet
    net,      \* what the lineage holds at the venue
    open,     \* the lineage's execution is open in the book
    row,      \* server_exit_state
    brk,      \* the stop leg of bracket_pairs
    rec,      \* signals.stop_loss_order_id of the entry
    settled,  \* rec is in healSettled
    told,     \* venue-exit reports the server got
    op,       \* the holder of the order lock
    faults,
    loose     \* history: the ways in which a stop came to sell what nothing accounts for, see Ways

venue == <<ord, unread, net>>
book  == <<open, row, brk, rec, settled, told>>
vars  == <<cfg, venue, book, op, faults, loose>>

Levels  == {0} \cup {Level[s] : s \in Seqs}
Markers == [lvl : Levels, keep : Orders \cup {None}]   \* pendingStopMarker
Slot    == Orders \cup {None} \cup Markers

OrderState == {"none", "inflight", "working", "firing", "filled", "dropped", "cancelled"}

\* orphan: a new stop that could not be withdrawn, the operator is told; forgotten: a crash
\* or a close lost sight of it; gap: the market fired both stops of a placeFirst pair;
\* unread: a fill beat an acked cancel and the status that shows it could not be read;
\* missed: a parked stop landed and fired before the sweep looked for it among the live ones;
\* thrown: a placement that threw landed where nothing looks for it (not TradeStation);
\* flat: an update found the position flat and retired the only row that names the stop;
\* left: a reduce-only stop that would not go was replaced, or its replacement failed, and
\* no record names it now.
Ways == {"orphan", "forgotten", "gap", "unread", "missed", "thrown", "flat", "left"}
Way(w, happened) == IF happened THEN {w} ELSE {}

Idle == [act |-> "none", step |-> "", u |-> 0, old |-> None, new |-> None,
         ans |-> "", retired |-> FALSE, todo |-> {}]

Steps == {"", "live", "cancel", "status", "read1", "read2", "place", "find", "withdraw",
          "commit", "pending", "unpend", "heal", "poll"}

TypeOK ==
    /\ cfg \in Configs
    /\ ord \in [Orders -> [st : OrderState, lvl : Levels]]
    /\ unread \subseteq Orders
    /\ net \in -Cardinality(Orders)..1
    /\ open \in BOOLEAN
    /\ row \in [active : BOOLEAN, seq : {0} \cup Seqs, cur : Levels, engine : Levels, slot : Slot]
    /\ brk \in Orders \cup {None}
    /\ rec \in Orders \cup {None}
    /\ settled \in BOOLEAN
    /\ told \in 0..2
    /\ op \in [act : {"none", "update", "sweep"}, step : Steps, u : {0} \cup Seqs,
               old : Orders \cup {None}, new : Orders \cup {None},
               ans : {"", "acked", "gone", "error", "threw"}, retired : BOOLEAN,
               todo : SUBSET Orders]
    /\ faults \in 0..MaxFaults
    /\ loose \subseteq Ways

\* The entry filled: its stop rests and every record names it.
Init ==
    /\ cfg \in Configs
    /\ \E o \in Orders :
        /\ ord = [x \in Orders |-> [st |-> IF x = o THEN "working" ELSE "none", lvl |-> 0]]
        /\ row = [active |-> TRUE, seq |-> 0, cur |-> 0, engine |-> 0, slot |-> o]
        /\ brk = o
        /\ rec = o
    /\ unread = {}
    /\ net = 1
    /\ open = TRUE
    /\ settled = FALSE
    /\ told = 0
    /\ op = Idle
    /\ faults = 0
    /\ loose = {}

----------------------------------------------------------------------------
(* Reading the state *)

Plain      == cfg.noReduceOnly \/ cfg.opposed    \* a stop here sells whatever is held
PlaceFirst == cfg.opposed
Verify     == cfg.noReduceOnly

IsMarker(s) == s \in Markers
IsOrder(s)  == s \in Orders
IdOf(s)     == IF IsOrder(s) THEN s ELSE None

In(S)      == {o \in Orders : ord[o].st \in S}
Resting    == In({"working", "firing"})
Named      == {row.slot, brk, rec, op.old, op.new} \cup
              (IF IsMarker(row.slot) THEN {row.slot.keep} ELSE {})
Fresh      == {o \in Orders : o \notin Named /\ ord[o].st \notin {"inflight", "working", "firing"}}

LockFree == op.act = "none"
Goto(step) == op' = [op EXCEPT !.step = step]
Release    == op' = Idle

Fault   == faults < MaxFaults /\ faults' = faults + 1
NoFault == UNCHANGED faults

\* getOrderStatus
Status(o) ==
    CASE o \in unread \/ ord[o].st = "firing"    -> "triggered"
      [] ord[o].st = "working"                   -> "working"
      [] ord[o].st = "filled" /\ o \notin unread -> "filled"
      [] ord[o].st \in {"cancelled", "dropped"} /\ o \notin unread -> "cancelled"
      [] OTHER                                   -> "unknown"

\* Mutant: the verdict does not look whether the lineage is still in.
VerdictBlind == IF open THEN "dropped" ELSE "unresolved"

\* firedStopVerdict: the lineage's unit is still in the venue's net, or gone from it.
Verdict == IF ~open THEN "unresolved"
           ELSE IF net = 1 THEN "dropped"
           ELSE IF net = 0 THEN "filled"
           ELSE "unresolved"

\* findLandedStop: live stops at the asked level that no record claims.
Landed(lvl, known) == {o \in In({"working"}) : ord[o].lvl = lvl /\ o \notin known}

----------------------------------------------------------------------------
(* The venue *)

SetOrd(o, st) == ord' = [ord EXCEPT ![o].st = st]

\* From a placeFirst placement until the old stop is retired, or the newcomer withdrawn,
\* both rest; this is the second of the two to fire.
InWindow(o) ==
    /\ PlaceFirst
    /\ \/ op.new # None
       \/ op.step = "find"
       \/ IsMarker(row.slot) /\ row.slot.keep # None
    /\ net < 1 \/ \E p \in Orders \ {o} : ord[p].st = "firing"

\* The stop of a thrown placement that nothing has found yet.
Parked(o) == /\ IsMarker(row.slot) \/ op.step = "find"
             /\ o \notin {brk, rec} \cup {IF IsMarker(row.slot) THEN row.slot.keep ELSE row.slot}

\* The market reaches the stop.
Trigger(o) ==
    /\ ord[o].st = "working"
    /\ SetOrd(o, "firing")
    /\ loose' = loose \cup Way("gap", InWindow(o)) \cup Way("missed", Parked(o))
    /\ UNCHANGED <<cfg, unread, net, book, op, faults>>

\* It executes, unless the venue drops it: always a reduce-only one with nothing to reduce.
Execute(o) ==
    /\ ord[o].st = "firing"
    /\ \/ (Plain \/ net > 0) /\ SetOrd(o, "filled") /\ net' = net - 1
       \/ SetOrd(o, "dropped") /\ UNCHANGED net
    /\ \E readable \in BOOLEAN : unread' = IF readable THEN unread ELSE unread \cup {o}
    /\ UNCHANGED <<cfg, book, op, faults, loose>>

BecomesReadable(o) ==
    /\ o \in unread
    /\ unread' = unread \ {o}
    /\ UNCHANGED <<cfg, ord, net, book, op, faults, loose>>

\* A placement that threw reaches the venue after all; it does so before the next sweep.
Lands(o) ==
    /\ ord[o].st = "inflight"
    /\ SetOrd(o, "working")
    /\ UNCHANGED <<cfg, unread, net, book, op, faults, loose>>

----------------------------------------------------------------------------
(* An update of the server: handleServerExitUpdate *)

\* The update ends here: acked, or refused so that the server's retry comes again.
EndUpdate ==
    /\ Release
    /\ UNCHANGED <<cfg, venue, faults>>

Refuse == EndUpdate /\ UNCHANGED <<book, loose>>

StaleSeq(u)       == u <= row.seq
FavourableOnly(u) == Level[u] > row.engine       \* isFavourableStop, strict

\* Mutant: the row stays active.
RetireNot(r) == UNCHANGED <<row, loose>>

\* deactivateServerExitState. A parked marker is forgotten with its row.
Retire(r) == /\ row' = [r EXCEPT !.active = FALSE]
             /\ loose' = loose \cup Way("forgotten", r.active /\ IsMarker(r.slot))
                              \cup Way("flat", r.active /\ IsOrder(r.slot) /\ r.slot # brk)

BeginUpdate(u) ==
    /\ LockFree
    /\ row.active
    /\ ~StaleSeq(u)
    /\ FavourableOnly(u)
    /\ \/ /\ open
          /\ op' = [Idle EXCEPT !.act = "update", !.step = "live", !.u = u]
          /\ UNCHANGED <<row, loose>>
       \/ /\ ~open                          \* the lineage is out: no stop, the row is retired
          /\ Retire(row)
          /\ UNCHANGED op
    /\ UNCHANGED <<cfg, venue, open, brk, rec, settled, told, faults>>

\* The positions are read; what rests is planned against book and venue.
PlanUpdate ==
    LET old == IF row.slot # None THEN row.slot ELSE rec IN
    /\ op.act = "update" /\ op.step = "live"
    /\ \/ /\ ~cfg.opposed /\ net = 0        \* position flat: exit state retired
          /\ Retire(row)
          /\ EndUpdate
          /\ UNCHANGED <<open, brk, rec, settled, told>>
       \/ /\ net = 1                        \* the market crossed the new level: keep the old stop
          /\ row' = [row EXCEPT !.seq = op.u]
          /\ EndUpdate
          /\ UNCHANGED <<open, brk, rec, settled, told, loose>>
       \/ /\ net < 0 \/ (cfg.opposed /\ net = 0)   \* inert: the book does not explain the venue
          /\ Refuse
       \/ /\ net = 1 /\ IsMarker(row.slot)  \* an earlier placement is unresolved
          /\ Refuse
       \/ /\ net = 1 /\ ~IsMarker(row.slot)
          /\ op' = [op EXCEPT !.old = old,
                              !.step = IF old = None \/ PlaceFirst THEN "place" ELSE "cancel"]
          /\ UNCHANGED <<cfg, venue, book, faults, loose>>

----------------------------------------------------------------------------
(* retireOldStop *)

\* cancelOrder(old): the order's state after the call, and the answer.
CancelAnswer(o, st, ans) ==
    LET now == ord[o].st IN
    \/ now = "working" /\ st = "cancelled" /\ ans = "acked" /\ NoFault
    \/ now = "working" /\ st = "filled" /\ ans = "acked" /\ Verify /\ NoFault  \* the fill beat it
    \/ now = "working" /\ st \in {now, "cancelled"} /\ ans = "error" /\ Fault
    \/ now = "working" /\ st = now /\ ans = "gone" /\ Verify /\ Fault          \* too late to cancel
    \/ now # "working" /\ st = now /\ ans = "gone" /\ NoFault

Hit(o, st) == /\ SetOrd(o, st)
              /\ net' = IF st = "filled" /\ ord[o].st # "filled" THEN net - 1 ELSE net

\* The old stop is settled one way or the other: what follows.
AfterRetire(outcome) ==
    CASE outcome \in {"cancelled", "gone"} ->
           op' = [op EXCEPT !.retired = TRUE, !.step = IF PlaceFirst THEN "commit" ELSE "place"]
      [] outcome \notin {"cancelled", "gone"} /\ PlaceFirst ->
           Goto("withdraw")
      [] outcome = "failed" /\ ~PlaceFirst /\ ~Plain ->    \* reduce-only: two cannot oversell
           Goto("place")
      [] OTHER ->                                          \* OldStopFilled, OldStopKept
           Release

CancelOld ==
    /\ op.act = "update" /\ op.step = "cancel"
    /\ \E st \in OrderState, ans \in {"acked", "gone", "error"} :
        /\ CancelAnswer(op.old, st, ans)
        /\ Hit(op.old, st)
        /\ IF ans = "gone" \/ Verify
             THEN op' = [op EXCEPT !.ans = ans, !.step = "status"]
             ELSE AfterRetire(IF ans = "acked" THEN "cancelled" ELSE "failed")
        /\ loose' = loose \cup Way("gap", st = "filled" /\ InWindow(op.old))
    /\ UNCHANGED <<cfg, unread, book>>

\* The status is read when the cancel was answered "gone", and always on TradeStation.
OutcomeOf(ans, st) ==
    CASE st = "filled"                          -> "filled"
      [] st = "unreadable" /\ ans = "acked"     -> "cancelled"
      [] st = "unreadable" /\ ans # "acked"     -> "unresolved"
      [] ans = "acked" /\ st # "filled"         -> "cancelled"
      [] st = "cancelled"                       -> "gone"
      [] ans = "error" /\ st = "working"        -> "failed"
      [] OTHER                                  -> "unresolved"

StatusOld ==
    /\ op.act = "update" /\ op.step = "status"
    /\ \E st \in {Status(op.old), "unreadable"} :
        /\ IF st = "unreadable" THEN Fault ELSE NoFault
        /\ IF op.ans = "gone" /\ st = "triggered"
             THEN Goto("read1")
             ELSE AfterRetire(OutcomeOf(op.ans, st))
        /\ loose' = loose \cup Way("unread", st = "unreadable" /\ op.ans = "acked" /\ ord[op.old].st = "filled")
    /\ UNCHANGED <<cfg, venue, book>>

\* confirmedFiredVerdict: "dropped" only on two reads a pause apart. An execution
\* shows in the positions within the pause. An unreadable read settles nothing.
ReadOnce == \/ Verdict = "dropped" /\ Goto("read2") /\ NoFault
            \/ Verdict # "dropped" /\ AfterRetire(Verdict) /\ NoFault
            \/ AfterRetire("unresolved") /\ Fault

FiredOld ==
    /\ op.act = "update"
    /\ \/ op.step = "read1" /\ ReadOnce
       \/ /\ op.step = "read2"
          /\ In({"firing"}) = {}
          /\ AfterRetire(IF Verdict = "dropped" THEN "gone" ELSE "unresolved")
          /\ NoFault
    /\ UNCHANGED <<cfg, venue, book, loose>>

----------------------------------------------------------------------------
(* Placing and recording *)

\* The placement is done or found: with a plain stop the old one goes now.
Placed(o) == op' = [op EXCEPT !.new = o,
                 !.step = IF PlaceFirst /\ op.old # None THEN "cancel" ELSE "commit"]

PlaceAnswered ==
    /\ op.step = "place"
    /\ \E o \in Fresh :
        /\ ord' = [ord EXCEPT ![o] = [st |-> "working", lvl |-> Level[op.u]]]
        /\ unread' = unread \ {o}
        /\ Placed(o)
    /\ UNCHANGED <<cfg, net, book, faults, loose>>

\* Without reduce-only the venue is read; elsewhere the old stop stays (placeFirst)
\* or the slot is empty until the retry.
PlaceThrew ==
    /\ op.step = "place"
    /\ Fault
    /\ \/ /\ Verify
          /\ Goto("find")
          /\ UNCHANGED <<row, rec>>
       \/ /\ ~Verify
          /\ Release
          /\ row' = IF PlaceFirst THEN row ELSE [row EXCEPT !.slot = None]
          /\ rec' = IF PlaceFirst THEN rec ELSE None
    /\ \E landed \in BOOLEAN :
        /\ IF landed
             THEN \E o \in Fresh, st \in {"working", "inflight"} :
                      /\ ord' = [ord EXCEPT ![o] = [st |-> st, lvl |-> Level[op.u]]]
                      /\ unread' = unread \ {o}
             ELSE UNCHANGED <<ord, unread>>
        /\ loose' = loose \cup Way("thrown", landed /\ ~Verify)
                         \cup Way("left", ~Plain /\ ~op.retired /\ op.old \notin {None, brk})
    /\ UNCHANGED <<cfg, net, open, brk, settled, told>>

\* The slot is parked on a marker; the kept stop stays what protects.
Park(keep) ==
    LET lvl == Level[op.u] IN
    /\ row' = IF keep = None
                THEN [row EXCEPT !.slot = [lvl |-> lvl, keep |-> None], !.cur = lvl, !.engine = lvl]
                ELSE [row EXCEPT !.slot = [lvl |-> lvl, keep |-> keep]]
    /\ rec' = IF keep = None THEN None ELSE rec
    /\ Release

FindLanded ==
    LET found == Landed(Level[op.u], {op.old, rec}) IN
    /\ op.step = "find"
    /\ \/ /\ \E o \in found : found = {o} /\ Placed(o)
          /\ NoFault
          /\ UNCHANGED <<row, rec>>
       \/ /\ Cardinality(found) # 1
          /\ NoFault
          /\ Park(IF PlaceFirst THEN op.old ELSE None)
       \/ /\ Fault                                            \* the venue cannot be read
          /\ Park(IF PlaceFirst THEN op.old ELSE None)
    /\ UNCHANGED <<cfg, venue, open, brk, settled, told, loose>>

\* Mutant: the new stop is not pulled back.
WithdrawNot ==
    /\ op.step = "withdraw"
    /\ Release
    /\ UNCHANGED <<cfg, venue, faults, loose, book>>

\* The old plain stop would not go, so the new one is pulled back. One that does not
\* come back rests untracked: the operator is told.
Withdraw ==
    /\ op.step = "withdraw"
    /\ \/ ord[op.new].st = "working" /\ SetOrd(op.new, "cancelled") /\ NoFault /\ UNCHANGED loose
       \/ ord[op.new].st = "working" /\ UNCHANGED ord /\ Fault /\ loose' = loose \cup {"orphan"}
       \/ ord[op.new].st # "working" /\ UNCHANGED ord /\ NoFault /\ loose' = loose \cup {"orphan"}
    /\ Release
    /\ UNCHANGED <<cfg, unread, net, book>>

\* Exit state, the entry's record and the bracket follow the new stop.
Commit ==
    /\ op.step = "commit"
    /\ row' = [row EXCEPT !.seq = op.u, !.cur = Level[op.u], !.engine = Level[op.u], !.slot = op.new]
    /\ rec' = op.new
    /\ settled' = FALSE
    /\ brk' = IF brk = None \/ (op.retired /\ brk = op.old) THEN op.new ELSE brk
    /\ loose' = loose \cup Way("left", ~op.retired /\ op.old \notin {None, brk'})
    /\ Release
    /\ UNCHANGED <<cfg, venue, open, told, faults>>

----------------------------------------------------------------------------
(* The venue-exit sweep: sweepVenueExitOrders *)

\* collectRestingExitCandidates
Candidates(r, b) == {o \in Orders : o = b \/ (r.active /\ o = r.slot)}

PendingDue == row.active /\ IsMarker(row.slot)
Dropped(r, b, c, s) == /\ open /\ c # None /\ ~s /\ c \notin {r.slot, b}
                       /\ (r.active /\ r.slot = None) \/ b = None
HealDue    == Dropped(row, brk, rec, settled)

BeginSweep ==
    /\ LockFree
    /\ \/ /\ PendingDue
          /\ op' = [Idle EXCEPT !.act = "sweep", !.step = "pending"]
       \/ /\ ~PendingDue /\ HealDue
          /\ op' = [Idle EXCEPT !.act = "sweep", !.step = "heal"]
       \/ /\ ~PendingDue /\ ~HealDue /\ Candidates(row, brk) # {}
          /\ op' = [Idle EXCEPT !.act = "sweep", !.step = "poll", !.todo = Candidates(row, brk)]
    /\ UNCHANGED <<cfg, venue, book, faults, loose>>

GoPoll(r, b) == op' = [op EXCEPT !.step = "poll", !.old = None, !.todo = Candidates(r, b)]

\* The parked placement is dealt with: the same sweep heals what was dropped, then polls.
GoHeal == IF Dropped(row', brk', rec', settled')
          THEN op' = [op EXCEPT !.step = "heal", !.old = None]
          ELSE GoPoll(row', brk')

\* resolvePendingPlacements. At most one stop matches: a parked slot places nothing.
ResolvePending ==
    LET m     == row.slot
        found == Landed(m.lvl, {brk}) IN
    /\ op.step = "pending"
    /\ In({"inflight"}) = {}
    /\ \/ /\ Fault                                     \* not readable: the marker keeps blocking
          /\ UNCHANGED <<row, brk, rec, settled>>
          /\ GoHeal
       \/ /\ NoFault
          /\ ~open \/ m.keep # None
          /\ found # {}
          /\ \E o \in found : op' = [op EXCEPT !.step = "unpend", !.old = o]
          /\ UNCHANGED <<row, brk, rec, settled>>
       \/ /\ NoFault
          /\ ~open \/ m.keep # None
          /\ found = {}
          /\ row' = [row EXCEPT !.slot = IF open THEN m.keep ELSE None]
          /\ UNCHANGED <<brk, rec, settled>>
          /\ GoHeal
       \/ /\ NoFault
          /\ open /\ m.keep = None /\ found # {}       \* adopted into every slot
          /\ \E o \in found :
              /\ row' = [row EXCEPT !.slot = o]
              /\ rec' = o
              /\ brk' = IF brk = None THEN o ELSE brk
          /\ settled' = FALSE
          /\ GoHeal
       \/ /\ NoFault
          /\ open /\ m.keep = None /\ found = {}       \* it did not land: the slot is free
          /\ row' = [row EXCEPT !.slot = None]
          /\ UNCHANGED <<brk, rec, settled>>
          /\ GoHeal
    /\ UNCHANGED <<cfg, venue, open, told, loose>>

\* The landed stop is taken back: an orphan, or the second plain stop.
WithdrawPending ==
    /\ op.step = "unpend"
    /\ \/ /\ ord[op.old].st = "working"
          /\ SetOrd(op.old, "cancelled")
          /\ row' = [row EXCEPT !.slot = IF open THEN @.keep ELSE None]
          /\ NoFault
       \/ ord[op.old].st = "working" /\ Fault /\ UNCHANGED <<ord, row>>
       \/ ord[op.old].st # "working" /\ NoFault /\ UNCHANGED <<ord, row>>
    /\ UNCHANGED <<cfg, unread, net, open, brk, rec, settled, told, loose>>
    /\ GoHeal

\* healDroppedStops: a recorded stop that still rests takes its emptied slots again.
Heal ==
    /\ op.step = "heal"
    /\ \/ /\ Status(rec) = "working" /\ NoFault
          /\ row' = IF row.active /\ row.slot = None THEN [row EXCEPT !.slot = rec] ELSE row
          /\ brk' = IF brk = None THEN rec ELSE brk
          /\ UNCHANGED settled
       \/ /\ Status(rec) \in {"filled", "cancelled"} /\ NoFault
          /\ settled' = TRUE
          /\ UNCHANGED <<row, brk>>
       \/ /\ Status(rec) \in {"triggered", "unknown"} /\ NoFault   \* backs off
          /\ UNCHANGED <<row, brk, settled>>
       \/ Fault /\ UNCHANGED <<row, brk, settled>>
    /\ GoPoll(row', brk')
    /\ UNCHANGED <<cfg, venue, open, rec, told, loose>>

Done(o) == op' = IF op.todo \subseteq {o} THEN Idle
                 ELSE [op EXCEPT !.step = "poll", !.old = None, !.todo = @ \ {o}]

\* reportVenueExit: kept by the server, or lost.
Report == \/ told' = told + 1 /\ NoFault
          \/ UNCHANGED told /\ Fault

\* The execution is closed, its protection lingers: report, retire, cancel the leg.
PollLingering(o) ==
    /\ op.step = "poll" /\ o \in op.todo
    /\ ~open
    /\ \/ row.active /\ told' = told + 1 /\ NoFault /\ Retire(row)
       \/ row.active /\ UNCHANGED <<told, row, loose>> /\ Fault
       \/ ~row.active /\ UNCHANGED <<told, row, loose>> /\ NoFault
    /\ ord' = IF brk # None /\ ord[brk].st = "working" THEN [ord EXCEPT ![brk].st = "cancelled"] ELSE ord
    /\ brk' = None
    /\ Done(o)
    /\ UNCHANGED <<cfg, unread, net, open, rec, settled>>

\* attributeVenueExit and what follows: the order group and the state rows are spent.
PollFilled(o) ==
    /\ op.step = "poll" /\ o \in op.todo
    /\ open
    /\ Status(o) = "filled"
    /\ open' = FALSE
    /\ brk' = IF brk = o THEN None ELSE brk
    /\ \/ row.active /\ Retire(row) /\ Report
       \/ ~row.active /\ UNCHANGED <<row, loose, told, faults>>
    /\ Done(o)
    /\ UNCHANGED <<cfg, venue, rec, settled>>

\* settleGoneStop: a bracket that missed a replacement follows the server row's
\* stop; otherwise every slot that names the order is freed.
SettleGone(o) ==
    LET byRow == row.active /\ row.slot = o IN
    IF ~byRow /\ row.active /\ row.slot # None
      THEN /\ brk' = IdOf(row.slot)
           /\ UNCHANGED row
      ELSE /\ brk' = IF brk = o THEN None ELSE brk
           /\ row' = IF byRow THEN [row EXCEPT !.slot = None] ELSE row

\* Cancelled or rejected, and its trades confirm that it never filled.
PollGone(o) ==
    /\ op.step = "poll" /\ o \in op.todo
    /\ open
    /\ Status(o) = "cancelled"
    /\ SettleGone(o)
    /\ Done(o)
    /\ UNCHANGED <<cfg, venue, open, rec, settled, told, faults, loose>>

PollResting(o) ==
    /\ op.step = "poll" /\ o \in op.todo
    /\ open
    /\ \/ Status(o) \in {"working", "unknown"} /\ NoFault
       \/ Fault                                       \* the lookup failed
    /\ Done(o)
    /\ UNCHANGED <<cfg, venue, book, loose>>

\* Fired, its outcome not readable: the venue's position decides, on two reads.
PollFired(o) ==
    /\ op.act = "sweep" /\ o \in op.todo
    /\ \/ /\ op.step = "poll" /\ open
          /\ Status(o) = "triggered"
          /\ op' = [op EXCEPT !.step = "read1", !.old = o]
          /\ UNCHANGED <<row, brk, faults>>
       \/ /\ op.step = "read1" /\ op.old = o
          /\ \/ Verdict = "dropped" /\ Goto("read2") /\ NoFault
             \/ Verdict # "dropped" /\ Done(o) /\ NoFault   \* filled or unresolved: kept, pushed
             \/ Done(o) /\ Fault
          /\ UNCHANGED <<row, brk>>
       \/ /\ op.step = "read2" /\ op.old = o
          /\ In({"firing"}) = {}
          /\ IF Verdict = "dropped" THEN SettleGone(o) ELSE UNCHANGED <<row, brk>>
          /\ Done(o)
          /\ NoFault
    /\ UNCHANGED <<cfg, venue, open, rec, settled, told, loose>>

EndSweep ==
    /\ op.act = "sweep" /\ op.step = "poll" /\ op.todo = {}
    /\ Release
    /\ UNCHANGED <<cfg, venue, book, faults, loose>>

----------------------------------------------------------------------------
(* Around them *)

\* A close books the lineage and cancels the stops its records name. It retires the
\* server row with whatever its slot holds; PANIC keeps the row when its report fails.
CloseElsewhere ==
    LET gone == {o \in {rec, brk} \cap Orders : ord[o].st = "working"} IN
    /\ LockFree
    /\ open /\ net = 1
    /\ net' = 0
    /\ open' = FALSE
    /\ brk' = None
    /\ \/ /\ ord' = [o \in Orders |-> IF o \in gone THEN [ord[o] EXCEPT !.st = "cancelled"] ELSE ord[o]]
          /\ NoFault
          /\ row' = [row EXCEPT !.active = FALSE]
          /\ loose' = loose \cup Way("forgotten", (row.active /\ IsMarker(row.slot)) \/ Resting \ gone # {})
       \/ /\ Fault
          /\ ord' = [o \in Orders |-> IF o \in gone THEN [ord[o] EXCEPT !.st = "cancelled"] ELSE ord[o]]
          /\ UNCHANGED row
          /\ loose' = loose \cup Way("forgotten", Resting \ gone # {})
       \/ /\ Fault                                    \* a cancel fails, best effort
          /\ UNCHANGED ord
          /\ row' = [row EXCEPT !.active = FALSE]
          /\ loose' = loose \cup Way("forgotten", (row.active /\ IsMarker(row.slot)) \/ Resting # {})
    /\ UNCHANGED <<cfg, unread, rec, settled, told, op>>

\* The executor stops and starts again. A stop placed and not yet recorded is lost sight of.
Crash ==
    /\ ~LockFree
    /\ Fault
    /\ Release
    /\ settled' = FALSE
    /\ loose' = loose \cup Way("forgotten", op.new # None \/ op.step = "find")
    /\ UNCHANGED <<cfg, venue, open, row, brk, rec, told>>

UpdateStep == \/ PlanUpdate \/ CancelOld \/ StatusOld \/ FiredOld \/ PlaceAnswered
              \/ PlaceThrew \/ FindLanded \/ Withdraw \/ Commit
SweepStep  == \/ ResolvePending \/ WithdrawPending \/ Heal \/ EndSweep
              \/ \E o \in Orders : \/ PollLingering(o) \/ PollFilled(o) \/ PollGone(o)
                                   \/ PollResting(o) \/ PollFired(o)
VenueStep  == \E o \in Orders : Execute(o) \/ BecomesReadable(o) \/ Lands(o)

Next ==
    \/ \E u \in Seqs : BeginUpdate(u)
    \/ UpdateStep
    \/ BeginSweep
    \/ SweepStep
    \/ VenueStep
    \/ \E o \in Orders : Trigger(o)
    \/ CloseElsewhere
    \/ Crash

Spec == Init /\ [][Next]_vars

----------------------------------------------------------------------------
(* Properties *)

\* The lineage is never sold twice: not by an old and a new stop that both fire, nor by
\* a stop placed for a lineage that is already out. Left are the stops that no record
\* names (one that could not be withdrawn, one a crash or a close made us forget), and
\* the moment in which a placeFirst pair both rest.
NeverSoldTwice == net < 0 => loose \ {"flat", "left"} # {}

\* Nothing that can sell rests unnamed between operations: every plain stop is in a
\* slot, is the entry's recorded stop, or is what a parked marker looks for.
EveryStopIsNamed ==
    LockFree /\ Plain /\ loose \subseteq {"gap", "unread", "flat", "left"} =>
        \A o \in Resting :
            \/ o \in {brk, rec}
            \/ row.active /\ o = row.slot
            \/ row.active /\ IsMarker(row.slot) /\ (o = row.slot.keep \/ ord[o].lvl = row.slot.lvl)

\* The book closes the lineage only when the venue no longer holds it, and the server
\* is told once, of a lineage that is out.
ExitIsReal == /\ ~open => net <= 0
              /\ told <= 1
              /\ told > 0 => ~open

\* The level an ack reports as resting is the level of the stop that rests.
RecordedLevelRests ==
    LockFree /\ row.active /\ IsOrder(row.slot) /\ ord[row.slot].st = "working" =>
        ord[row.slot].lvl = row.cur

\* A lineage that a stop took out is not lost to the book: once the fill can be read,
\* an order the sweep still looks at shows it, whichever update came in between.
FilledIsTracked ==
    LockFree /\ open /\ net < 1 /\ loose = {} /\ unread = {} /\ In({"firing"}) = {} =>
        \E o \in Candidates(row, brk) : Status(o) = "filled"

\* Between operations the book says of the entry's stops and its exit what the venue does.
BookAndVenueAgree == EveryStopIsNamed /\ RecordedLevelRests /\ ExitIsReal /\ FilledIsTracked
=============================================================================
