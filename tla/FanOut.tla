------------------------------- MODULE FanOut -------------------------------
(***************************************************************************)
(* One entry signal of a bot that runs on several subscriptions, each with *)
(* an account of its own, and the entries that wait for market open. The   *)
(* first active subscription runs under the id the server knows (the wire  *)
(* id), every further one as a child lineage; the fan-out collects their   *)
(* acks and answers the server once. A market order into a closed market   *)
(* is parked; a poller resumes or expires it, and a close of the position  *)
(* retires it. The server may deliver the signal again.                    *)
(*                                                                         *)
(* Source: handleMissedSignals, handleSignalInner, fanOutSignal,           *)
(* processSignalForSub, ackToApi and the deferred-entry methods of         *)
(* node-backend/src/websocket/signal-client.ts, services/fanout.ts and     *)
(* the signals, signal_executions and deferred_entries tables. All         *)
(* accounts share one order lock. Sizing and the entry guards are one      *)
(* refusal, settlement and closing one step each (EntrySettlement and      *)
(* CloseFlow have them in full), and the fan-out of updates and cancels,   *)
(* the weekend drop and the gates of the bot's config are left out.        *)
(***************************************************************************)
EXTENDS Integers, FiniteSets

CONSTANTS
    Subs,          \* 1..n, the bot's subscriptions in creation order, one account each
    MaxDeliveries, \* bound: copies of the signal the server sends
    MaxCloses,     \* bound: closes of the position
    MaxTroubles    \* bound: refusals, throws, unknown outcomes, restarts, paused subscriptions

ASSUME FanOutAssumption ==
    /\ Subs \subseteq Nat \ {0}
    /\ IsFiniteSet(Subs)
    /\ {MaxDeliveries, MaxCloses, MaxTroubles} \subseteq Nat

Wire == 0
Ids  == {Wire} \cup Subs  \* lineages: the wire id, and the child of each subscription

VARIABLES
    active,  \* executor_subscriptions: those still active
    fanRow,  \* signals.status
    fanExec, \* signal_executions.status
    acct,    \* the subscription whose account the execution is on
    order,   \* the lineage's entry order at the venue
    park,    \* deferred_entries.status
    owner,   \* deferred_entries.subscription_id
    late,    \* waiting entries past deadline_at
    old,     \* the signal was older than staleOpenWindowMs when it last came
    queued,  \* copies of the signal waiting for the order lock
    run,     \* what holds the order lock and where it is
    poll,    \* the poller: its step and the rows it still has to visit
    timer,   \* deferredTimer is set
    heard,   \* history: the server heard `executed`, or may have missed one
    fanSent, \* history: orders sent per account
    firsts,  \* history: subscriptions that have run under the wire id
    spent    \* how much of each bound is used up

db      == <<fanRow, fanExec, acct, park, owner>>
venue   == <<order, fanSent>>
world   == <<active, late, old>>
fanVars == <<db, venue, world, heard, queued, run, poll, timer, firsts, spent>>

Free == [kind |-> "free", todo |-> {}, at |-> "-", fan |-> FALSE, sink |-> "none", outs |-> {}]
Rest == [at |-> "idle", todo |-> {}]

FanInit ==
    /\ active = Subs
    /\ fanRow = [i \in Ids |-> "none"]
    /\ fanExec = [i \in Ids |-> "none"]
    /\ acct = [i \in Ids |-> 0]
    /\ order = [i \in Ids |-> "none"]
    /\ park = [i \in Ids |-> "none"]
    /\ owner = [i \in Ids |-> 0]
    /\ late = {} /\ old = FALSE /\ queued = 0
    /\ run = Free /\ poll = Rest /\ timer = TRUE
    /\ heard = "none"
    /\ fanSent = [s \in Subs |-> 0]
    /\ firsts = {}
    /\ spent = [deliveries |-> 0, closes |-> 0, troubles |-> 0]

Spend(what) == spent' = [spent EXCEPT ![what] = @ + 1]

-----------------------------------------------------------------------------
(* Acks.                                                                   *)

\* The lineage whose turn it is: the wire id first, then the children in
\* the order of their subscriptions.
Now == CHOOSE x \in run.todo : \A y \in run.todo : x.id <= y.id

\* A fan-out collects the acks of the lineage it is running.
Collects(i) == run.fan /\ run.at \in {"guard", "place"} /\ Now.id = i

Executed(i) == order[i] \in {"filled", "closed"}

\* A restart loses the acks that were due, a failed post the one it was for.
Missed == IF heard = "executed" THEN heard ELSE "missed"

\* The one post of an ack, under the wire id whichever lineage it is of. One
\* that fails is logged and not sent again; without an address or a key of the
\* server none is sent. Of the other statuses no history is kept.
Tell(st) ==
    IF st = "executed"
    THEN heard' \in {"executed", Missed}
    ELSE UNCHANGED heard

FanAck(i, st) ==
    IF Collects(i)
    THEN run' = [run EXCEPT !.sink = st] /\ UNCHANGED heard
    ELSE Tell(st) /\ UNCHANGED run

\* Mutant: a fan-out of silent duplicates writes their outcome on the wire row.
AggregateRaw(outs) ==
    CASE "executed" \in outs -> "executed"
      [] "executed" \notin outs /\ "deferred" \in outs -> "deferred"
      [] outs \cap {"executed", "deferred"} = {} /\ "pending" \in outs -> "pending"
      [] outs \cap {"executed", "deferred", "pending"} = {} /\ "rejected" \in outs -> "rejected"
      [] OTHER -> "skipped"

\* The one status of a fan-out: the best of its lineages' outcomes.
Aggregate(outs) ==
    CASE "executed" \in outs -> "executed"
      [] "executed" \notin outs /\ "deferred" \in outs -> "deferred"
      [] outs \cap {"executed", "deferred"} = {} /\ "pending" \in outs -> "pending"
      [] outs \cap {"executed", "deferred", "pending"} = {} /\ "rejected" \in outs -> "rejected"
      [] OTHER -> "none"

-----------------------------------------------------------------------------
(* The server delivers the entry.                                          *)

\* It goes to the lock unless it is a replay of an entry that is done or
\* parked, or of an old one, which is rejected. The check comes before the lock.
FanDeliver ==
    /\ spent.deliveries < MaxDeliveries
    /\ Spend("deliveries")
    /\ old' \in {old, TRUE}
    /\ \/ /\ fanRow[Wire] \in {"executed", "closed", "deferred"}
          /\ UNCHANGED <<fanRow, run, heard, queued>>
       \/ /\ fanRow[Wire] \notin {"executed", "closed", "deferred"} /\ ~ old'
          /\ queued' = queued + 1
          /\ UNCHANGED <<fanRow, run, heard>>
       \/ /\ fanRow[Wire] \notin {"executed", "closed", "deferred"} /\ old'
          /\ fanRow' = [fanRow EXCEPT ![Wire] = IF @ = "none" THEN "expired" ELSE @]
          /\ FanAck(Wire, "rejected")
          /\ UNCHANGED queued
    /\ UNCHANGED <<fanExec, acct, park, owner, venue, active, late, poll, timer, firsts>>

Item(i, s) == [id |-> i, sub |-> s]

\* The lineages of a delivery: the oldest active subscription takes the wire id.
Oldest == CHOOSE s \in active : \A other \in active : s <= other

Lineages == {Item(IF s = Oldest THEN Wire ELSE s, s) : s \in active}

StartEntry ==
    /\ run.kind = "free" /\ queued > 0
    /\ queued' = queued - 1
    /\ IF active = {}
       THEN /\ fanRow' = [fanRow EXCEPT ![Wire] = "rejected"]
            /\ Tell("rejected")
            /\ UNCHANGED <<run, firsts>>
       ELSE /\ fanRow' = [fanRow EXCEPT ![Wire] = IF @ = "none" THEN "pending" ELSE @]
            /\ run' = [Free EXCEPT !.kind = "entry", !.at = "gate", !.todo = Lineages,
                                   !.fan = Cardinality(active) > 1]
            /\ firsts' = firsts \cup {Oldest}
            /\ UNCHANGED heard
    /\ UNCHANGED <<fanExec, acct, park, owner, venue, world, poll, timer, spent>>

-----------------------------------------------------------------------------
(* One subscription's run.                                                 *)

\* What a fan-out notes of a lineage that ended: its last ack, or that it
\* threw, or what its row says.
Outcome(ack, threw, status) ==
    CASE ack # "none"         -> ack
      [] run.sink # "none"    -> run.sink
      [] threw                -> "rejected"
      [] status = "pending"   -> "pending"
      [] OTHER                -> "skipped"

\* Mutant: a throw is not caught per lineage and ends the whole fan-out.
EndAborts(ack, threw, status) ==
    LET rest == run.todo \ {Now} IN
    IF threw
    THEN /\ fanRow' = [fanRow EXCEPT ![Wire] = "rejected"]
         /\ run' = Free
         /\ UNCHANGED heard
    ELSE /\ fanRow' = [fanRow EXCEPT ![Now.id] = status]
         /\ IF run.fan
            THEN /\ run' = [run EXCEPT !.todo = rest, !.sink = "none",
                                       !.at = IF rest = {} THEN "finish" ELSE "gate",
                                       !.outs = @ \cup {Outcome(ack, threw, status)}]
                 /\ UNCHANGED heard
            ELSE /\ run' = Free
                 /\ IF ack = "none" THEN UNCHANGED heard ELSE Tell(ack)

\* The lineage ends with its row at `status`; in a fan-out the next one follows.
End(ack, threw, status) ==
    LET rest == run.todo \ {Now} IN
    /\ fanRow' = [fanRow EXCEPT ![Now.id] = status]
    /\ IF run.fan
       THEN /\ run' = [run EXCEPT !.todo = rest, !.sink = "none",
                                  !.at = IF rest = {} THEN "finish" ELSE "gate",
                                  !.outs = @ \cup {Outcome(ack, threw, status)}]
            /\ UNCHANGED heard
       ELSE /\ run' = Free
            /\ IF ack = "none" THEN UNCHANGED heard ELSE Tell(ack)

Recorded == IF fanRow[Now.id] = "none" THEN "pending" ELSE fanRow[Now.id]

\* Up to the market guard: the run goes on, or is refused by a gate of its own.
Gate ==
    /\ run.kind \in {"entry", "resume"} /\ run.at = "gate"
    /\ \/ /\ run' = [run EXCEPT !.at = "guard"]
          /\ fanRow' = [fanRow EXCEPT ![Now.id] = Recorded]
          /\ UNCHANGED <<heard, spent>>
       \/ /\ spent.troubles < MaxTroubles /\ Spend("troubles")
          /\ End("rejected", FALSE, "rejected")
    /\ UNCHANGED <<fanExec, acct, park, owner, venue, world, queued, poll, timer, firsts>>

\* Or it throws on the way there. A fan-out catches that and goes on with the
\* next lineage. Nothing catches it in a run of one subscription, which leaves
\* its row as it was: a resume takes the poller's pass with it, and the entry
\* stays parked.
Throw ==
    /\ run.kind \in {"entry", "resume"} /\ run.at = "gate"
    /\ spent.troubles < MaxTroubles /\ Spend("troubles")
    /\ IF run.fan
       THEN End("none", TRUE, "rejected") /\ UNCHANGED poll
       ELSE /\ run' = Free
            /\ poll' = IF run.kind = "resume" THEN Rest ELSE poll
            /\ UNCHANGED <<fanRow, heard>>
    /\ UNCHANGED <<fanExec, acct, park, owner, venue, world, queued, timer, firsts>>

\* The market is closed: the entry is parked, once.
Defer ==
    /\ run.at = "guard"
    /\ IF park[Now.id] = "none"
       THEN /\ park' = [park EXCEPT ![Now.id] = "waiting"]
            /\ owner' = [owner EXCEPT ![Now.id] = Now.sub]
            /\ timer' = TRUE
            /\ End("deferred", FALSE, "deferred")
       ELSE /\ End("none", FALSE, fanRow[Now.id])
            /\ UNCHANGED <<park, owner, timer>>
    /\ UNCHANGED <<fanExec, acct, venue, world, queued, poll, firsts, spent>>

\* Mutant: the execution row does not stop a second order.
InsertAgain ==
    /\ run.at = "guard"
    /\ fanExec' = [fanExec EXCEPT ![Now.id] = "open"]
    /\ acct' = [acct EXCEPT ![Now.id] = Now.sub]
    /\ run' = [run EXCEPT !.at = "place"]
    /\ UNCHANGED <<fanRow, heard>>
    /\ UNCHANGED <<park, owner, venue, world, queued, poll, timer, firsts, spent>>

\* The execution row comes before the order; a lineage that has one is a duplicate.
Insert ==
    /\ run.at = "guard"
    /\ IF fanExec[Now.id] = "none"
       THEN /\ fanExec' = [fanExec EXCEPT ![Now.id] = "open"]
            /\ acct' = [acct EXCEPT ![Now.id] = Now.sub]
            /\ run' = [run EXCEPT !.at = "place"]
            /\ UNCHANGED <<fanRow, heard>>
       ELSE End("none", FALSE, fanRow[Now.id]) /\ UNCHANGED <<fanExec, acct>>
    /\ UNCHANGED <<park, owner, venue, world, queued, poll, timer, firsts, spent>>

Sends(st) ==
    /\ order' = [order EXCEPT ![Now.id] = st]
    /\ fanSent' = [fanSent EXCEPT ![Now.sub] = @ + 1]

\* Filled; refused; unknown for now; or the call threw on an order that may still fill.
Place ==
    /\ run.at = "place"
    /\ \/ Sends("filled") /\ End("executed", FALSE, "executed") /\ UNCHANGED <<fanExec, spent>>
       \/ /\ spent.troubles < MaxTroubles /\ Spend("troubles")
          /\ \/ /\ Sends("refused") /\ End("rejected", FALSE, "rejected")
                /\ fanExec' = [fanExec EXCEPT ![Now.id] = "error"]
             \/ Sends("working") /\ End("none", FALSE, "pending") /\ UNCHANGED fanExec
             \/ /\ Sends("working") /\ End("rejected", FALSE, "rejected")
                /\ fanExec' = [fanExec EXCEPT ![Now.id] = "error"]
    /\ UNCHANGED <<acct, park, owner, world, queued, poll, timer, firsts>>

\* The wire row takes the aggregate, and the server hears it once.
Finish ==
    /\ run.at = "finish"
    /\ LET st == Aggregate(run.outs) IN
       /\ fanRow' = IF st = "none" THEN fanRow ELSE [fanRow EXCEPT ![Wire] = st]
       /\ IF st \in {"none", "pending"} THEN UNCHANGED heard ELSE Tell(st)
    /\ run' = Free
    /\ UNCHANGED <<fanExec, acct, park, owner, venue, world, queued, poll, timer, firsts, spent>>

\* A background pass learns what became of an unknown order.
FanResolve(i) ==
    /\ run.kind = "free" /\ order[i] = "working"
    /\ \/ /\ order' = [order EXCEPT ![i] = "filled"]
          /\ fanExec' = [fanExec EXCEPT ![i] = "open"]
          /\ fanRow' = [fanRow EXCEPT ![i] = "executed"]
          /\ Tell("executed")
       \/ /\ order' = [order EXCEPT ![i] = "refused"]
          /\ fanExec' = [fanExec EXCEPT ![i] = "error"]
          /\ fanRow' = [fanRow EXCEPT ![i] = "rejected"]
          /\ Tell("rejected")
    /\ UNCHANGED <<acct, park, owner, fanSent, world, queued, run, poll, timer, firsts, spent>>

-----------------------------------------------------------------------------
(* Waiting for market open.                                                *)

FanWaiting == {i \in Ids : park[i] = "waiting"}

\* A tick lists the waiting rows; without any the timer stops. The deadline of a
\* row that waits no more is of no interest.
Tick ==
    /\ timer /\ poll.at = "idle"
    /\ IF FanWaiting = {}
       THEN timer' = FALSE /\ UNCHANGED poll
       ELSE poll' = [at |-> "visit", todo |-> FanWaiting]
            /\ UNCHANGED timer
    /\ late' = late \cap FanWaiting
    /\ UNCHANGED <<db, venue, active, old, heard, queued, run, firsts, spent>>

Resolved(i, st) == IF park[i] = "waiting" THEN [park EXCEPT ![i] = st] ELSE park

\* The listed row the tick has come to.
Row == CHOOSE i \in poll.todo : \A j \in poll.todo : i <= j

Done ==
    poll' = [at |-> IF poll.todo = {Row} THEN "idle" ELSE "visit", todo |-> poll.todo \ {Row}]

\* A listed row past its deadline expires, if it is still waiting.
Expire ==
    /\ poll.at = "visit" /\ Row \in late
    /\ LET i == Row IN
       /\ park' = Resolved(i, "expired")
       /\ IF park[i] = "waiting"
          THEN fanRow' = [fanRow EXCEPT ![i] = "expired"] /\ FanAck(i, "rejected")
          ELSE UNCHANGED <<fanRow, run, heard>>
    /\ Done
    /\ UNCHANGED <<fanExec, acct, owner, venue, world, queued, timer, firsts, spent>>

\* Another one waits for its venue, and then for the order lock.
Visit ==
    /\ poll.at = "visit" /\ Row \notin late
    /\ poll' = [poll EXCEPT !.at = "lock"] \/ Done
    /\ UNCHANGED <<db, venue, world, heard, queued, run, timer, firsts, spent>>

\* The entry runs for the subscription that parked it; the listed row is not read again.
Resume ==
    /\ poll.at = "lock" /\ run.kind = "free"
    /\ LET i == Row IN
       IF owner[i] \in active
       THEN /\ run' = [Free EXCEPT !.kind = "resume", !.at = "gate",
                                   !.todo = {Item(i, owner[i])}]
            /\ UNCHANGED <<fanRow, heard>>
       ELSE /\ fanRow' = [fanRow EXCEPT ![i] = "rejected"]
            /\ Tell("rejected")
            /\ UNCHANGED run
    /\ poll' = [poll EXCEPT !.at = "after"]
    /\ UNCHANGED <<fanExec, acct, park, owner, venue, world, queued, timer, firsts, spent>>

\* The row resolves by the signal's status; one parked again keeps waiting.
Resumed ==
    /\ poll.at = "after" /\ run.kind # "resume"
    /\ LET i == Row IN
       park' = IF fanRow[i] = "deferred" THEN park
               ELSE Resolved(i, IF fanRow[i] \in {"executed", "pending"} THEN "executed" ELSE "rejected")
    /\ Done
    /\ UNCHANGED <<fanRow, fanExec, acct, owner, venue, world, heard, queued, run, timer, firsts, spent>>

-----------------------------------------------------------------------------
(* The position's close.                                                   *)

Holders == {i \in Ids : fanExec[i] = "open"}

\* It retires what is still parked; then it closes each account that holds a lineage.
\* One that finds neither changes nothing.
StartClose ==
    /\ spent.closes < MaxCloses /\ run.kind = "free"
    /\ Holders \cup FanWaiting # {}
    /\ Spend("closes")
    /\ park' = [i \in Ids |-> IF i \in FanWaiting THEN "cancelled" ELSE park[i]]
    /\ fanRow' = [i \in Ids |-> IF i \in FanWaiting THEN "expired" ELSE fanRow[i]]
    /\ IF Wire \in FanWaiting THEN Tell("rejected") ELSE UNCHANGED heard
    /\ run' = IF Holders = {} THEN Free
              ELSE [Free EXCEPT !.kind = "close", !.at = "close",
                       !.todo = {Item(i, acct[i]) : i \in Holders}]
    /\ UNCHANGED <<fanExec, acct, owner, venue, world, queued, poll, timer, firsts>>

CloseOne ==
    /\ run.at = "close"
    /\ IF order[Now.id] = "filled"
       THEN /\ order' = [order EXCEPT ![Now.id] = "closed"]
            /\ fanExec' = [fanExec EXCEPT ![Now.id] = "closed"]
            /\ fanRow' = [fanRow EXCEPT ![Now.id] = "closed"]
       ELSE UNCHANGED <<order, fanExec, fanRow>>
    /\ run' = IF run.todo = {Now} THEN Free ELSE [run EXCEPT !.todo = @ \ {Now}]
    /\ UNCHANGED <<acct, park, owner, fanSent, world, heard, queued, poll, timer, firsts, spent>>

-----------------------------------------------------------------------------
(* The surroundings.                                                       *)

\* Mutant: boot leaves the poller to the next parked entry.
CrashUnpolled ==
    /\ spent.troubles < MaxTroubles /\ Spend("troubles")
    /\ \/ UNCHANGED <<order, fanSent>>
       \/ run.at = "place" /\ Sends("filled")
    /\ queued' = 0 /\ run' = Free /\ poll' = Rest /\ timer' = FALSE
    /\ heard' = IF \E i \in Ids : Executed(i)' THEN Missed ELSE heard
    /\ UNCHANGED <<db, world, firsts>>

\* The lock, the queue, the sinks and the poller are gone, the database is
\* not; an order on its way to the venue may have reached it. Boot starts the poller.
FanCrash ==
    /\ spent.troubles < MaxTroubles /\ Spend("troubles")
    /\ \/ UNCHANGED <<order, fanSent>>
       \/ run.at = "place" /\ Sends("filled")
    /\ queued' = 0 /\ run' = Free /\ poll' = Rest /\ timer' = TRUE
    /\ heard' = IF \E i \in Ids : Executed(i)' THEN Missed ELSE heard
    /\ UNCHANGED <<db, world, firsts>>

DeadlinePasses ==
    /\ FanWaiting \ late # {}
    /\ late' = late \cup FanWaiting
    /\ UNCHANGED <<db, venue, active, old, heard, queued, run, poll, timer, firsts, spent>>

Pause(s) ==
    /\ s \in active /\ spent.troubles < MaxTroubles /\ Spend("troubles")
    /\ active' = active \ {s}
    /\ UNCHANGED <<db, venue, late, old, heard, queued, run, poll, timer, firsts>>

Steps == Gate \/ Throw \/ Defer \/ Insert \/ Place \/ Finish \/ CloseOne
Polling == Tick \/ Expire \/ Visit \/ Resume \/ Resumed

FanNext ==
    \/ FanDeliver \/ StartEntry \/ Steps \/ Polling
    \/ StartClose \/ FanCrash \/ DeadlinePasses
    \/ \E i \in Ids : FanResolve(i)
    \/ \E s \in Subs : Pause(s)

FanSpec == FanInit /\ [][FanNext]_fanVars

\* The executor goes on with what it started, its timers fire, time passes and
\* the venue reports an order in the end.
FanFairness ==
    /\ WF_fanVars(Steps \/ StartEntry)
    /\ WF_fanVars(Polling)
    /\ WF_fanVars(DeadlinePasses)
    /\ WF_fanVars(\E i \in Ids : FanResolve(i))

FanFairSpec == FanSpec /\ FanFairness

-----------------------------------------------------------------------------
(* Properties.                                                             *)

Statuses == {"none", "pending", "executed", "rejected", "deferred", "expired", "closed"}

\* Every variable keeps its type.
FanTypeOK ==
    /\ active \subseteq Subs /\ late \subseteq Ids /\ firsts \subseteq Subs
    /\ fanRow \in [Ids -> Statuses]
    /\ fanExec \in [Ids -> {"none", "open", "error", "closed"}]
    /\ acct \in [Ids -> Subs \cup {0}] /\ owner \in [Ids -> Subs \cup {0}]
    /\ order \in [Ids -> {"none", "working", "filled", "refused", "closed"}]
    /\ park \in [Ids -> {"none", "waiting", "executed", "rejected", "cancelled", "expired"}]
    /\ old \in BOOLEAN /\ timer \in BOOLEAN /\ queued \in 0..MaxDeliveries
    /\ run.kind \in {"free", "entry", "resume", "close"}
    /\ run.at \in {"-", "gate", "guard", "place", "finish", "close"}
    /\ run.outs \subseteq {"executed", "deferred", "pending", "rejected", "skipped"}
    /\ poll.at \in {"idle", "visit", "lock", "after"}
    /\ heard \in {"none", "executed", "missed"}
    /\ fanSent \in [Subs -> Nat]

\* However often the signal is delivered, parked, resumed, retired or cut short
\* by a restart, an account gets one order for it. The exception is a
\* subscription that moves up to the wire id between two deliveries, after an
\* older one was paused: its lineage then has another id, and may run again
\* (childSignalFor numbers the subscriptions that are active now).
OneOrderPerAccount == \A s \in Subs : fanSent[s] > 1 => Cardinality(firsts) > 1

ExecutedIsFilled == heard = "executed" => \E i \in Ids : Executed(i)

\* The server hears `executed` only of a signal that filled on an account, and it
\* hears it of every fill, in whatever order refusals, throws, parkings and
\* unknown outcomes of the other accounts come. The exceptions are a restart after
\* the fill, and a post that fails: it is the only one of its ack.
ExecutedMeansFilled ==
    /\ []ExecutedIsFilled
    /\ (\E i \in Ids : order[i] = "filled") ~> heard # "none"

\* No entry waits for market open for ever: each one runs, expires or is
\* retired, restarts in between or not.
ParkedEnds == (FanWaiting # {}) ~> (FanWaiting = {})
=============================================================================
