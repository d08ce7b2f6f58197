---------------------------- MODULE ContractRoll ----------------------------
(***************************************************************************)
(* A position on an expiring futures contract moves to the next one: the   *)
(* old leg is closed, the same exposure is opened on the new contract, a   *)
(* limit that does not fill is completed at market, and a rejected open is *)
(* undone by buying the old contract back. The user asks for it, or, with  *)
(* EXECUTOR_AUTO_ROLL, the server's roll notice starts it; then the bot's  *)
(* execution and stop are carried over too. Both legs are settled inside   *)
(* the venue's order lock, in line with the closes of the bot.             *)
(*                                                                         *)
(* Source: node-backend/src/services/roll-position.ts, futures-roll.ts,    *)
(* order-lock.ts, handleRollNotice and resolveOrderLockKey of              *)
(* signal-client.ts. The venue is TradeStation: reduceOnly is not sent on. *)
(* One account, one root, long only; prices and the firing of stops are    *)
(* left out, and so are parked stops, take-profits and entry rungs. A      *)
(* bot's close is one step here (see CloseFlow).                           *)
(***************************************************************************)
EXTENDS Integers, Sequences, SequencesExt

CONSTANTS
    Requests,    \* rolls the user asks for
    Stories,     \* what is held and what happens, see Story
    MaxNotices,  \* bound: how often the notice is announced
    MaxFaults    \* bound: rejections, kills, part fills, lost answers, throws and restarts

\* user, bot: contracts held by each; limit: the user's rolls are limit orders; same: they carry
\* one idempotency key; auto: EXECUTOR_AUTO_ROLL; apart: the notice names a bot whose
\* subscription is on another venue, whose lock it is handled under; closes: the bot closes.
Story == [user : Nat, bot : Nat, limit : BOOLEAN, same : BOOLEAN, auto : BOOLEAN, apart : BOOLEAN,
          closes : BOOLEAN]

ASSUME ContractRollAssumption ==
    /\ Stories \subseteq Story
    /\ {MaxNotices, MaxFaults} \subseteq Nat
    /\ Requests \cap {"auto", "notice", "close"} = {}

VARIABLES
    story,   \* the account's story
    pos,     \* venue: net position on each contract
    rest,    \* venue: what legs that were given up have left working
    stop,    \* venue: whose stops rest on each contract
    marker,  \* manual_positions, per contract
    exec,    \* the bot's execution: its contract and what it has open
    line,    \* the venue's order lock: operations in the order they were queued, the first runs
    job,     \* each operation, as far as it got
    used,    \* idempotency keys with a settlement row of a close leg
    seen,    \* handledRollNotices
    notices, faults,
    sold, lost,  \* history: contracts the bot closed; contracts reported as left flat
    ways     \* history: the ways in which a roll came apart, see Ways

venue == <<pos, rest, stop>>
book  == <<marker, exec, used>>
ghost == <<sold, lost>>
vars  == <<story, venue, book, line, job, seen, notices, faults, ghost, ways>>

Contracts == {"old", "new"}
Rolls     == Requests \cup {"auto"}
Jobs      == Rolls \cup {"notice", "close"}

\* killed: an open leg that ended short is reported as rolled; guessed: so is one of unknown
\* outcome; late: a leg that was given up is done after all; thrown: a leg throws when the
\* old one is closed, and nothing is undone; crash: a restart between the legs; stale: the
\* position or execution read before the lock has changed; foreign: the user's roll takes the
\* bot's contracts along, not its execution; mixed: the automatic roll takes the user's along
\* and forgets their marker; split: it moves the execution of a position it moved in part;
\* marked: it marks what it bought back of the bot's as the user's; naked: it fails and leaves
\* the bot without its stop; frozen: it waits for itself.
Ways == {"killed", "guessed", "late", "thrown", "crash", "stale", "foreign", "mixed", "split", "marked",
         "naked", "frozen"}
Way(w, happened) == IF happened THEN {w} ELSE {}

Idle == [step |-> "idle", qty |-> 0, closed |-> 0, opened |-> 0, told |-> [st |-> "none", n |-> 0], result |-> "none"]
Key(r)   == IF story.same /\ r # "auto" THEN "key" ELSE r
Limit(r) == story.limit /\ r # "auto"

Live    == {"close", "closing", "open", "opening", "market", "marketing", "restore", "restoring"}
Results == {"none", "rolled", "aborted", "restored", "incomplete", "failed", "duplicate", "not_held", "reported"}

TypeOK ==
    /\ story \in Stories
    /\ pos \in [Contracts -> Int]
    /\ \A o \in rest : o.roll \in Rolls /\ o.on \in Contracts /\ o.n \in Int \ {0}
    /\ stop \in [Contracts -> SUBSET {"user", "bot"}]
    /\ marker \in [Contracts -> Nat]
    /\ exec.on \in Contracts /\ exec.qty \in 0..story.bot
    /\ IsInjective(line) /\ ToSet(line) \subseteq Jobs
    /\ \A j \in Jobs :
        /\ job[j].step \in Live \cup {"idle", "queued", "handling", "asking", "waiting", "done"}
        /\ job[j].opened <= job[j].closed /\ job[j].closed <= job[j].qty
        /\ job[j].result \in Results
        /\ job[j].step \in Live => line # << >> /\ Head(line) = j
    /\ used \subseteq {Key(r) : r \in Rolls} \cup Requests
    /\ notices \in 0..MaxNotices /\ faults \in 0..MaxFaults
    /\ ways \subseteq Ways

\* The user's and the bot's entries are on the old contract, each with its stop.
Init ==
    /\ story \in Stories
    /\ pos = [c \in Contracts |-> IF c = "old" THEN story.user + story.bot ELSE 0]
    /\ rest = {}
    /\ stop = [c \in Contracts |-> IF c = "old" THEN Way("user", story.user > 0) \cup Way("bot", story.bot > 0) ELSE {}]
    /\ marker = [c \in Contracts |-> IF c = "old" THEN story.user ELSE 0]
    /\ exec = [on |-> "old", qty |-> story.bot]
    /\ line = << >>
    /\ job = [j \in Jobs |-> Idle]
    /\ used = {} /\ seen = FALSE
    /\ notices = 0 /\ faults = 0 /\ sold = 0 /\ lost = 0
    /\ ways = {}

Fault   == faults < MaxFaults /\ faults' = faults + 1
NoFault == UNCHANGED faults
Spoil(ws) == ways' = ways \cup ws

\* Mutant: an operation runs as soon as it is queued.
RunsAtOnce(j) == j \in ToSet(line)

Runs(j) == line # << >> /\ Head(line) = j
Becomes(j, step) == job' = [job EXCEPT ![j].step = step]
Free == line' = Tail(line)
Plus(f, c, n) == [f EXCEPT ![c] = @ + n]
Positive(n) == IF n > 0 THEN n ELSE 0
\* reduceManualPosition: toward flat, no marker stays no marker.
Reduced(c, n) == [marker EXCEPT ![c] = Positive(@ - n)]

----------------------------------------------------------------------------
(* A roll: execute                                                         *)

\* The position is read, its size becomes the quantity, and then the roll joins the line.
Queued(r, q) == [job EXCEPT ![r] = [Idle EXCEPT !.step = "queued", !.qty = q]]

Ask(r) ==
    /\ job[r].step = "idle"
    /\ pos["old"] > 0
    /\ job' = Queued(r, pos["old"])
    /\ line' = Append(line, r)
    /\ UNCHANGED <<story, venue, book, seen, notices, faults, ghost, ways>>

Ended(r, result) == [job EXCEPT ![r].step = "done", ![r].result = result]

Duplicate(r) ==
    /\ Runs(r) /\ job[r].step = "queued"
    /\ Key(r) \in used
    /\ job' = Ended(r, "duplicate")
    /\ Free
    /\ UNCHANGED <<story, venue, book, seen, notices, faults, ghost, ways>>

\* The brackets of the manual entries on the old contract go first.
Retire(r) ==
    /\ Runs(r) /\ job[r].step = "queued"
    /\ Key(r) \notin used
    /\ stop' = [stop EXCEPT !["old"] = @ \ {"user"}]
    /\ Becomes(r, "close")
    /\ Spoil(Way("foreign", r # "auto" /\ exec.on = "old" /\ exec.qty > 0)
             \cup Way("stale", job[r].qty # pos["old"]))
    /\ UNCHANGED <<story, pos, rest, book, line, seen, notices, faults, ghost>>

Leg(r) ==
    LET j == job[r] IN
    CASE j.step = "close"   -> [on |-> "old", qty |-> j.qty, side |-> -1, limit |-> Limit(r), next |-> "closing"]
      [] j.step = "open"    -> [on |-> "new", qty |-> j.closed, side |-> 1, limit |-> Limit(r), next |-> "opening"]
      [] j.step = "market"  -> [on |-> "new", qty |-> j.closed - j.opened, side |-> 1, limit |-> FALSE, next |-> "marketing"]
      [] j.step = "restore" -> [on |-> "old", qty |-> j.closed, side |-> 1, limit |-> FALSE, next |-> "restoring"]

\* What placing and settling a leg can come to. The window closes on a limit and its rest is
\* cancelled; a poll that meets a part-filled order takes it for the end; a leg of unknown
\* outcome, and one that threw, may have reached the venue.
Outcome(st, done, left) == [st |-> st, done |-> done, left |-> left]
Filled(q)    == {Outcome("filled", q, 0)}
Cancelled(q) == {Outcome(IF d > 0 THEN "partially_filled" ELSE "cancelled", d, 0) : d \in 0..(q - 1)}
Troubles(q) ==
    {Outcome("rejected", 0, 0)}
    \cup {Outcome("partially_filled", d, q - d) : d \in 1..(q - 1)}
    \cup {Outcome(st, 0, n) : st \in {"unknown", "thrown"}, n \in {0, q}}

\* One order of the roll, placed, recorded and settled: the venue's part.
Place(r) ==
    /\ Runs(r) /\ job[r].step \in {"close", "open", "market", "restore"}
    /\ LET l == Leg(r) IN
       \E o \in Filled(l.qty) \cup Cancelled(l.qty) \cup Troubles(l.qty) :
        /\ IF o \in Filled(l.qty) \/ (l.limit /\ o \in Cancelled(l.qty)) THEN NoFault ELSE Fault
        /\ pos' = Plus(pos, l.on, l.side * o.done)
        /\ rest' = IF o.left = 0 THEN rest ELSE rest \cup {[roll |-> r, on |-> l.on, n |-> l.side * o.left]}
        /\ used' = used \cup Way(Key(r), job[r].step = "close" /\ o.st # "thrown")
        /\ job' = [job EXCEPT ![r].step = l.next, ![r].told = [st |-> o.st, n |-> o.done]]
        /\ Spoil(Way("thrown", o.st = "thrown" /\ job[r].step # "close"))
    /\ UNCHANGED <<story, stop, marker, exec, line, seen, notices, ghost>>

\* It fills, or is cancelled.
RestFills(o) ==
    /\ o \in rest
    /\ \/ pos' = Plus(pos, o.on, o.n) /\ Spoil({"late"})
       \/ UNCHANGED <<pos, ways>>
    /\ rest' = rest \ {o}
    /\ UNCHANGED <<story, stop, book, line, job, seen, notices, faults, ghost>>

Got(r) == job[r].told.st \in {"filled", "partially_filled"}

\* A leg throws: the roll is over, with whatever it had done.
Throws(r) ==
    /\ job[r].step \in {"closing", "opening", "marketing", "restoring"}
    /\ job[r].told.st = "thrown"
    /\ job' = Ended(r, "failed")
    /\ Free
    /\ UNCHANGED <<story, venue, book, seen, notices, faults, ghost, ways>>

CloseFails(r) ==
    /\ job[r].step = "closing"
    /\ job[r].told.st \in {"rejected", "cancelled", "unknown"}
    /\ job' = Ended(r, "aborted")
    /\ Free
    /\ UNCHANGED <<story, venue, book, seen, notices, faults, ghost, ways>>

Closed(r) ==
    /\ job[r].step = "closing" /\ Got(r)
    /\ job' = [job EXCEPT ![r].step = "open", ![r].closed = job[r].told.n]
    /\ marker' = Reduced("old", job[r].told.n)
    /\ UNCHANGED <<story, venue, exec, used, line, seen, notices, faults, ghost, ways>>

\* The limit did not fill: the rest is bought at market.
Complete(r) ==
    /\ job[r].step = "opening" /\ Limit(r)
    /\ job[r].told.st \in {"cancelled", "partially_filled"}
    /\ job[r].told.n < job[r].closed
    /\ job' = [job EXCEPT ![r].step = "market", ![r].opened = job[r].told.n]
    /\ UNCHANGED <<story, venue, book, line, seen, notices, faults, ghost, ways>>

Opened(r) == IF job[r].step = "marketing" THEN job[r].opened + job[r].told.n ELSE job[r].told.n

OpenRejected(r) ==
    /\ job[r].step \in {"opening", "marketing"}
    /\ job[r].told.st = "rejected" /\ Opened(r) = 0
    /\ Becomes(r, "restore")
    /\ UNCHANGED <<story, venue, book, line, seen, notices, faults, ghost, ways>>

Moved(r) == IF Opened(r) > 0 THEN Opened(r) ELSE job[r].closed

\* Every other end of the open leg is reported as rolled.
Rolled(r) ==
    /\ job[r].step \in {"opening", "marketing"}
    /\ job[r].told.st # "thrown"
    /\ ~(job[r].told.st = "rejected" /\ Opened(r) = 0)
    /\ job[r].step = "opening" => ~(Limit(r) /\ job[r].told.st \in {"cancelled", "partially_filled"}
                                    /\ job[r].told.n < job[r].closed)
    /\ marker' = Plus(marker, "new", Moved(r))
    /\ job' = [job EXCEPT ![r].step = "done", ![r].result = "rolled", ![r].opened = Moved(r)]
    /\ Spoil(Way("killed", job[r].told.st # "unknown" /\ Opened(r) # job[r].closed)
             \cup Way("guessed", job[r].told.st = "unknown"))
    /\ Free
    /\ UNCHANGED <<story, venue, exec, used, seen, notices, faults, ghost>>

\* Mutant: what was bought back is not marked as the user's.
RestoredUnmarked(r) ==
    /\ job[r].step = "restoring" /\ Got(r)
    /\ job' = Ended(r, "restored")
    /\ Spoil(Way("killed", job[r].told.n # job[r].closed))
    /\ Free
    /\ UNCHANGED <<story, venue, book, seen, notices, faults, ghost>>

Restored(r) ==
    /\ job[r].step = "restoring" /\ Got(r)
    /\ marker' = Plus(marker, "old", job[r].told.n)
    /\ job' = Ended(r, "restored")
    /\ Spoil(Way("killed", job[r].told.n # job[r].closed))
    /\ Free
    /\ UNCHANGED <<story, venue, exec, used, seen, notices, faults, ghost>>

Incomplete(r) ==
    /\ job[r].step = "restoring"
    /\ job[r].told.st \in {"rejected", "cancelled", "unknown"}
    /\ lost' = lost + job[r].closed
    /\ job' = Ended(r, "incomplete")
    /\ Free
    /\ UNCHANGED <<story, venue, book, seen, notices, faults, sold, ways>>

Execute(r) ==
    \/ Duplicate(r) \/ Retire(r) \/ Place(r) \/ Throws(r) \/ CloseFails(r) \/ Closed(r)
    \/ Complete(r) \/ OpenRejected(r) \/ Rolled(r) \/ Restored(r) \/ Incomplete(r)

----------------------------------------------------------------------------
(* The roll notice: handleFuturesRollNotice                                *)

\* Announced live, and again at each start of the server's engine. It is handled under the lock
\* of the venue it names, or of the one its bot is subscribed on.
Announce ==
    /\ notices < MaxNotices
    /\ job["notice"].step \in {"idle", "done"}
    /\ notices' = notices + 1
    /\ Becomes("notice", "queued")
    /\ line' = IF story.apart THEN line ELSE Append(line, "notice")
    /\ UNCHANGED <<story, venue, book, seen, faults, ghost, ways>>

LeaveLine == IF story.apart THEN UNCHANGED line ELSE Free

TakeNotice ==
    /\ job["notice"].step = "queued"
    /\ story.apart \/ Runs("notice")
    /\ IF seen THEN Becomes("notice", "done") /\ LeaveLine
               ELSE Becomes("notice", "handling") /\ UNCHANGED line
    /\ seen' = TRUE
    /\ UNCHANGED <<story, venue, book, notices, faults, ghost, ways>>

\* One report per notice and six hours.
SeenLapses ==
    /\ seen /\ job["notice"].step = "done" /\ notices < MaxNotices
    /\ seen' = FALSE
    /\ UNCHANGED <<story, venue, book, line, job, notices, faults, ghost, ways>>

HandleNotice(result) ==
    /\ job["notice"].step = "handling"
    /\ result = IF pos["old"] <= 0 THEN "not_held" ELSE "reported"
    /\ result = "reported" => ~story.auto
    /\ job' = Ended("notice", result)
    /\ LeaveLine
    /\ UNCHANGED <<story, venue, book, seen, notices, faults, ghost, ways>>

Lineage == IF exec.on = "old" THEN exec.qty ELSE 0

\* The stops of the bot's entries are cancelled before the roll.
RollHeld ==
    /\ job["notice"].step = "handling"
    /\ pos["old"] > 0 /\ story.auto
    /\ stop' = IF Lineage > 0 THEN [stop EXCEPT !["old"] = @ \ {"bot"}] ELSE stop
    /\ job' = [job EXCEPT !["notice"].step = "asking", !["notice"].qty = Lineage]
    /\ UNCHANGED <<story, pos, rest, book, line, seen, notices, faults, ghost, ways>>

\* The roll joins the line of the venue; a notice that holds that line's head waits for it.
AskAuto ==
    /\ job["notice"].step = "asking"
    /\ IF pos["old"] > 0
       THEN /\ job' = [Queued("auto", pos["old"]) EXCEPT !["notice"].step = "waiting"]
            /\ line' = Append(line, "auto")
            /\ Spoil(Way("frozen", ~story.apart))
       ELSE /\ job' = Ended("notice", "failed")
            /\ LeaveLine
            /\ Spoil(Way("naked", exec.on = "old" /\ exec.qty > 0))
    /\ UNCHANGED <<story, venue, book, seen, notices, faults, ghost>>

Answered(results) ==
    /\ job["notice"].step = "waiting" /\ job["auto"].step = "done"
    /\ job["auto"].result \in results
    /\ job' = Ended("notice", job["auto"].result)
    /\ LeaveLine
    /\ UNCHANGED <<story, pos, rest, used, seen, notices, ghost>>

Entries == job["notice"].qty

\* The bot's stop is placed again, unless the venue rejects it: that is reported.
Rearm(c, ws) ==
    IF Entries = 0 THEN UNCHANGED stop /\ NoFault /\ UNCHANGED ways
    ELSE \/ stop' = [stop EXCEPT ![c] = @ \cup {"bot"}] /\ NoFault
            /\ Spoil(ws \cup Way("stale", exec.qty # Entries))
         \/ UNCHANGED stop /\ Fault /\ Spoil({"naked"})

\* Mutant: the position stays on the old contract without its stop.
NotMovedUnarmed ==
    /\ Answered({"aborted", "duplicate"})
    /\ UNCHANGED <<stop, ways, marker, exec, faults>>

\* The position is still on the old contract: its stop goes back.
NotMoved ==
    /\ Answered({"aborted", "duplicate"})
    /\ Rearm("old", {})
    /\ UNCHANGED <<marker, exec>>

BoughtBack ==
    /\ Answered({"restored"})
    /\ Rearm("old", {"marked"})
    /\ UNCHANGED <<marker, exec>>

Fails ==
    /\ Answered({"incomplete", "failed"})
    /\ Spoil(Way("naked", Entries > 0))
    /\ UNCHANGED <<stop, marker, exec, faults>>

\* The bot's execution moves to the new contract, which is not the user's then.
CarryOver ==
    /\ Answered({"rolled"})
    /\ exec' = IF Entries > 0 THEN [exec EXCEPT !.on = "new"] ELSE exec
    /\ marker' = IF Entries > 0 THEN Reduced("new", job["auto"].opened) ELSE marker
    /\ Rearm("new", Way("mixed", job["auto"].qty > Entries) \cup Way("split", job["auto"].closed < Entries))

Notice ==
    \/ TakeNotice \/ (\E result \in {"not_held", "reported"} : HandleNotice(result))
    \/ RollHeld \/ AskAuto \/ NotMoved \/ BoughtBack \/ Fails \/ CarryOver

----------------------------------------------------------------------------
(* The bot's close, and restarts                                           *)

CloseArrives ==
    /\ story.closes /\ job["close"].step = "idle"
    /\ Becomes("close", "queued")
    /\ line' = Append(line, "close")
    /\ UNCHANGED <<story, venue, book, seen, notices, faults, ghost, ways>>

\* It sells what the execution has open, or books it closed when the venue holds nothing there.
ClosePosition ==
    /\ Runs("close")
    /\ LET held == Positive(pos[exec.on])
           n    == IF exec.qty <= held THEN exec.qty ELSE held
       IN  /\ pos'  = Plus(pos, exec.on, -n)
           /\ sold' = sold + n
           /\ exec' = [exec EXCEPT !.qty = IF held = 0 THEN 0 ELSE @ - n]
           /\ stop' = IF n = exec.qty \/ held = 0 THEN [stop EXCEPT ![exec.on] = @ \ {"bot"}] ELSE stop
    /\ Becomes("close", "done")
    /\ Free
    /\ UNCHANGED <<story, rest, marker, used, seen, notices, faults, lost, ways>>

\* Nothing takes up a roll that was cut short; the close is delivered again.
Restart ==
    /\ \E j \in Jobs : job[j].step \notin {"idle", "done"} \/ seen
    /\ Fault
    /\ line' = << >>
    /\ job' = [j \in Jobs |-> IF job[j].step \in {"idle", "done"} THEN job[j]
                              ELSE IF j = "close" THEN Idle
                              ELSE [job[j] EXCEPT !.step = "done", !.result = "failed"]]
    /\ seen' = FALSE
    /\ Spoil(Way("crash", \E r \in Rolls : job[r].step \in Live \ {"close"})
             \cup Way("naked", job["notice"].step \in {"asking", "waiting"} /\ Entries > 0))
    /\ UNCHANGED <<story, venue, book, notices, ghost>>

----------------------------------------------------------------------------
Next ==
    \/ \E r \in Requests : Ask(r)
    \/ \E r \in Rolls : Execute(r)
    \/ Announce \/ SeenLapses \/ Notice
    \/ CloseArrives \/ ClosePosition
    \/ \E o \in rest : RestFills(o)
    \/ Restart

Spec == Init /\ [][Next]_vars

\* What is under way goes on: every await is answered.
Fairness ==
    /\ \A r \in Rolls : WF_vars(Execute(r))
    /\ WF_vars(Notice)
    /\ WF_vars(ClosePosition)

FairSpec == Spec /\ Fairness

----------------------------------------------------------------------------
(* Properties *)

Quiet ==
    /\ \A r \in Rolls : job[r].step \notin Live
    /\ job["notice"].step \notin {"asking", "waiting"}

Booked(c) == marker[c] + IF exec.on = c THEN exec.qty ELSE 0

\* Whatever a roll runs into - rejected legs, limits that fill in part or not at all, a close of
\* the bot in line with it, a second submit, notices announced again - the exposure is still
\* there, less what was closed and what was reported as left flat, and each contract is held by
\* whom the book says holds it.
RollKeepsExposure ==
    Quiet /\ ways = {} =>
        /\ pos["old"] + pos["new"] = story.user + story.bot - sold - lost
        /\ \A c \in Contracts : pos[c] = Booked(c)

\* A stop rests only on a contract its owner holds ("a stop left resting on a flat contract opens
\* a naked position", futures-roll.ts), and the bot's position always has one again.
StopsFollow ==
    Quiet /\ ways = {} =>
        \A c \in Contracts :
            /\ "user" \in stop[c] => marker[c] > 0
            /\ "bot" \in stop[c] <=> exec.on = c /\ exec.qty > 0

\* Whoever joins the venue's line gets its turn, and the line moves on.
EveryTurnComes == \A j \in Jobs : (j \in ToSet(line)) ~> (j \notin ToSet(line))

Unspoilt == ways = {}
=============================================================================
