-------------------------- MODULE SignalConnection --------------------------
(***************************************************************************)
(* The executor's connection to the signal service: a socket is dialled,   *)
(* watched, dropped and dialled again, and on every reopening the signals  *)
(* missed meanwhile are asked for. The client keeps one current socket     *)
(* (ws), but each socket carries its own listeners, and these act on the   *)
(* client, whichever socket is current when their event arrives.           *)
(*                                                                         *)
(* Source: node-backend/src/websocket/signal-client.ts (connect,           *)
(* setupEventHandlers, forceReconnect, detachSocket, the watchdog,         *)
(* scheduleReconnect, disconnect). The service is external: it pushes each *)
(* signal on the socket it accepted last and answers request_missed.       *)
(* Time is the number of signals the service has sent out.                 *)
(***************************************************************************)
EXTENDS Naturals, FiniteSets

CONSTANTS
    Sockets,      \* socket objects; one is free again once nothing can come of it
    NoSocket,     \* ws is null
    MaxCalls,     \* bound: connect and disconnect calls of the user
    MaxFaults,    \* bound: handshakes refused or hung, connections lost
    MaxSignals,   \* bound: signals the service sends
    Outdated      \* the service may refuse this version of the executor (426)

ASSUME ConnectionAssumption ==
    /\ NoSocket \notin Sockets
    /\ MaxCalls \in Nat
    /\ MaxFaults \in Nat
    /\ MaxSignals \in Nat
    /\ Outdated \in BOOLEAN

VARIABLES
    ws,           \* the current socket
    sock,         \* state of each socket
    attached,     \* sockets whose listeners are ours
    intentional,  \* isIntentionallyClosed
    reconnect,    \* reconnectInterval: a dial is scheduled
    connTimer,    \* connectTimer: the handshake timeout is armed
    watchdog,     \* stalenessTimer is running
    streak,       \* consecutiveConflictCloses, up to the confirm count
    window,       \* firstConflictCloseAt: "none", "fresh" or "lapsed"
    conflict,     \* conflictSince is set: the standing-conflict status
    last,         \* lastConnectedAt, plus one (0: null)
    hub,          \* the socket the service accepted last
    mail,         \* signals on their way on each socket
    asked,        \* request_missed on its way: its `since`, plus one
    sent,         \* signals the service has sent out
    received,     \* signals the client has handled
    cut,          \* history: a connection ended with signals only it still owed
    calls, faults

linkVars  == <<ws, sock, attached>>
timerVars == <<reconnect, connTimer, watchdog>>
raceVars  == <<streak, window, conflict>>
mailVars  == <<last, hub, mail, asked, sent, received>>
connVars == <<linkVars, intentional, timerVars, raceVars, mailVars, calls, faults>>   \* all but cut

ConfirmCount == 2

\* "stuck", "hung": the peer of a dialled or an open socket is gone and no event
\* tells; "dropped", "conflicted": a 'close' event is due (4409: conflicted).
SockState == {"free", "connecting", "accepted", "stuck", "open", "hung",
              "closing", "dropped", "conflicted", "closed"}

ConnTypeOK ==
    /\ ws \in Sockets \cup {NoSocket}
    /\ sock \in [Sockets -> SockState]
    /\ attached \subseteq Sockets
    /\ intentional \in BOOLEAN
    /\ reconnect \in BOOLEAN /\ connTimer \in BOOLEAN /\ watchdog \in BOOLEAN
    /\ conflict \in BOOLEAN
    /\ streak \in 0..ConfirmCount
    /\ window \in {"none", "fresh", "lapsed"}
    /\ last \in 0..MaxSignals + 1
    /\ hub \in Sockets \cup {NoSocket}
    /\ mail \in [Sockets -> SUBSET (1..MaxSignals)]
    /\ asked \in [Sockets -> 0..MaxSignals + 1]
    /\ sent \in 0..MaxSignals
    /\ received \subseteq 1..MaxSignals
    /\ cut \in BOOLEAN
    /\ calls \in 0..MaxCalls
    /\ faults \in 0..MaxFaults

ConnInit ==
    /\ ws = NoSocket
    /\ sock = [k \in Sockets |-> "free"]
    /\ attached = {}
    /\ intentional = FALSE
    /\ reconnect = FALSE
    /\ connTimer = FALSE
    /\ watchdog = FALSE
    /\ streak = 0
    /\ window = "none"
    /\ conflict = FALSE
    /\ last = 0
    /\ hub = NoSocket
    /\ mail = [k \in Sockets |-> {}]
    /\ asked = [k \in Sockets |-> 0]
    /\ sent = 0
    /\ received = {}
    /\ cut = FALSE
    /\ calls = 0
    /\ faults = 0

Current(k) == k = ws
IsOpen     == ws # NoSocket /\ sock[ws] \in {"open", "hung"}   \* readyState OPEN

Fault  == faults < MaxFaults /\ faults' = faults + 1

\* Signals no later request will ask for again: the replay under way on a socket.
Owes(k) == sock[k] \in {"accepted", "open"} /\ (asked[k] > 0 \/ \E i \in mail[k] : i < last)

----------------------------------------------------------------------------
(* Dialling *)

\* detachSocket: the current socket loses its listeners and is terminated.
Detached == {ws} \ {NoSocket}

Drained(k) == /\ mail'  = [mail EXCEPT ![k] = {}]
              /\ asked' = [asked EXCEPT ![k] = 0]

\* Mutant: a dial arms no handshake timeout.
DialUntimed(k) ==
    /\ sock[k] = "free"
    /\ attached' = (attached \ Detached) \cup {k}
    /\ sock' = [j \in Sockets |-> IF j = k THEN "connecting"
                                  ELSE IF j \in Detached THEN "free" ELSE sock[j]]
    /\ ws' = k
    /\ connTimer' = FALSE
    /\ Drained(k)
    /\ UNCHANGED <<last, hub, sent, received>>

\* connect(): the previous socket is detached and a new one is dialled.
Dial(k) ==
    /\ sock[k] = "free"
    /\ attached' = (attached \ Detached) \cup {k}
    /\ sock' = [j \in Sockets |-> IF j = k THEN "connecting"
                                  ELSE IF j \in Detached THEN "free" ELSE sock[j]]
    /\ ws' = k
    /\ connTimer' = TRUE
    /\ Drained(k)
    /\ UNCHANGED <<last, hub, sent, received>>

Connect(k) ==
    /\ calls < MaxCalls
    /\ calls' = calls + 1
    /\ intentional' = FALSE
    /\ Dial(k)
    /\ UNCHANGED <<reconnect, watchdog, raceVars, faults>>

\* The reconnect timer.
Redial(k) ==
    /\ reconnect
    /\ reconnect' = FALSE
    /\ ~intentional
    /\ Dial(k)
    /\ UNCHANGED <<intentional, watchdog, raceVars, calls, faults>>

\* disconnect(): the socket is asked to close and let go, its listeners on it.
\* A socket still dialling is aborted, which is a 'close' event too.
Disconnect ==
    /\ calls < MaxCalls
    /\ calls' = calls + 1
    /\ intentional' = TRUE
    /\ watchdog' = FALSE /\ connTimer' = FALSE /\ reconnect' = FALSE
    /\ ws' = NoSocket
    /\ sock' = [k \in Sockets |->
                  IF ~Current(k) THEN sock[k]
                  ELSE CASE sock[k] \in {"connecting", "accepted", "stuck"} -> "dropped"
                         [] sock[k] \in {"open", "hung"} -> "closing"
                         [] sock[k] = "closed" -> "free"
                         [] OTHER -> sock[k]]
    /\ UNCHANGED <<attached, raceVars, mailVars, faults>>

\* scheduleReconnect: one timer at most, none once closed on purpose.
ScheduleReconnect == reconnect' = (reconnect \/ ~intentional)

\* Mutant: the hung socket is terminated and its 'close' event waited for.
AwaitClose ==
    /\ watchdog' = FALSE
    /\ UNCHANGED <<linkVars, reconnect, connTimer>>

\* forceReconnect: the watchdog stops, the socket is detached (its late events
\* are nobody's) and a dial is scheduled directly.
ForceReconnect ==
    /\ watchdog' = FALSE
    /\ connTimer' = FALSE
    /\ ws' = NoSocket
    /\ attached' = attached \ Detached
    /\ sock' = [k \in Sockets |-> IF k \in Detached THEN "free" ELSE sock[k]]
    /\ ScheduleReconnect

\* A dial the service would still answer times out only by a fault: 30 s went by.
HandshakeTimeout ==
    /\ connTimer
    /\ IF ws # NoSocket /\ ~IsOpen /\ ~intentional
       THEN ForceReconnect
       ELSE connTimer' = FALSE /\ UNCHANGED <<linkVars, reconnect, watchdog>>
    /\ IF ws # NoSocket /\ sock[ws] \in {"connecting", "accepted"} THEN Fault ELSE UNCHANGED faults
    /\ UNCHANGED <<intentional, streak, window, conflict, mailVars, calls>>

WatchdogFires ==
    /\ watchdog
    /\ ws # NoSocket /\ sock[ws] = "hung"
    /\ ForceReconnect
    /\ UNCHANGED <<intentional, streak, window, conflict, mailVars, calls, faults>>

----------------------------------------------------------------------------
(* Events of a socket *)

\* The service takes the connection; the client hears of it later.
Accept(k) ==
    /\ sock[k] = "connecting"
    /\ sock' = [sock EXCEPT ![k] = "accepted"]
    /\ hub' = k
    /\ UNCHANGED <<ws, attached, intentional, timerVars, raceVars,
                   last, mail, asked, sent, received, calls, faults>>

\* Mutant: the clock of the last opening runs ahead of the service's.
OnOpenAhead(k) ==
    /\ sock[k] = "accepted" /\ k \in attached
    /\ sock' = [sock EXCEPT ![k] = "open"]
    /\ conflict' = FALSE
    /\ connTimer' = FALSE /\ reconnect' = FALSE /\ watchdog' = TRUE
    /\ asked' = [asked EXCEPT ![k] = last]
    /\ last' = sent + 2
    /\ UNCHANGED <<ws, attached, intentional, streak, window,
                   hub, mail, sent, received, calls, faults>>

\* 'open': timers off, the watchdog starts, and what was sent since the last
\* opening is asked for.
OnOpen(k) ==
    /\ sock[k] = "accepted" /\ k \in attached
    /\ sock' = [sock EXCEPT ![k] = "open"]
    /\ conflict' = FALSE
    /\ connTimer' = FALSE /\ reconnect' = FALSE /\ watchdog' = TRUE
    /\ asked' = [asked EXCEPT ![k] = last]
    /\ last' = sent + 1
    /\ UNCHANGED <<ws, attached, intentional, streak, window,
                   hub, mail, sent, received, calls, faults>>

\* Any refusal of the upgrade but 426: the dial is abandoned, another scheduled.
HandshakeRefused(k) ==
    /\ Fault
    /\ sock[k] = "connecting" /\ Current(k) /\ ~intentional
    /\ ForceReconnect
    /\ UNCHANGED <<intentional, streak, window, conflict, mailVars, calls>>

\* 426: too old to connect. The loop stops for good; the socket is left there.
UpgradeRequired(k) ==
    /\ Outdated
    /\ sock[k] = "connecting" /\ k \in attached
    /\ intentional' = TRUE
    /\ reconnect' = FALSE
    /\ sock' = [sock EXCEPT ![k] = "closed"]
    /\ UNCHANGED <<ws, attached, connTimer, watchdog, raceVars, mailVars, calls, faults>>

\* A dial or a connection is lost, with a 'close' event to come or in silence.
Lost(k, how) ==
    /\ Fault
    /\ \/ sock[k] \in {"connecting", "accepted"} /\ how \in {"dropped", "stuck"}
       \/ sock[k] = "open" /\ how \in {"dropped", "conflicted", "hung"}
    /\ sock' = [sock EXCEPT ![k] = how]
    /\ UNCHANGED <<ws, attached, intentional, timerVars, raceVars, mailVars, calls>>

\* The peer answers our close, or the socket gives up waiting for that.
CloseAnswered(k) ==
    /\ sock[k] = "closing"
    /\ sock' = [sock EXCEPT ![k] = "dropped"]
    /\ UNCHANGED <<ws, attached, intentional, timerVars, raceVars, mailVars, calls, faults>>

\* A 4409 within the window of the first one counts up; after it, from one.
CountConflict ==
    IF window = "fresh"
    THEN streak' = IF streak < ConfirmCount THEN streak + 1 ELSE streak
    ELSE streak' = 1

\* 'close' of a connection that was not closed on purpose.
CloseEvent(k) ==
    /\ k \in attached
    /\ sock[k] \in {"dropped", "conflicted"}
    /\ sock' = [sock EXCEPT ![k] = IF Current(k) THEN "closed" ELSE "free"]
    /\ attached' = attached \ {k}
    /\ watchdog' = FALSE
    /\ ScheduleReconnect
    /\ IF intentional
       THEN UNCHANGED raceVars
       ELSE IF sock[k] = "conflicted"
       THEN /\ CountConflict
            /\ window' = "fresh"
            /\ conflict' = (conflict \/ streak' = ConfirmCount)
       ELSE /\ streak' = 0
            /\ window' = "none"
            /\ UNCHANGED conflict
    /\ UNCHANGED <<ws, intentional, connTimer, mailVars, calls, faults>>

WindowLapses ==
    /\ window = "fresh"
    /\ window' = "lapsed"
    /\ UNCHANGED <<linkVars, intentional, timerVars, streak, conflict, mailVars, calls, faults>>

----------------------------------------------------------------------------
(* Signals *)

\* The service sends a signal: pushed to the socket it accepted last, kept for replay.
SendSignal ==
    /\ sent < MaxSignals
    /\ last > 0
    /\ sent' = sent + 1
    /\ mail' = IF hub # NoSocket /\ sock[hub] \in {"accepted", "open"}
               THEN [mail EXCEPT ![hub] = @ \cup {sent + 1}] ELSE mail
    /\ UNCHANGED <<linkVars, intentional, timerVars, raceVars,
                   last, hub, asked, received, calls, faults>>

\* request_missed reaches the service: every signal since then goes out again.
Replay(k) ==
    /\ sock[k] = "open" /\ asked[k] > 0
    /\ mail'  = [mail EXCEPT ![k] = @ \cup {i \in 1..sent : i >= asked[k]}]
    /\ asked' = [asked EXCEPT ![k] = 0]
    /\ UNCHANGED <<linkVars, intentional, timerVars, raceVars, last, hub, sent, received, calls, faults>>

OnMessage(k) ==
    /\ k \in attached
    /\ sock[k] \in {"open", "closing"}
    /\ \E i \in mail[k] :
         /\ received' = received \cup {i}
         /\ mail' = [mail EXCEPT ![k] = @ \ {i}]
    /\ UNCHANGED <<linkVars, intentional, timerVars, raceVars, last, hub, asked, sent, calls, faults>>

----------------------------------------------------------------------------
Drop(k) == \E how \in {"dropped", "conflicted", "hung", "stuck"} : Lost(k, how)

Step ==
    \/ Disconnect \/ HandshakeTimeout \/ WatchdogFires \/ WindowLapses \/ SendSignal
    \/ \E k \in Sockets :
         \/ Connect(k) \/ Redial(k) \/ Accept(k) \/ OnOpen(k)
         \/ HandshakeRefused(k) \/ UpgradeRequired(k) \/ Drop(k) \/ CloseAnswered(k)
         \/ CloseEvent(k) \/ Replay(k) \/ OnMessage(k)

ConnNext ==
    /\ Step
    /\ cut' = (cut \/ \E k \in Sockets : Owes(k) /\ sock'[k] \notin {"accepted", "open"})

ConnSpec == ConnInit /\ [][ConnNext]_<<connVars, cut>>

SocketEvent(k) == Accept(k) \/ OnOpen(k) \/ CloseEvent(k) \/ CloseAnswered(k)

\* Timers fire, the service answers a dial, and socket events are delivered.
ConnFairSpec ==
    /\ ConnSpec
    /\ WF_connVars(HandshakeTimeout)
    /\ WF_connVars(WatchdogFires)
    /\ WF_connVars(\E k \in Sockets : Redial(k))
    /\ WF_connVars(\E k \in Sockets : SocketEvent(k))

----------------------------------------------------------------------------
(* Properties *)

Dialling == ws # NoSocket /\ sock[ws] \in {"connecting", "accepted", "stuck"} /\ connTimer
Watched  == IsOpen /\ watchdog
Wakeable == \/ reconnect
            \/ ws # NoSocket /\ sock[ws] \in {"dropped", "conflicted"} /\ ws \in attached
            \/ Dialling
            \/ Watched

\* A client that was told to connect is never stranded: whatever was lost,
\* refused or went quiet, and whatever an older socket's late event did, there
\* is a timer, a watchdog or an event left that leads to another dial.
NeverStranded == calls > 0 /\ ~intentional => Wakeable

\* Once the service is reachable for good, a client that was told to connect is
\* connected for good: "Never give up" (scheduleReconnect).
Reconnects == <>[](calls > 0 /\ ~intentional => IsOpen /\ sock[ws] = "open")

\* "Request replay of signals missed during downtime" (setupEventHandlers): a
\* signal sent out while the client is away, or whose push is lost, was handled,
\* is on its way, or is covered by a request made or to be made.
OnItsWay(i) == \E k \in attached :
                 /\ sock[k] \in {"accepted", "open"}
                 /\ i \in mail[k] \/ (asked[k] > 0 /\ i >= asked[k])
NothingMissed == \A i \in 1..sent : i \in received \/ i >= last \/ OnItsWay(i)

\* The same, as long as no connection ended before its replay was through.
NothingMissedUncut == ~cut => NothingMissed

\* Neither the client nor a signal is left behind by an outage.
NeverLeftBehind == NeverStranded /\ NothingMissedUncut
=============================================================================
