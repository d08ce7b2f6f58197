# KaiBot Terminal: TLA+ models of the executor

KaiBot Terminal is a self-hosted order executor. A signal service sends signals
over a WebSocket; the executor's Node backend
(`apps/kaibot-executor/node-backend/src`) checks and sizes each one, places
orders at the user's venues, books the fills in SQLite and acks the signal. The
models cover the part where money is lost when steps interleave badly: the life
of an entry order, of a close and of a stop, the lock that serialises them, the
kill switch, the fan-out over accounts, the reconciler, the services that trade
on their own (synthetic dollars, accumulation plans, contract rolls), and the
connection that must not lose a signal.

Paths below are relative to `src/apps/kaibot-executor/node-backend/src/` unless
they start with `packages/` or `apps/`.

## 1. Inventory

### Parts, their state and operations

| Part | State | Operations | Correct when |
|---|---|---|---|
| Signal connection (`websocket/signal-client.ts`) | socket, reconnect, handshake and staleness timers, `lastConnectedAt`, conflict streak | connect, detach, redial, disconnect, request_missed | a client meant to be connected always has something left that dials again; nothing sent during an outage is lost |
| Entry path (same file, `services/order-settlement.ts`) | `signals`, `signal_executions`, `order_settlements`, `signal_fills` | deliver, replay, guards, seed, place, settle, book, ack; `resolveUnknownOrders` | one order per signal, every filled contract booked or chased, acks true |
| Close path (same file, `services/exit-attribution.ts`, `position-lineage.ts`) | executions' `closing` state and pending quantity, exit settlements and fills | `executeCloseSignal`, `bookClosedExecution`, `retryPendingCloses`, late resolution | never sells another bot's contracts, never forgets a held one, ends |
| Order lock (`services/order-lock.ts`) | a promise chain per venue | `withOrderLock` | FIFO per venue, independent between venues |
| PANIC and daily-loss trip (`services/panic.ts`, `daily-loss-trip.ts`, `account-halt.ts`) | `executor_halt`, `account_halts` | flatten all or one account, book, retire protection, report | `flat` is true; nothing is turned around; a trip stays on its account |
| Fan-out (`services/fanout.ts`, `signal-client.ts`) | outcomes per subscription, wire row | run each, aggregate, ack | one order per account, `executed` of a real fill, failures isolated |
| Deferred entries (`signal-client.ts`, `services/deferred-entries.ts`) | `deferred_entries`, poll timer | park, resume, expire, retire, reopen | resumed once, never parked for ever |
| Server exits (`server-exit-stop.ts`, `pending-stop.ts`, `venue-exit-sweep.ts`) | `server_exit_state`, bracket legs, recorded stops | replace, park, heal, detect, book | protection without a gap, one exit, one report |
| Reconciler (`reconciler.ts`) | first passes, cooldown, agreeing pass | settle, read book and venue, adopt, correct, hold | never trades against orders in flight or the user |
| Synthetic dollar (`synthetic-guard.ts`, `synthetic-usd.ts`, `synthetic-rebalancer.ts`) | `synthetic_usd_positions`, rows in flight | arm, fire, unwind, mint, scale, close, rebalance | the row says what is short; a floor only rises |
| Accumulate and ride (`accumulate-ride-service.ts`, `accumulate-ride-store.ts`) | `accumulate_plans`, `accumulate_rungs`, `dca_resting_rungs` | ladder, breakout, hand-over, stop, floor, sweep | every contract is held by a ride or a stop, no rung untracked |
| Contract roll (`roll-position.ts`, `futures-roll.ts`) | settlement rows by key, handled notices, markers | close old, open new, complete, restore; carry over | same exposure on one contract, with book and stops |
| Manual trades (`manual-trade.ts`, `manual-trade-guards.ts`) | order settlements | place, bracket, close | same gates as signals |
| Admission and sizing (`guardrails.ts`, `account-sizing.ts`, `market-guard.ts`, `margin-guard.ts`, `basis-guard.ts`) | configuration, positions read | refuse, clip, trip | no rail is bypassed |
| Brackets and cancel-on-fill (`signal-client.ts`) | bracket rows | place, cancel sibling, resize | one exit fills |
| Order ladder, trailing, managers (`order-ladder.ts`, `local-trailing.ts`, `local-position-manager.ts`, `position-manage.ts`, `edge-managers/`) | high-water marks, ownership | ratchet, take over, release | stops only tighten, one owner |
| Collateral and hedge guard (`collateral*.ts`, `hedge-guard.ts`, `netted-close.ts`) | pots, floors | guard, fire, transfer | a floor fires once |
| Venue adapters (`services/exchanges/adapters/`) | sessions, quotes | place, cancel, status | answers mean the same on every venue |
| Sessions, auth, companion, analytics, notifications, UI, desktop shell, `packages/terminal-bridge`, `packages/types` | various | - | not in the order path, or pure |

`PROJECT.json` lists every part with its sources and whether it is modelled.

### How they interact

The connection hands a message to `handleSignal`, which queues the whole
handler on the order lock of the venue of the bot's first subscription. The
handler reads gates and guards (several awaits), inserts the execution row,
calls the adapter, polls the order, books and acks; for a bot with several
subscriptions it does so for each in turn and acks once. A reconciler timer runs
`resolveUnknownOrders`, `retryPendingCloses`, the venue-exit sweep and the
comparison of book and venue under the same lock over the rows the handlers left
behind. Rolls settle inside the lock too. Several operations pass their guards
first and take the lock after: manual orders and closes, rolls of the user, the
order of the synthetic guard. PANIC and the daily-loss trip take no lock at all.
Accumulation plans run on a minute tick of their own. SQLite writes are synchronous, so a run of
statements without an `await` is one step; a crash may fall at any await.

### What is hard

* A signal arrives twice (pushed and replayed), and its status is read before
  the queue is joined.
* The answer to `placeOrder` may be lost, and an order may fill in part and be
  cancelled.
* A venue has one position per symbol; the book has one execution per entry and
  bot. Closes of one bot must not eat another's contracts.
* The kill switch interleaves with every await of an entry.
* A stop is replaced by two calls of which either may be lost, while the market
  may fire what rests.
* Several actors read the venue and the book at different moments and trade on
  what they read.
* Work of several orders is cut short and resumed from a row.
* A lock that is not reentrant is taken from inside itself.
* The socket, its timers and its late events belong to different generations.

`PROJECT.json` lists the hazards, each at its line, with the properties that
guard it.

## 2. Modules

| Module | Models | Used by |
|---|---|---|
| `EntrySettlement` | the entry path, its crash, replay and resolver | `MCEntrySettlement`, `EntryPath_proof` |
| `VenueQueues` | abstract: one FIFO queue per venue | `OrderLock` |
| `OrderLock` | `withOrderLock` and its callers; refines `VenueQueues` | `MCOrderLock`, `EntryPath_proof` |
| `CloseFlow` | the close path, its retries and resolver, on a shared venue position | `MCCloseFlow`, `ClosePath_proof` |
| `PanicHalt` | halt flags, flatten, booking, racing entries | `MCPanicHalt`, `PanicHalt_proof` |
| `SignalConnection` | sockets, timers, replay window, conflict streak | `MCSignalConnection`, `EntryPath_proof` |
| `ExitStop` | the stop of a server-managed position and the venue-exit sweep | `MCExitStop`, `ExitStop_proof` |
| `Reconciler` | the reconciler between bots, venue and user | `MCReconciler`, `ClosePath_proof` |
| `ContractCount` | sums of contracts, counted as a cardinality | `Reconciler`, `CloseFlow`, `AccumulateRide`, `ContractCount_proof` |
| `FanOut` | fan-out, deferred entries, the wire row's ack | `MCFanOut`, `EntryPath_proof` |
| `SyntheticGuard` | the guard, the operator's requests, the rebalancer | `MCSyntheticGuard`, `SyntheticGuard_proof` |
| `AccumulateRide` | one accumulation plan with its decisions, rungs, stop and floor | `MCAccumulateRide`, `AccumulateRide_proof` |
| `ContractRoll` | rolls of the user and the automatic roll, under the lock | `MCContractRoll`, `ContractRoll_proof` |
| `*_proof` | the theorems about the module of that name | |
| `EntryPath_proof` | the theorems about the lock, the connection, the entry and the fan-out | |
| `ClosePath_proof` | the theorems about the reconciler and the closes | |

`MC*` modules only name values for TLC. Definitions marked `Mutant:` in a module
are alternatives of the definition that follows them, each the bug a property
is there to catch; no specification uses them.

### EntrySettlement

`sig`, `exec`, `row`, `fills` are the rows of `signals`, `signal_executions`,
`order_settlements` and `signal_fills`; `holder` and `pc` the handler that has
the order lock and the await it stands at; `ord` and `fill` the venue's side. A
signal has one action per await: `Deliver`, `StaleReplay`, `RefuseOpen`,
`DuplicateOpen`, `SeedOpen`, `SendOrder`, `ReplyFilled`, `ReplyRejected`,
`PlaceThrows`, the polls, `FinishEntry`, `TailThrow`; the resolver has `ResolveFilled`,
`ResolveUnfilled`, `ResolveAbsent`, `ResolveLost`; the venue and the crash are
external. Sizing, guards, market filters and margin are one nondeterministic
refusal ahead of the insert.

Constants: `Signals`; `Qty` contracts per entry; `PartialState`, what the
adapter answers for an order killed after a part fill (`cancelled` or
`partially_filled`); `LivePartial`, whether a resting part-filled order is also
answered so; `Throwing`, signals of which a step after the booking may throw;
`Lossy`, signals of which requests and lookups may be lost on the wire.

### VenueQueues and OrderLock

`VenueQueues` says an operation is queued on a venue, becomes the head, leaves.
`OrderLock` has the `Map` of promise chains: each operation's promise waits for
the one that was the tail when it was called. The key is normalised
(`Canon`: trim, lower case, blank to `global`). An operation reads the book of a
venue, has an order outstanding there, and updates the book. `seen` is the state of the
book its guards were passed on: read in the turn, or, for `Early` operations
(`ReadEarly`), before the lock is asked for. `Unlocked` are
operations that run without the lock (PANIC), `Stalled` those stuck on a call.
Where the order of an operation is refused before it is sent is one of its throws.
Chains are process memory, so a restart is `Init`.

### CloseFlow

`execs` holds the executions of the bots on one account and symbol, all long;
`orders` the venue's reduce-only market orders; `rows` the exit settlements;
`job` and `pc` the running handler or tick, `snap` the position it read. Simplified:
closes name no position, no hedge and no opposite lineage, brackets and stop
sizes left out, `lost` rows left out, and a failed session is one of the
refusals. `CloseInit` picks a story (`Scenarios`): which bots and closes, the kinds of
fault, and the venue adapter: `partial`, the state it reports for an order killed
after a part fill; `acks`, whether it answers `filled` on acceptance; `dedup`,
the venue's treatment of a known client order id, `none` (TradeStation), `reuse`
(Deribit's label lookup), `open` (Binance) or `ever` (Bybit).

### PanicHalt

An entry is `idle`, `gated`, `cleared`, `sent`, `filled`, `held`, or `tripping`
and `refused`; between those steps are the awaits of the handler. A flatten has
a phase, the sessions to go, the position it read, the closes placed. Each
account is a venue connection of its own with one symbol; an entry buys one
contract; a manual order has no execution row. Left out: hedges and netted
closes (the `skipped` results), stops firing at the venue, the venue-exit sweep.

### SignalConnection

`sock` is the life of each socket object at the service and in the client, `ws`
the one the client refers to; `attached` sockets still call the client back.
Timers are booleans: armed or not; how long they take is left out, as are alert
texts and the back-off. Time, where `lastConnectedAt` needs it, is the number of
signals sent. The server is external: it pushes to the last accepted socket and
answers `request_missed` with everything sent since. Signals before the first
connection are not modelled, since the client asks for none. `cut` is history:
some connection ended while the replay it had asked for was still on its way.

### Ways

The next six modules each have a history variable of *ways*: named races and
failures in which the code is known to lose its footing, found with TLC and
confirmed in the source. An action adds a way in the very step in which the code
does the thing, under the conditions that make it harmful. A property then says
"up to the first way": it holds of every behaviour, however long and however many
faults it has, until one of the named things happens. This keeps a property
strong where the code is right, and makes the list of ways the honest statement
of where it is not. Runs that say so stop at the first way (`CONSTRAINT
Unspoilt`), since nothing is claimed of what comes after it.

### ExitStop

`row` is `server_exit_state`, `brk` the stop leg of `bracket_pairs`, `rec` the
entry's `stop_loss_order_id`; a `slot` holds an order id or a parked marker. `op`
is the update or sweep that has the order lock, its `step` the await it stands
at. An update (`BeginUpdate`, `UpdateStep`) retires the old stop and places the
new one, or the other way round where the venue has no reduce-only; the sweep
(`BeginSweep`, `SweepStep`) looks at each tracked stop and books what filled.
`cfg` is the venue: `noReduceOnly`, and `opposed`, where another lineage nets the
account short.

Ways: `orphan`, a new stop that could not be withdrawn (the operator is told);
`forgotten`, a crash or a close lost sight of it; `gap`, the market fired both
stops of a pair that was placed first; `unread`, a fill beat an acked cancel and
the status that shows it could not be read; `missed`, a parked stop landed and
fired before it was looked for among the live ones; `thrown`, a placement that
threw landed on a venue where nothing looks for it; `flat`, an update found the
position flat and retired the only row that names the stop; `left`, a
reduce-only stop that would not go was replaced, or its replacement failed, and no
record names it. (Of a replacement that fails `server-exit-stop.ts:673` logs that the
position is unprotected and clears the slots, also where the old stop still rests.
This takes three faults, one more than the run has; the proof of `FilledIsTracked`
asked for it.)

### Reconciler

The tick runs its pre-steps (sweep, resolve, retry), reads the book, reads the
position, lists working orders, then waits, adopts a close, corrects or holds.
`rec` holds what it has read so far, `corr` its correction orders, `marker` the
row of `manual_positions`, `first` whether the venue's first pass is to come,
`cool` and `grace` its two clocks. Bots enter and close between ticks, the venue
fills and the user trades between its reads.

Ways: `inflight`, it acted while the outcome of an order was open or one came
between its reads; `moved`, the position changed after it was read; `sibling`, a
close was sized or booked on a lineage that does not hold what its row says;
`cleared`, the user's marker was cleared because the net happened to match (the
user's position is sold afterwards); `hidden`, the first pass saw no overhang for
that reason.

### FanOut

`row`, `exec`, `park`, `owner` are the rows of a lineage in `signals`,
`signal_executions` and `deferred_entries`; lineage 0 is the wire id, the others
the children of each subscription. `run` is what holds the order lock (a
fan-out, a resume, a close) and the subscription it is at; `poll` the deferral
poller with the rows it listed. `posted` is what the server has heard.
Settlement is one step, closes are one retirement, the calendar opens at any
moment.

`heard` is history: whether the server was ever told that the signal executed, and
`missed` if the only post of such an ack failed, was not made for want of an API key,
or was cut off by a restart after the fill (`ackToApi`, `signal-client.ts:4982` and `:5011`, logs and
does not retry). A throw of an account's run is not caught where the code seems to
catch it: `signal-client.ts:1182` returns the promise without awaiting it, so the
`catch` at `:1183` sees nothing. `Throw` models what happens instead: a fan-out, which
awaits its runs, counts the account as failed; in a resume the throw ends the pass over
the parked entries (`:7021`), the row stays `deferred` and its park open for the next
pass.

### SyntheticGuard

A `job` is a pass of the guard or a request: `positions`, `listed`, `marking`,
`wait` (for the lock), `sent`, and the awaits of an arm or a drift check.
`inflight` is the guard's in-memory set. `read` is the row as the job last read
it. `Crews` says who acts in a story and how much.

Ways: `part`, a fill in part was booked whole; `unknown`, an order that traded
was reported as failed; `crash`, between a fill and its row; `overlap`, a pass
went on though an order of another was out; `aged`, a pass acted on readings that
are not of one moment; `overtaken`, the row changed between what the sender of an
order read and what the order does; `overwritten`, a pass wrote the trigger of a
row that changed since it listed it; `second`, two live rows.

### AccumulateRide

`plan` is the row with its phase, ladder number and pending decision (`pend`: a
list of actions and how many are done); `slip` the rung rows, `track` the resting
rungs they are booked on; `proc` the tick, the operator's stop and the floor, as
far as each got; `sweep` the reconciler's rung sweep. `bought` keeps, per ladder, the
market entries at the venue, those on record (`manual-trade.ts:463` writes the row
after the placement answers) and those the venue refused. An entry on record is not
placed again (`EntryOnRecord`): one that was rejected makes every later tick throw
(`accumulate-ride-service.ts:458`), any other is taken for bought. The stop and the
floor do not run at the same time in the model. `base` is history: the contracts the user
had before the plan, which stay his unless a hand-over takes the whole position.
What filled, or was booked, over the rungs is summed by `ContractCount`.

Ways: `overwritten`, stopped under a tick that went on; `orphan`, stopped when
something a cut-short action did is not on record; `skipped`, the floor's settle
does not look at a rung of an earlier ladder; `swallowed`, a fill dropped with
its rung; `twice`, sweep and cancel booked one fill; `replayed`, a fill booked
again when the ladder was placed again; `again`, a rung placed again after a stop
that failed half-way; `part`, a part fill at placement taken for booked; `late`,
a rung filled into a ride that had ended; `stale`, the position read for a
hand-over changed; `gone`, it was closed before the hand-over; `refused`, no stop
could be placed for the fills; `ghost`, an entry of which nothing filled is taken for
bought, because the venue accepted it before it died or its row says `cancelled`, `lost`
or `pending`; `erased`, the floor wrote `cancelled` over a rung that had filled since it
read the rungs (`synthetic-guard.ts:1106` does so for each rung of its snapshot). The
settle after it asks the venue again about the rungs of the current ladder and puts them
right (`accumulate-ride-service.ts:970`), so only a rung of an earlier ladder is lost.

### ContractRoll

`line` is the venue's order lock: operations in the order they were queued, of
which the first runs. A roll settles its close leg, opens the same on the new
contract, completes a limit at market, restores the old contract where the open
was rejected. The notice is an operation of the same line; with
`EXECUTOR_AUTO_ROLL` it cancels stops, waits for a roll of its own and carries
the executions over. `Stories` say what is held and what happens. In `apart`
stories the notice names a bot whose subscription is on another venue and is
handled under that venue's lock: the only way in which an automatic roll gets to
run. The venue is TradeStation, where `reduceOnly` is not sent on.

Ways: `killed`, an open leg that ended short is reported as rolled; `guessed`, so
is one of unknown outcome; `late`, a leg that was given up is done after all;
`thrown`, a leg throws when the old one is closed and nothing is undone; `crash`,
between the legs; `stale`, what was read before the lock has changed; `foreign`,
the user's roll takes the bot's contracts along; `mixed`, the automatic roll
takes the user's along and forgets their marker; `split`, it moves the execution
of a position it moved in part; `marked`, it marks what it bought back of the
bot's as the user's; `naked`, it fails and leaves the bot without its stop;
`frozen`, it waits for itself. A user's roll that is aborted also leaves the
user's own stops retired; `StopsFollow` asks for the bot's.

## 3. Runs

| Run | Shows | Bounds |
|---|---|---|
| `entry` | one real order per signal, no invisible exposure, no double booking, every unknown outcome settled; under crash, loss, replay, kill, throws | 2 signals of 2 contracts (part fills need 2), throws and losses for one of them; under fairness |
| `lock` | the chains refine one queue per venue, no guard passed under the lock is stale, a stuck operation freezes only its venue | 5 operations, 2 spellings of one venue and a blank key; one stuck, one fanned out, one that reads before it asks, PANIC without the lock; under fairness |
| `close` | closes sell and book their own bot's contracts, no more than asked; booked exits are real and no contract is forgotten; what is closing is finished | 2 bots of 2 contracts, a half and a full close, each delivered up to twice; or an entry and an add under 2 faults of every kind on 3 adapters; under fairness |
| `panic` | one trip per halt that stays on its account, no reversal, a clean `flat` is true, an unconfirmed close touches nothing, every flatten reports | 2 accounts, a held position, a signal and a manual order; 1 PANIC, 1 loss, 1 failure, 1 resume; under fairness |
| `conn` | never stranded, no signal missed unless a replay was cut off, connected in the end | 3 sockets, 3 user calls, 2 faults of every kind, 1 signal; under fairness |
| `exit_stop` | a lineage is not sold twice; between operations book and venue agree on stops and exits | 3 order ids, 2 updates, 2 faults, all 4 venues |
| `reconciler` | it does not trade while all trades are the executor's; the book is true; book and venue agree again and again | 2 lineages of 2 and 1 contracts, same or opposite side, 2 faults, 1 user trade, 1 correction; under fairness |
| `fanout` | one order per account, `executed` of a real fill and posted after each, nothing parked for ever | 2 subscriptions, 2 deliveries, 1 close, 2 troubles; under fairness |
| `hedge` | the row says what is short, nothing is sold twice, a floor only rises, a breach is answered | 4 prices, 5 crews of 2 or 3 actors, 1 trouble, up to 3 requests; under fairness |
| `accumulate` | no rung untracked, every contract held, a decision ends unless its entry was refused | 2 ladders of one rung of 2 contracts, 3 starts, two of them with a contract of the user's beside, 1 fault; under fairness |
| `roll` | exposure, book and stops agree on both contracts | 2 user rolls, or one beside notice, automatic roll and close; 2 notices, 2 faults |
| `roll_frozen` | violation: `EveryTurnComes` | one notice, one close, nothing fails; under fairness |

Why the bounds are enough: two signals make every race between a handler, a
second handler and the resolver; a third adds only waiting. Two contracts are
the least that fill in part; two entries and two bots the least that share or
split. PANIC and a trip are two flattens, the least that overlap. Three sockets
are the current one, one whose close event is due, and the next. Three order ids
are an old stop, a new one and one that was given up. Two subscriptions are the
one under the wire id and a child. Two passes are the least that overlap, two
ladders the least of which one is earlier. Two faults let a failure meet the
recovery from another.

`roll_frozen` shows where the code does not do what its own comment says: the
roll notice is handled inside the venue's order lock (`signal-client.ts:954`),
and with `EXECUTOR_AUTO_ROLL` it waits for a roll that queues on the same lock
(`roll-position.ts:252`). The lock is not reentrant (`order-lock.ts:30`), so the
roll never runs, the position's stops are already cancelled, and no later order
operation of that venue gets its turn until a restart.

### Hypotheses and other limits

The properties hold under hypotheses that are constants of a run, stand in the
formula, or are ways. Each marks something the code does not guarantee; without
it TLC finds a counterexample in the same model:

* `LivePartial = FALSE`: an adapter reports a resting part-filled order as
  `working`. Binance and Bybit report `partially_filled`, which the settlement
  loop takes as final; the rest of the order then fills unbooked.
* `PartialState`, `partial = "partially_filled"`: a killed order's part fill is
  reported as such. Where it is `cancelled`, the resolver settles the entry as one
  that held nothing (`signal-client.ts`, `resolveUnknownOrders`), and a re-issued
  close sells the filled part again, out of another bot's position if there is
  one.
* `Throwing` for `NoDoubleBooking`: a throw after the booking makes the resolver
  book the fill again.
* A signal of which another copy was already queued on the lock: nothing re-reads
  the status there, so a guard may reject what has executed. The server may also
  hear `rejected` of a stale replay whose first delivery is still unknown, and
  `executed` later.
* `NoStaleGuard` promises nothing on a venue where an operation works outside its
  queue (`Outside`): PANIC's flatten, or the second account of a fan-out.
* Nor does it speak of `Early` operations, whose guards the lock does not protect.
  These read before they queue, and TLC finds their reading stale when their turn
  comes: a manual order checks its rails at `manual-trade.ts:381` and takes the lock at
  `:430`; a manual close reads at `:690` to `:725`, before `:732`; a user's roll reads its
  size at `roll-position.ts:244`, before `:252`; so do the synthetic dollar
  (`synthetic-usd.ts:380`), the taking over of a ride or a position
  (`ride-handover.ts:325`, `adopt-position.ts:324`) and the placements of
  `collateral.ts`. What is claimed is about those that read inside: the handlers of
  signals (`handleSignalInner`), the reconciler (`reconciler.ts:304`),
  `local-position-manager.ts:447` and `:678`, `hedge-guard.ts:537` and `:650`,
  `accumulate-ride-service.ts:807` and `:877`.
* The two-bot story of `close` admits no timeouts, lost replies or crashes: a
  reply lost after the venue took the order leaves no row, and the next close
  sells as much again; a timeout on a lineage with an add is re-issued per entry,
  so a half is sold twice.
* With an add in the lineage, the second of two half closes is booked over the
  entry that the first one has closed (`signal-client.ts:4629`), so `ClosesItsOwn`
  asks for exact fractions with one entry per bot only. It speaks of closes
  delivered once: a half delivered twice may sell half of what is left as well.
* That second half also leaves the book wrong: a partial close books `openQty || remaining`
  on the newest entry (`signal-client.ts:4629`), for an entry with nothing open all that
  remains, where `planExitAttribution` skips such entries. A full close after it books
  what the older entry still seems to have open: an entry of 2 and an add of 1, closed by
  two halves and a full close without any fault, end with 4 contracts booked of 3 sold.
  So `BookMatchesVenue` promises that booked exits were sold as long as
  `NoEntryOverClosed`; that nothing is orphaned it promises always.
* `ClosesItsOwn` is proved on a calm account (`Calm` in `ClosePath_proof`): orders are
  filled, killed, filled in part or refused, and the adapter says which. Each part of
  `Calm` is needed. With TLC, adding timeouts, throws or crashes to the faults, reporting
  a killed part fill as `cancelled`, acking on acceptance, or answering a new order with
  an old one each refutes one of `NeverSellsSibling`, `BookedOnOwnLineage` and
  `SellsWhatWasAsked`.
* `BookMatchesVenue` assumes that an adapter that answers `filled` on acceptance
  keeps its word. Deribit's label lookup is not among its adapters: it answers a
  later re-issue with an earlier, filled order, which is booked as an exit.
* `NeverReversed` (in `FlattensCleanly`) is about `ReduceOnly` accounts. The
  TradeStation adapter does not forward `reduceOnly`, and two overlapping
  flattens sell short there (the limit
  `apps/kaibot-executor/docs/tradestation-oco-dependency.md` describes for
  brackets).
* `FlatMeansFlat` is about flattens in which nothing failed and no other entry was
  let in. A session passed over, or a close accepted and never filled, does not
  count as a failure of the report. And an entry past the halt gate
  (`signal-client.ts:1717` reads it once) is placed after the halt
  (`signal-client.ts:2669`), although `panic.ts:325` says "Halt FIRST".
* The stop of an entry that fills during a flatten is retired with the stops of
  the closed ones. PANIC's fill may be booked on a row whose own order has not
  filled, since a row is inserted open; no property excludes either.
* `NothingMissedUncut` assumes that no connection ended before its replay was
  through. Besides a network loss, `disconnect` and `connect` in quick
  succession are enough: the late `close` event of the old socket redials over
  the new one. The standing-conflict status is not constrained either: a dial
  that times out between two conflict closes leaves the streak standing.
* `ExitStop`: where a placement threw and its outcome is unknown, the row is parked
  with the new level as the bot's own (`server-exit-stop.ts:612`), so the server's
  retry of the same update is refused as not favourable; it is the venue read that
  puts the stop right. The properties speak of what rests.
* `ExecutedMeansFilled` says that an ack of each fill is made and that an `executed`
  that arrives is true. It does not say that the ack arrives: see `missed`.
* `DecisionsEnd` excepts a decision whose market entry the venue refused (`Refused`):
  nothing but a stop of the plan gets it off the record it throws on.
* `FanOut`: an account skipped by a restart in the middle of a fan-out is not run
  again, since the replay is a duplicate; an entry retired by a close is opened
  again by a redelivery with a stale snapshot. `OneOrderPerAccount` excepts a
  subscription that moves up to the wire id after an older one was paused.
* `NeverSoldTwice` of `SyntheticGuard`: rows in flight are looked at before the
  wait for the mark and not after it (`synthetic-guard.ts:1264` against `:338`), so
  two passes that wait at once both sell.

### Fairness

Only what the code's scheduling gives. Handlers: an await returns, since every
REST call has a timeout (`fetch-timeout.ts`). Reconciler, guard, minute tick and
deferral poller: timers; their lookups are answered in the end (weak for entries;
strong for the resolver of closes and for close handlers, which compete for the
lock and are admitted in FIFO order, see `OrderLock`). Venue: a market order fills
or dies, a request does not stay on the wire for ever. Connection: armed timers
fire, the service answers a dial, socket events are delivered. Deliveries of
signals, crashes, faults, user calls, prices and stops that fire are never fair.
`OrderLock` assumes progress only of operations that are not `Stalled`.
`ExitStop` and `roll` check safety only.

## 4. Proofs

TLAPS checks the `*_proof` modules. In each the argument is an inductive invariant:
`Init` implies it, every action preserves it (one step per action), and it implies
what is claimed. TLC checked each invariant on the instance of the run first.

`EntryPath_proof` holds the proofs about the four parts an entry passes through; their
specifications stay apart, so the names of three of them carry a prefix. About
`EntrySettlement`, for every set of signals and every `Qty >= 1`, from
`SignalsAssumption` and `QtyAssumption`:

* `EntryTypeCorrect`: `EntrySpec => []EntryTypeOK`.
* `CoreCorrect`: `EntrySpec => []CoreInv`. `CoreInv` strengthens `EntryTypeOK` by
  `LockInv` (the lock's holder is a seeded signal whose order is not settled),
  `OrderInv` (an order exists only after its one `placeOrder`, and a signal not
  seeded has none) and `AckInv` (`executed` is acked only where the venue
  filled). None is inductive alone: that a seeded signal is not seeded again
  needs the insert's uniqueness, that the resolver's ack is true needs the row to
  belong to a placed order.
* `OneOrder`: `EntrySpec => []OneRealOrder`, from `CoreInv`.
* `Visible`: `EntrySpec => [](CleanVenue => NoInvisibleExposure)`. `TrackInv` says
  that what may still fill is booked or has a row chasing it, and that a row old
  enough to be given up on has nothing on the wire. `CleanVenue` says a killed
  part fill is answered `partially_filled` and a final answer is final; the
  hypotheses above say what happens without.
* `BookedOnce`: `EntrySpec => []NoDoubleBooking`, with `BookInv`: a fill is booked by
  the handler or by the resolver, never by both, because the row that the
  resolver takes up is written only where the handler gave up.

About `OrderLock`, for every set of operations, venues and spellings:

* `FreshGuards`: `Spec => []NoStaleGuard`, of the operations that read inside the lock;
  those of `Early` are queued with them and update the same book. A chain is only linked backwards: an
  operation knows the one it waits for, nobody knows the queue. `ChainInv` says
  that there is a rank (a function into the naturals that no variable holds)
  which grows along each chain, and that what is at work or settled has only
  settled operations before it; a new operation gets a rank above its
  predecessor's. From it at most one locked operation of a venue works at a time
  (`Alone`), and with `WorkInv` a guard that was read stays current unless somebody
  works there outside the queue.
* `OneAtWork`: `Spec => []Alone`.
* `QueuesImplemented`: `Spec => ImplementsQueues`, the refinement of `VenueQueues`.
  The mapping counts the chain: `Chain(v)` are the unsettled operations of a venue in
  the order in which each waits for the one before. `QueueInv` says that on each venue
  these are linked one after the other, with the table's tail last, so that a venue has
  one such sequence. Then each step maps: asking appends to the sequence (`AskStep`),
  the head alone starts (`BeginStep`), settling, well or by a throw, takes the head off
  (`SettleStep`), everything else is a stutter.
* `TypeCorrect`: `Spec => []TypeOK`, for finitely many operations. That a book's
  count stays below the number of operations needs `CountInv`: the count is the
  number of operations that have updated the book, each of them once.

About `SignalConnection`, for every set of sockets and every bound of calls, faults and
signals:

* `ConnTypeCorrect`: `ConnSpec => []ConnTypeOK`.
* `LeftBehind`: `ConnSpec => []NeverLeftBehind`. `LinkInv` says that only the current
  socket is dialled or open, and that its `close` still reaches the client;
  without it a late event of an older socket could be what `NeverStranded` counts
  on. `ReplayInv` says that nothing was sent before the first opening and that a
  socket asks for what was missed when it opens and not before; with it and
  `LinkInv`, each step keeps what `NothingMissedUncut` promises of each signal:
  received, ahead of the window, or in the mail of a live socket.

About `FanOut`, for every set of subscriptions and every bound of deliveries, closes and
troubles:

* `OneFanOrder`: `FanSpec => []OneOrderPerAccount`. A lineage's id is kept in three tables,
  and what keeps an account from a second order is that they agree on the accounts an
  id can stand for. `Fits` names them: the wire id a subscription that was first at a
  delivery, a child id its own, which then had another before it. `FitInv` holds that of
  what the lock's holder still has to do, of the execution rows and of the parked
  entries, and that no order of a lineage is at the venue yet when one is about to be
  placed; `SentInv` gives each order sent a lineage of its own. Two lineages of one
  account are then its wire id and its child id, and it was both first and not
  (`SoldTwiceMovedUp`).
* `ExecutedIsTrue`: `FanSpec => []ExecutedIsFilled`. `FilledInv` adds the outcomes a
  fan-out has gathered and not reported yet: an `executed` among them, or among what the
  server has heard, is an order that filled. It is the safety half of
  `ExecutedMeansFilled`, with posts that fail and throws in any place.
* `FanTypeCorrect`: `FanSpec => []FanTypeOK`.

`PanicHalt_proof`, for every set of accounts, entries (finitely many) and PANICs, and
every bound of losses, faults and resumes:

* `LocalTrip`: `Spec => []OneLocalTrip`. `TripInv` ties a trip to its halt;
  `FlattenInv` says that a flatten has closes only on accounts of its scope, and
  none before it begins; `EntryInv` that an entry's own flatten is of its own account
  and not yet begun while the entry is before the rail. `LocalInv` follows: every
  flatten that began, and every halt, is on an account past its limit.
* `CleanFlatten`: `Spec => []FlattensCleanly`. `CalmInv` carries "flat" through the
  flatten: as long as nothing failed and no entry was filled, the size a flatten
  read, and that of the close it placed, is at least what is left by now, because
  other flattens only take away; so once its close is answered nothing is left.
  That reduceOnly takes off no more than there is makes `NeverReversed` inductive.
  `UntouchedInv` follows a row from its insertion to its settlement: booking reaches
  the rows of an account only through a close of it that is filled, and filled stays
  filled since a flatten places one close per account (`FlattenInv`).
* `TypeCorrect`: `Spec => []TypeOK`. What needs proof is that a row counts one contract
  in and at most one out however many closes book on its account. `StoreInv`: an entry
  is inserted once, from a step it does not come back to, and what is booked closed was
  open with nothing closed. Rows are numbered by their insertion; that the newest open
  row is found, and is one that was inserted, is `Highest`: a set of naturals with a
  bound has a largest member, from the well-foundedness of the naturals
  (`NatWellFounded`), which stands in for the induction the provers lack. The proof
  corrected the model: `TypeOK` had claimed bounds on the venue's net position that hold
  on the run's instance and not for other constants.

`SyntheticGuard_proof`, for every set of passes and callers and all prices, sizes and
troubles:

* `SoldOnce`: `Spec => NeverSoldTwice`, an action property. `GuardInv`: the set of
  rows in flight is the one order of the guard that is out, unless passes overlap
  (`OneGuardOrder`); the position a pass read is the venue's while nothing has changed
  since (`ReadingsHold`); and while a fire waits for the lock, its row is armed as it
  was listed only if nothing is short (`FiresFromFlat`). The last is inductive because
  a row that left that state comes back to it through an unwind alone, and an unwind
  is an order of the guard, so it is not out beside the fire.
* `WordKept`: `Spec => []GuardKeepsItsWord`. `WordInv` says the same of an order
  half done: what the row says, with what the order that trades has moved, is what is
  short, until that row has moved on (`HeldFits`); the row an order was sent on does
  not come back while it trades (`SentFollows`); the level of an armed row, and the
  one an open row is armed at again, is not below the best floor so far
  (`LevelHolds`); an unwind is sent only with a recovery left (`UnwindsLeft`), which
  counts rightly because the row a pass listed is the row while nothing has changed
  (`ListedHold`).
* `TypeCorrect`: `Spec => []TypeOK`, with no way excused. A pass writes a trigger it
  computed from a row and a mark of another moment, and a scale writes a size it computed
  from a row that may have changed: `StoreInv` keeps what a job carries within what its
  own reading allows, so triggers stay prices (`RatchetPrices`, which needs the prices to
  have no gap: `SyntheticGuardAssumption`) and sizes do not fall below zero.

`SoldOnce` and `WordKept` hold up to the ways the properties name.

`ContractRoll_proof`, for every set of rolls, every story and every bound of notices and
faults, from `ContractRollAssumption`:

* `ExposureKept`: `Spec => []RollKeepsExposure`. Between its orders a roll has taken
  contracts off one side and not put them on the other, so what is claimed between rolls
  is not inductive. `BookInv` is the claim with what is missing in the middle: `Short`
  contracts are off the market, `OldOut` are off the venue and still on the old
  contract's marker, `NewIn` are bought and on no marker. `LineInv` (the line holds each
  operation once, and only its head is between orders) leaves one such roll at a time.
  An automatic roll is between two owners as well: `Carrying` says that the bot's entries
  have moved and their execution has not, and `Doomed` that the notice waits for an
  answer it can only make a mess of. `DoomedStays` shows that nothing leads out of there
  but a step that records a way, so the books need not balance there. `LineageInv` and
  `LegInv` keep what the notice read and the roll's quantities in order.
* `StopsFollowRolls`: `Spec => []StopsFollow`, with `UserInv` and `BotInv`: the user's
  stop is gone before a roll touches a contract and nobody puts it back; the bot's is
  away exactly while its notice is asking for, or waiting for, the roll of its entries.
* `TypeCorrect`: `Spec => []TypeOK`, with `LegInv`: opened <= closed <= asked.

`ExitStop_proof`, for every set of order ids (finitely many), every venue setting, every
sequence of levels and every bound of faults, from `ExitStopAssumption`:

* `SoldOnce`: `Spec => []NeverSoldTwice`, and `BookAgrees`:
  `Spec => []BookAndVenueAgree`. They hold only between operations or only of the net
  position, and rest on what the handler and the sweep keep while they are under way.
  `UpdateInv`: the old stop of an update is the recorded one; the new one is there
  before the old is retired exactly if it is placed first, and a plain stop that is not
  is placed only where no old one is left. `SweepInv`: what a sweep still has to look
  at is what a new look would find. `RowInv` and `PairInv`: the row names the recorded
  stop, or is parked and keeps it; the stop has the level of the row, and a parked one a
  better one, so a landed stop is told from the old one by its level. `NameInv`: of the
  plain stops there rest the recorded one, the one being placed and at most one that is
  looked for. With that, `SoldInv` says that at most one plain stop is firing, and none
  once the lineage is out: what rests then is the other one of a pair, or looked for.
  `TrackInv`: what can take the lineage out, and what took it out, is where
  `collectRestingExitCandidates` looks.
* `TypeCorrect`: `Spec => []TypeOK`. That the position is sold at most once for each
  order id needs `CountInv`, which counts the orders that may still fill: an id is used
  again only by an update that began while the lineage was in.

`ClosePath_proof` holds the proofs about the two specifications that close positions;
they share no variable. About `Reconciler`, for every set of lineages (finitely many), their sizes and
directions, what the user held, and every bound:

* `TypeCorrect`: `Spec => []TypeOK`. A booking takes from each lineage what is open of it
  and not more, whatever was read and whatever went wrong before; that rests on
  `AllocType` and on sums of naturals being naturals. `EntriesUnbooked` says that an
  entry that is still looked for has nothing in its row.
* `OwnTradesAlwaysStand`: `Spec => []OwnTradesStand`. `LineageInv` lists the five
  conditions a lineage can be in, with row, orders and holdings together; `NetInv` says
  that the venue's net is what the user brought and what the lineages hold. The book is
  then wrong about a lineage only while an order of it is looked for or a stop has
  filled, so a book that was read with nothing open differs from the position by the
  user's part alone (`ReadsInv`), and that was marked on the first pass: nothing is left
  to correct or adopt (`NothingToDo`). A close that is resolved is booked on its own
  lineage because the newest lineage with contracts left would take it first
  (`NoneAbove`), which would be a way.

About `CloseFlow`, for every set of closes (finitely many) and all stories: any number of
entries and bots, any sizes, adapters, faults and bounds of deliveries, from
`CloseAssumption` and `NoJobAssumption` (the mark of an idle lock is not an order):

* `CloseTypeCorrect`: `CloseSpec => []CloseTypeOK`, with `Shape`, which adds what makes
  it inductive: an order fills no more than it is for, and all of them together no more
  than was opened, since they are reduce-only.
* `NothingOrphaned`: `CloseSpec => [](NoReuse /\ AcksKept => Net <= BookNet + Outstanding)`:
  what the venue still holds is open in the book or has an order at work on it, with
  every fault, crash, second delivery and any number of adds. The invariant `AccountInv`
  has two cases. Either the settled orders account for the whole position (`SoldOut`),
  so that there is nothing to orphan; or no more is booked than they account for, and
  an entry is retired only when all it opened is booked. That a full close retires every entry
  of its lineage is right in the second case because it asked for all of it (`FullJob`,
  `TickJob`). And each order is settled once (`Fresh`): no two rows are about one order,
  nor is a row about the order in hand. That fails where the venue answers a new order
  with an old one, hence `NoReuse`.
* `BookKept`: `CloseSpec => [](NoReuse => BookMatchesVenue)`, from the same invariant:
  besides the above, what is booked, summed over the entries, was sold.
* `OwnLineage`: `CloseSpec => [](Calm => ClosesItsOwn)`. The bots share one venue position,
  which reduce-only protects as a whole and not per bot, so the claim says that nobody's
  order is ever for more than its lineage has left. `QuietInv` ties each entry to its
  bot's orders: what they filled is what is booked and the fill in hand (`QuietSums`); an
  entry that is closing owes between one contract and what is open (`QuietEntry`), the
  order in hand is for no more (`QuietJob`), and what was sold and is still owed is what
  the closes asked for (`QuietAsks`). A close of everything has no second order because
  after its first one there is nothing left for another (`Over`).

`AccumulateRide_proof`, for every number of ladders, every number of rungs and size of
each, every plan to start from (over a position, beside another ride, or waiting, with
any contracts of the user's) and every bound of faults, from `AccumulateRideAssumption`:

* `PlanCounts`: `Spec => []PlanKeepsCount`. The property speaks of plans at rest; the
  invariant (`Inv`, as long as no way has happened) of every moment of a decision. The
  decisions are a handful of lists of actions, so what is behind a plan and what is still
  to do follow from the action it is at (`Decision`, `DecisionStage`): the entry is on
  record after `market`, the ride after `handover`, and rungs without a row exist only
  at `ladder` (`PlanOk`, `EntryOk`, `RideOk`). `EntryOk` also says that an entry that
  counts as bought is one that the venue filled, and that one on record as rejected is
  neither filled nor taken for bought. `RungOk` says which row, tracking and
  order belong together, and `AskOk` that whoever waits for a rung's status has read no
  more of it than is booked. On that stands the ledger (`LedgerOk`): what the venue
  holds beyond the rides, their unswept fills and the user is at most `Due`, the entry
  and the fills of the plan, or, once it has a ride, what a rung without a row filled;
  and exactly that unless the plan was stopped or everything was closed. At rest nothing
  is without a row, so `Due` is what the plan has on record. `GuardOk` carries the
  bound from the moment the floor's fills are protected (`ProtectFinds`) past the ends
  of the ride it was given to and of the stop behind which it is. `FloorOk` says that
  the rungs the floor read have rows: it will write over every one of them, also those
  that filled meanwhile, and must not make a row where there was none.
* `TypeCorrect`: `Spec => [](Unspoilt => TypeOK)`, from the same invariant. The bounds of
  `TypeOK` are not of a variable each: no more of a rung is booked than its order has
  filled, no more of a decision is done than it has actions, and no entry on record as
  rejected is one that filled.

`ContractCount_proof` holds what these proofs need of sums. A sum is the number of its
units (`Units`), not a recursion over the entries, so that `SumChange`, that a sum
moves by what one entry moves, follows from cardinalities without induction.

All of these hold up to the ways, which section 2 explains.

Only model-checked: liveness (`UnknownIsResolved`, `EveryOpSettles`,
`ClosingIsFinished`, `FlattenReports`, `Reconnects`, `Converges`,
`ExecutedMeansFilled`, `ParkedEnds`, `Fires`, `DecisionsEnd`, `EveryTurnComes`), which
is out of this prover's reach. Every safety invariant that a run checks is stated by a
theorem; two of `CloseFlow` with the hypotheses named there, which the stories of the run
stand in for.

## 5. Not modelled

Parts with status `not_modelled` in `PROJECT.json`. Within the modelled parts:
brackets, take-profits and DCA rungs (but for those of `AccumulateRide`); sizing
arithmetic; the `lost` rows of closes; hedges and netted closes; fees; trails and
the user's stop floor; the fit of a ride's stop; parked stops of rolls; a process
that starts with signals missed while it was down; the server. In `EntrySettlement`
the fallbacks of `settleEntry` for an adapter without `getOrderStatus`
(`signal-client.ts:5634`, which takes an order for filled) and for a fill reported without
its quantity (taken for the requested one): its venue answers both. In `ExitStop` a cancel refused
for an order the venue says it does not know (`absenceConfirmed`,
`server-exit-stop.ts:353`): its venue forgets no order; the outcome, `gone`, is the one of an
order it dropped. In `ContractRoll` the awaits between the listing of the executions
(`futures-roll.ts:115`), the positions (`:132`) and the protections (`:333`) are one step
(`RollHeld`), so a notice reads one state of the book; under its own venue's lock nothing
else trades there in between, and in an `apart` story the model looks at the entries it
read at the protections where the code (`:402`) looks at those it listed. Integers are
contracts in small numbers; the code's floats and their epsilons are not
modelled. UI, desktop shell, companion, analytics, notifications and pricing reads
have no state an order depends on.

## 6. Plan

Done: entries, closes, lock, connection, PANIC, synthetic dollars, fan-out, rolls, exit
stops, reconciler and accumulation plans, each with proofs of its safety. Next, in order:

1. `CollateralFloor`: the margin floor of `collateral.ts`, its fire, retry and the
   pots that `hedge-guard.ts` and `netted-close.ts` share with the synthetic dollar.
2. `Brackets`: placement, cancel on fill, resize; refines an abstract `OneExit`.
   TradeStation (no reduce-only) against the others.
3. `TrailingStop` (order ladder, local trailing): a stop only tightens, as an
   action property; proved.
4. `PositionManage`: ownership of a position between bot, user and group.
5. `Sizing`: pure operators of `packages/types/src/trading` against reference
   definitions.
6. `ExchangeSession` (token refresh in single flight), `TerminalBridge`.
