# qtss: a TLA+ model of its loops, from setup to closed position and to the messages about it

qtss is a trading platform in Rust: a PostgreSQL database, one worker process
(`qtss-worker`) that spawns more than eighty tasks, an HTTP API and a web GUI. Bars are
ingested, patterns are detected, detections become *setups*, setups become
*candidates*, candidates become exchange orders and *live positions*, and open
setups and positions are watched tick by tick until something closes them. The loops
share nothing but the database and a few in-memory stores: nearly all
coordination is a row's status column and the order in which loops read and write it.
This directory models that coordination.

## 1. Inventory

### Components on the money path (modelled)

| Component | State | Operations | Hard parts |
|---|---|---|---|
| Setup allocator (`allocator_v2_loop.rs`) | `qtss_setups` | walk the candidates through the gates, insert a setup per mode, supersede a lower timeframe | a dozen counts, each a query of its own, several awaits before the insert they guard; caps charged per mode; dropped results |
| Time stop (`time_stop_loop.rs`) | `qtss_setups`, `live_positions` | close a setup that is too old, then its positions | two statements, not a transaction |
| Setup watcher (`setup_watcher.rs`, `poz_koruma.rs`, `smart_target.rs`, `lifecycle*.rs`) | stop, trail anchor, ratchet, target bitmap and close columns of `qtss_setups`; `notify_outbox`, `x_outbox` | trail, ratchet, advise near a target, detect entry / targets / stop, persist, notify | a tick works on copies of rows that other loops write; five statements between a crossed price and its card |
| Selector (`selector_loop.rs`) | `selected_candidates` | read the newest open setups, insert a candidate for each | batch limit, failure in the middle |
| Candidate queue (`selected_candidates.rs`) | status of a candidate | insert, claim, mark | claims shared by several workers; no lease |
| Execution bridge (`execution_bridge.rs`) | `selected_candidates`, the exchange, `exchange_orders`, `live_positions`, `LivePositionStore` | claim, gates, order, rows, status, reject | lost answers, checks far from the insert they guard, crash between statements |
| Live position store (`live_position_store.rs`) | maps `by_id` and `by_tick`, one lock each | upsert, remove, reads | two locks taken one after the other |
| Tick dispatcher (`tick_dispatcher_loop.rs`, `tick_dispatcher.rs`, `tp_engine.rs`, `liquidation_guard.rs`) | `live_positions`, the store | hydrate, sweep, close and evict | rows closed by others, restarts, retries of a failed close |

### Components beside it (modelled)

| Component | State | Operations | Hard parts |
|---|---|---|---|
| Outbox publishers (`notify_outbox.rs`, `x_publisher.rs`, `setup_publisher.rs`, `report_scheduler_loop.rs`) | `notify_outbox`, `x_outbox`, `setup_broadcast_outbox`, `qtss_reports_runs` | insert, claim, deliver, mark, stamp | answers lost after delivery, crash between claim and mark, attempts counted twice, a cap read before the claim |
| Kill switch (`kill_switch.rs` of the worker, of `qtss-common` and the admin route) | an atomic flag per process, one `app_config` row | raise on loss, persist, sync, reset, read at start | flag and row disagree; a lost write is not retried |
| Copy trading (`copy_trade_queue.rs`, `copy_trade_follower.rs`) | `copy_trade_execution_jobs` | scan fills, enqueue, claim, place, mark; place per subscription | rescans, crashes between order and mark, the halt |
| Range execution (`range_signal_execute_loop.rs`) | `range_signal_paper_executions` | list, claim, live or paper order, mark | one look at the halt per batch, order of entry and exit |
| AI desk (`qtss-ai`: `client.rs`, `approval.rs`, `storage.rs`; `ai_tactical_executor.rs`) | `ai_decisions` with a child row, `ai_decision_outcomes` | decide, approve or reject, expire, enter, mark | four writers of a pair of rows, none of which looks at the other row |
| Order reconciliation (`binance_user_stream.rs`, `binance_*_reconcile.rs`, `qtss-reconcile`, `exchange_orders.rs`, `exchange_fills.rs`) | `exchange_orders` status and `venue_response`, `exchange_fills` | insert after the answer, stream message, open orders against rows, query, patch, cancel | four writers of a row, messages that are lost or early, snapshots read before the rows they are compared with |
| Managed positions (`position_manager.rs`) | long books derived from `exchange_orders`, the managed stop in memory | close on advice, trail, stop and target, mark, record an outcome | book and venue differ while fills are on their way; replacing an order is three calls |

### Interaction

    allocator --INSERT--> qtss_setups --SELECT--> selector --INSERT--> selected_candidates
       |  supersede            ^   ^                                       | claim / mark
       v                       |   | close_setup                          v
    live_positions <--INSERT-- | --+--- setup watcher            execution bridge --> exchange
       ^   ^   ^               |            |                        |        |
       |   |   +-- time stop --+            | handlers               |        +--> exchange_orders
       |   |                                v                        |               ^   |
       |   +----------------- INSERT -------|------------------------+               |   v
       |                                    |                        | upsert    position manager
       +--- close --- tick dispatcher <-----|---- LivePositionStore <+               ^   ^
                            ^               |           ^                            |   |
                            +--- quotes     |           +--- hydrate                 |   |
                                            v                                        |   |
        notify_outbox, x_outbox, setup_broadcast_outbox <-- reports                  |   |
                    |  claim / mark                                                  |   |
                    v                                                                |   |
        notify, X and setup publishers --> Telegram, X                               |   |
                                                                                     |   |
    sweeps --> ai_decisions + child rows --> operator, auto-approval, expiry         |   |
                    +--> tactical executor --> exchange --> exchange_orders ---------+   |
                    +--> directives ------------------------------------------------------+

    user stream, reconcilers, cancel route --UPDATE--> exchange_orders, exchange_fills

    kill switch: flag in each process <--> app_config row <-- reset of the API process
        looked at by copy queue, follower, range execution, executor, position manager

Two threads of control never wait for each other. What has to be right is
therefore what each loop may assume of a row it read some statements ago.

What makes each component correct: a candidate is acted upon once and its status
says what happened (bridge); nobody who is entitled to a candidate is forgotten
(selector, queue); the exposure gates bound what is open (bridge); a closed setup or
position keeps its first reason (all closers); every open row is under watch and its
stop works (store, dispatcher, watcher); what users are told agrees with the
row (handlers) and is told once (publishers); a raised halt stops orders within a known
number (kill switch and the loops under it); what was not approved is not traded, and
what was is traded once (AI desk); caps on what is armed hold although they are
counted before the row exists, and what is retired was replaced (allocator); what a row
says of its order is what happened at the venue, whoever wrote last (order reconciliation).

### Components that are not modelled

`PROJECT.json` lists all of them with the reason. In short: job scheduler, event bus,
audit hash chain, configuration store, the v2 risk and execution path and the detection
validators have state machines of the same kind and are in the plan below. Pattern detectors, indicators, on-chain scores, backtests,
rendering, authentication and the GUIs are floating-point computations or I/O
over the same tables.

`PROJECT.json` "hazards" is the list of what is hard to test in this code, each at
its line, with the properties that cover it.

## 2. Modules

| Module | What it is |
|---|---|
| `ExecutionPipeline` | setup -> candidate -> venue, order row, position row |
| `ExecutionPipelineProofs` | theorems about it, checked by TLAPS |
| `PositionLifecycle` | abstract: what a `live_positions` row promises its readers |
| `PositionTracking` | rows, store, dispatcher, bridge, retiring loops; implements `PositionLifecycle` |
| `SetupWatcher` | a watcher pass over a setup row, its handlers, other closers |
| `TickLoopsProofs` | theorems about `PositionTracking`, among them the refinement, and about `SetupWatcher` |
| `Placement` | abstract: what queue and bridge promise of one candidate; `ExecutionPipeline` implements it |
| `QueueRow` | abstract: what every outbox table promises of its rows |
| `Outboxes` | the three tables, their writers, the four publishing loops, several processes; implements `QueueRow` |
| `OutboxesProofs` | theorems about it, among them the refinement |
| `KillSwitch` | flag, row, trigger, sync, reset: actions without a specification of their own |
| `OrderLoops` | composes `KillSwitch` with copy queue, follower, range execution and the bridge's order |
| `OrderLoopsProofs` | theorems about it |
| `TacticalDesk` | decisions about one symbol, the executor and the position manager over one set of orders |
| `TacticalDeskProofs` | theorems about it |
| `Allocator` | a tick of `allocator_v2_loop` over the setups it counts |
| `AllocatorProofs` | theorems about it |
| `OrderLedger` | `exchange_orders` and `exchange_fills` of one user, and everything that writes them |
| `OrderLedgerProofs` | theorems about it |
| `Sums` | lemmas about sums over finite sets, used by the proofs |
| `MC*` | small instances for TLC: keys, prices, sizes, deployments |

An action is what a task does between two points where another task can run: one SQL
statement or one lock section and the straight-line code around it. Every statement
that the code lets fail has a failing disjunct next to the succeeding one
(`Fail(kind)`), with the code's own consequence: returned, logged, read as
zero, or dropped. Which loops a process runs, which advice a model may give and which
statements may fail is a *deployment*, chosen in `Init`: one run then covers
several of them without the product of all.

### ExecutionPipeline

State: `setup`, `setupNo` (`qtss_setups.state` and its order of creation), `cand`,
`candNo` (`selected_candidates.status`, `created_at`), `selWork` (what a selector
tick still has to insert), `dep` (the deployment: batch size, who retires setups, which
failures), per bridge `pc`, `batch`, `cur`, `outcome`, `conf` (local
variables of `run_tick`), `venue`, `orders`, `inserted`, `open` (the exchange,
`exchange_orders`, `live_positions`), `ret` (a retiring loop between its statements).

| Code | Actions |
|---|---|
| allocator insert, supersede | `Arm`, `RetireRead("supersede")`, `RetireSetup`, `RetirePositions` |
| time stop | `RetireRead("time_stop")`, `RetireSetup`, `RetirePositions` |
| watcher `close_setup`, dispatcher `close` | `CloseSetup`, `ClosePosition` |
| `selector_loop::run_tick` | `SelectorRead`, `SelectorInsert`, `SelectorFail` |
| `claim_pending`, `dispatch` | `Claim`, `Dispatch` |
| `build_live_position_for_mode` | `Gates`, `Dedup`, `Cap` |
| `dispatch_live` / `dispatch_dry` | `PlaceVenue`, `InsertOrder`, `InsertPosition` |
| status update, `mark_setup_rejected` | `Mark`, `RejectSetup`, `EndTick` |
| process death | `Crash` |

`EnqueueLive` is external: the selector only writes `dry` rows, and no loop of the
repository writes a `live` one, so the live half of the bridge is exercised by a row
an operator or a tool inserts (`LiveRows` says for which setups).

Abstractions: the confirmation, RSI and distance gates, and the allocator's own
gates, are a choice of pass or refuse; notional is the smaller of the risk sizing and
the cap, in small integers; ages of setups are a choice of which rows a
retiring loop reads.

### PositionTracking and PositionLifecycle

State: `live`, `reason` (`live_positions`), `byId`, `byTick` (the two maps of
`LivePositionStore`), `feed` (`PriceTickStore`; `NoTick` is no quote or a stale one),
`bpc`, `bcur` (bridge between insert and the two halves of upsert), `dpc` and the
dispatcher's locals, `tpLog` (partial take-profit audit rows, counted up to
`MaxTpLog`). The bridge's, hydrate's and remove's lock sections are separate actions
(`UpsertId` / `UpsertTick`, `HydrateId` / `HydrateTick`, `RemoveId` / `RemoveTick`).
`evaluate_tick` has no await and is one step (`SweepKey`). `WorkerRestart` empties the
store and the feed and keeps the rows. Its names are kept apart from those of `SetupWatcher`
(`TrackSpec`, `TrackNext`), so that `TickLoopsProofs` can extend both.

`PositionLifecycle` says that a row is opened once, closed once, and keeps its first
reason. `PositionTracking` implements it with `live` for `row`;
the run checks it as the property `RowLifecycle` and the theorem `RowsImplementLifecycle` proves it.

### SetupWatcher

State: `row` (the watcher's columns of `qtss_setups`), `snap` (the copies a tick
works on), `quote`, `day` (ratchet day), the locals of a pass, `cards`, `tpCards`,
`posts` (what is in the outboxes). A pass is `AdvanceTrail`, `PozKoruma`, `Approach`,
`Detect`, and for each transition `DecideEvent`, `MarkSide`, `CloseTerminal`,
`SendCard`, `SendPost`: the order of `tick_once` and of the handlers in the router.
`CloseByOther` is any other loop's `close_setup`.

Abstractions: prices are integers and percentages thousandths with integer
division; the health score only chooses a band, so every row of the Smart Target
tables can be reached; an LLM judge may answer any action and always answers;
`entry_sl` (REAL) and `current_sl` (NUMERIC) may differ by a unit at insert
(`StoredSl`). Audit rows and health snapshots are left out. X posts are
counted up to two. `dep` fixes which setups are open at the start, who else closes them, how
many days there are and what may fail.

### Placement

`stage`, `sent` and `held` of a candidate: queued, in hand, settled; how often it
reached the market; positions recorded. `ExecutionPipeline` maps `stage` to
`cand`, `sent` to `venue` for a live candidate and to the inserted position for a dry one
(whose order is a simulation), `held` to `inserted`. A claim takes a set of rows in one
step; an order and its rows come only from a candidate in hand and once; the status
update settles it. A crash is a stutter: it leaves the rows where they are.

### Outboxes and QueueRow

State: status, attempts and order of the rows of each table (`note*`, `x*`, `bcast*`), what
was delivered (`told`, `tweets`, `cards`), `stamped` (report windows), per process what
each loop has in hand (`nhand`, `xhand`, `bhand`, `rhand`), the calendar.

| Code | Actions |
|---|---|
| `TelegramLifecycleHandler`, `XOutboxHandler` | `EmitTelegram`, `EmitTweet`, `EmitCrash` |
| `notify_outbox_loop` | `NoteClaim`, `NoteSend`, `NoteMark` |
| `x_publisher::tick_once`, `publish_one` | `XCount`, `XClaim`, `XSend`, `XMark` |
| `setup_publisher` | `Announce`, `BcastClaim`, `BcastSend`, `BcastEnqueue`, `BcastMark` |
| `report_scheduler_loop::dispatch_one` | `ReportCheck`, `ReportSend`, `ReportEnqueue`, `ReportRecord` |
| midnight, process death | `NewDay`, `Crash` |

A delivery succeeds, fails, or succeeds with its answer lost. `Announce` is the
caller of the setup outbox, which the repository does not contain. The texts and
the several channels of one notification are one delivery. `QueueRow` is
implemented by the union of the three tables.

### KillSwitch and OrderLoops

State of the switch: `halted` per process, `haltDb`, `loss` (today's realized loss is past the
limit), `raising` and `read` (the two loops between their statements), `resets`. Of the
loops: `active`, `fills`, `job`, `copied`, `events`, `exec`, `sent`, their hands, and `late`:
orders placed by a process since its flag was raised.

| Code | Actions |
|---|---|
| `kill_switch_loop`, `persist_halt_flag` | `Trip`, `Persist` |
| `kill_switch_db_sync_loop` | `SyncRead`, `SyncApply` |
| `kill_switch_reset`, `apply_initial_halt_from_db` | `Reset`, `Reboot` |
| `copy_trade_queue_loop` | `CopyScan`, `CopyEnqueue`, `CopyClaim`, `CopyPlace`, `CopyMark` |
| `copy_trade_follower_loop` | `FollowStart`, `FollowPlace` |
| `range_signal_execute_loop` | `RangeList`, `RangeClaim`, `RangePlace`, `RangeMark` |
| `dispatch_live` | `BridgePlace`, which does not look at the halt |

### TacticalDesk

One symbol and one user. State: `what`, `parent`, `child`, `aged`, `outcomes` of each decision;
`orders`, a sequence of what the venue accepted, each with what was asked, what was done
and what its row says; `halted`; the sweeps, the executor and the position manager between
their statements. The position is read in three ways, as in the code: `Pos` (the venue),
`Net` (quantities asked for in filled rows, the executor) and `Book` (quantities executed,
the position manager).

| Code | Actions |
|---|---|
| `run_tactical_single`, `run_operational_sweep` | `InsertDecision`, `InsertChild`, `AutoApprove` |
| approve and reject, `expire_stale_decisions` | `AdminVerdict`, `Age`, `Expire` |
| `ai_tactical_executor_loop` | `ExFetch`, `ExLook`, `ExPlace`, `ExInsert` |
| `position_manager_loop` | `PmBooks`, `PmFetch`, `PmClose`, `PmInsert`, `PmOutcome` |
| a stop that is placed or replaced (`:949` to `:1201`) | `PmTrail`, `PmLook`, `PmCancel`, `PmStop`, `PmStopInsert` |
| `mark_applied`, `mark_tactical_execution_failed` | `ExMarkChild`, `ExMarkParent`, `PmMarkChild`, `PmMarkParent` |
| reconcilers; stream and patch | `Reconcile`; `Hidden` |
| kill switch, operator, venue, market, process death | `Switch`, `ManualEntry`, `StopFires`, `Market`, `Crash` |

A mark is two statements, child first, neither of which looks at what the row is by then: the
loops' marks can cross, and the second can fail alone or be lost in a crash. A tick of
`position_manager_loop` ends with the marks of what it fetched (`ToTac`, `ToDir`), the tactical
row first, and then with the close if the mark is past a stop or target (`Marked`). Which
level that is `PmFetch` decides: an advised stop of this tick may be wider than the default, so
a mark below the default stop (`deep`) closes for certain only in a tick without advice.

Replacing a managed stop goes as in the code: the look-up fails (the tick ends, the directive
is not marked), says that the stop has gone, or that it is open; the cancel succeeds, or fails and
the second look says *open* (the tick ends) or fails too and counts as gone, so that the next
stop is placed beside the old one; the placing is refused, accepted, or accepted with its answer
lost; the insert of its row may fail without anybody noticing. A stop is `loose` until its row
is written and then `resting`; either fires.

Sizes are multiples of half an entry. A refusal (`"refuse"`) stands for a gateway error and a
missing account; the halt is `halted`, which any number of switches may change in the
deployments that have it. `Hidden` takes a fill out of what the fill queries find: the user
stream has replaced `venue_response`, or the patch has closed the row without asking; no later step
brings it back, as in the code. The strategic layer only changes numbers, and Bybit and
OKX repeat the live branch. The manager's two reads of advice, one after the other, are one action:
they read rows of different tables, and nothing lies between them.

### Allocator

One exchange and one profile. State: `setups` (oldest first, with candidate, mode and state), the
time windows `old`, `cool`, `ban`, and the locals of `run_tick`. `Dedup`, `Opposing`, `Cooldown`,
`LossStreak`, `Cluster`, `Daily` are the gates that count setups, in the order of the code, each
with a failed query that reads zero or nothing; `Approval` is one choice for those that
count none; `Arm` and `Retire` are the insert and the supersede that follows it. `Close` is a
watcher. The two symbols are siblings of one cluster.

### OrderLedger

State: `venue` (an order's status and trades at the exchange), `wire` (messages not read yet),
`sent` (an order that was answered and has no row yet), `row` (status, and whether
`venue_response` is one that `list_recent_filled_orders_*` finds), `recent` (rows by
`updated_at`; rows of one UPDATE have the same time and come in any order), `fills`, the message the stream handles (`hand`), what each reconciler has in
hand (`rec`), the cancel route between its two calls (`cancels`), and the history `late`.

| Code | Actions |
|---|---|
| `place_order`, `insert_submitted` | `Place`, `InsertRow` |
| `cancel_order`, `mark_canceled` | `CancelAtVenue`, `MarkCanceled` |
| `futures_user_stream_for_user`, `spot_...` | `Connect`, `Disconnect`, `TakeMessage`, `StoreFill`, `StoreStatus` |
| `binance_*_reconcile_loop`, `POST /reconcile` | `ReadOpen`, `ReadRows` |
| `apply_binance_*_open_orders_patch` | `ReadPairs`, `QueryOrder`, `UpdateRow`, `EndQueries`, `PatchRest` |
| the exchange; process death | `Trade`, `EndAlone`; `Crash` |

The exchange reports in order on one connection; what is on the wire when the connection ends
is lost. The worker's reconciler and the HTTP route share the actions and differ in whether
they query and whether they patch. A refused order (`REJECTED`) has no row, because
`place_order` returns before the insert. Spot and futures run the same code on rows of their
own. Notifications and the report counts are left out.

The other modules see `exchange_orders` from one side each. `OrderLoops` takes fills from rows
whose `venue_response` is the answer to the placement or to a query, so it describes a worker
whose user stream is off, its default, wherever a fill is read; in `TacticalDesk`, `Hidden` is what
the stream and the patch do to a fill (Disagreements 2).

## 3. Runs

`tlc -config <run>.cfg <module>`, on two workers. `PROJECT.json` has the same list.

| Run | Instance | Shows |
|---|---|---|
| `Pipeline_faults` | two setups on one key, one bridge, a live row, both flag settings; two failures out of seven kinds, or a failing count, or every closer of a setup with a failing retire statement | `AtMostOnce`: a candidate causes at most one order, order row and position; `LiveAgrees`: position row => order row => accepted order, and placed only after the answer; `ExposureDedup`: one position on a key per bridge and failed count; `ClosedIsFinal` |
| `Pipeline_bridges` | three setups on three keys, two bridges, cap reached by two positions | `RowsHeldOnce`: claims are exclusive; `NotionalBound`: the cap is overrun by less than one position per bridge |
| `Pipeline_settles` | fair selector and bridge; two setups and a batch of one, so the selector cuts; venue, inserts and reads may fail | `EveryRowSettles`; `SelectorReaches`: a setup that stays within the batch gets its candidate; `FailedLiveSetupClosed`; `PlacesOnce`: implements `Placement` |
| `Tracking_positions` | a long and a short position under one key, one crash or failed statement, fair tasks | `IndexAgrees`: the two maps do not disagree on an open position beyond its own upsert; `OpenStaysTracked`; `RowLifecycle`; `OpenGetsTracked`; `StopFires` |
| `Watcher_levels` | fair watcher; a long setup with two targets, two ratchet days, other closers and a crash, or a short one without targets (as the allocator inserts it), `current_sl` rounded, three days and failures; trail and ratchet both on or both off | `CardsOnce`: a target's card once, a close card only for a closed row; `TrailStopMeansMoved`; `StopLoosensOnlyWhenStale`; `StopCloses` |
| `Outboxes` | two processes, four deployments in each of which one loop runs twice, two days, a failure of any kind | `HeldOnce`: claims are exclusive; `DeliveredOnce`: messages go out once, or once more per failure left open; `PostsBounded`: attempts and the daily cap; `RowsAreQueued`: implements `QueueRow`; `EveryRowEnds`, for the rows of all three tables |
| `Halts_orders` | two processes, eight deployments, two fills, two range events, a reset, a failure of any kind | `HaltBoundsOrders`: what may still go out under a raised flag; `OrderedOnce`: nothing is ordered twice, no exit before its entry; `HaltFollows`: flags follow the row, the row the loss; `FillsAreCopied` |
| `Desk_decisions` | two decisions, an entry by hand, up to two failures, fifteen deployments | `NoStacking`; `OncePerDecision`; `VerdictsHold`: what was not approved is not traded, the rows of a decision agree on the verdict, and without a failure both are executed or neither; `OneManagedStop`; `StopHolds`, with nobody bound to store a fill |
| `Desk_outcomes` | violation: a dry desk that only enters long, no failure | see Disagreements 1 |
| `Allocator_gates` | three candidates on two symbols, six deployments whose caps are small enough to bite, a failure in two of them | `OnePerSlot`; `CapsHold`: every cap, with the overrun of a tick armed in several modes; `RetiredWasReplaced`; `EveryoneServed` |
| `Ledger_rows` | one order under the stream, both reconcilers and the cancel route with a failure of any kind; two orders under a reconciler that only queries, or only patches and sees one row | `StatusTrue`: what a row says is so at the venue; `TerminalIsFinal`; `SubmittedLeaves` |
| `Ledger_fills` | violation: one order and the stream, no failure | see Disagreements 2 |

Bounds. The failures of a deployment are one or two: every failing disjunct restores the state the next
tick starts from, so what a failure can do it does to what is in flight, and two
cover a failure during the recovery from another. Two setups are enough for a shared
key, a queue order and a batch with a remainder; the notional run has three because
the cap is reached by one or two and must then refuse another. Two bridges cover
every race that is between a count and an insert. Two positions under one key share
an index entry; the quotes 90 and 120 of that run are the long's panic band and its
target, and the short's target and its stop, and `NoTick` is a sweep without a quote.
Prices are the quotes at and around the levels at which a comparison changes.
Two or three days have one on which the ratchet is due again. No run cuts a
behaviour by a state constraint; `MaxTpLog` and the counters of cards and posts
saturate. In `Outboxes`, `MaxX` rows are enough for every row its deployments
can write; attempts end at the third, so a row is tried, retried and given up. In
`Halts_orders`, `ScanLimit` one of two fills is the case in which a fill is missed. Two
decisions are what a stale read needs: one to act on and a newer one. `Ledger_rows` has
two trades for an order, so it can be open, partly filled and filled, and `MaxWire` three is an
order's whole story on the wire unread. Two orders are what `refine_max_orders` of one and a
`LIMIT` of one leave out. The deployments of
`Desk_decisions` and `Allocator_gates` each fix what is switched on together; caps are one
to three over at most six setups, so each is reached and refused in some deployment.

Three numbers are as loose as the code: `OneManagedStop` allows a second stop per failure (a
restart, a lost answer, a cancel and the look after it failing together, a lost mark) and
per *deactivate_trailing* advice, which forgets the stop's id without cancelling it
(`position_manager.rs:537`); `ExposureDedup`
allows one open position on a key per bridge and failed count, and `NotionalBound` one position
beyond the cap per bridge and failed sum. The last two are what the gate, a read several awaits before the insert, can
guarantee; with one bridge and no failure `ExposureDedup` is the gate's own comment. A count
that fails reads zero (`execution_bridge.rs:506`): `Blind` is the number of these. `Pipeline_faults`
has a failing count; the run of `NotionalBound` has none, and its theorem covers it.
`Pipeline_settles` leaves out crashes and failed status updates, since rows of an
abandoned batch stay claimed for ever (Disagreements 7), and failures of
`mark_setup_rejected`, which the code only logs.

## 4. Fairness

- `WF(SelectorStep)`, `WF(BridgeStep(w))`, `WF(DispatcherStep)`, `WF(WatcherStep)`:
  each loop is `loop { tick; sleep }` on tokio, logs the error of a tick and goes on. A
  tick is straight-line code whose awaits return (an answer, an error or a timeout).
- The same for the publishing loops (`NoteStep`, `XStep`, `BcastStep`, `ReportStep`), the two loops of
  the switch, the copy and range loops, `ExStep`, `PmStep` and the allocator's `Tick`.
  Nothing is assumed of the follower, which no liveness property needs, and of the sweeps.
- `WF(NewDay)`, `WF(Time)`: time passes.
- Nothing is assumed of `Reconcile` and `Hidden`: both reconcile loops are off by default, a row
  that was patched to *reconciled_not_open* is not queried again, and the stream hides what
  was filled. `StopHolds` therefore speaks of a long that the venue and the rows both show,
  and `ExStep` and `PmStep` are its only fairness.
- `WF(HydrateDue)`: time passes. `WF(BridgeStep)` in `PositionTracking`: an
  upsert that was begun is finished unless the process dies.
- `WF(ReconcileStep("worker"))`: the periodic reconciliation goes on after every error. The
  stream, the route and the exchange owe nothing: `SubmittedLeaves` rests on the loop alone, and
  is claimed where it patches or queries and its list holds all rows.
- `StopHolds` and `HaltSticks` start from a mark, or a loss, that stays. `StopHolds` excepts a halt
  that comes back again and again, a managed book (Disagreements 25) and, as decisions are finite,
  advice to widen the stop on every tick for ever.
- Nothing is assumed of quotes, of the other closers, of operators, or of the gates'
  answers. `StopFires` and `StopCloses` say `[]<>~(open and the quote beyond the stop)`: the
  feed may move away from the stop, and then the position may stay open.
- Failures are finite: a venue or database that fails for ever would keep
  any row from settling.

## 5. Proofs

`tlapm` on `ExecutionPipelineProofs`, `TickLoopsProofs`, `OutboxesProofs`,
`OrderLoopsProofs`, `OrderLedgerProofs`, `TacticalDeskProofs`, `AllocatorProofs` and `Sums`
checks every theorem, for all values of the
constants that satisfy the assumptions of the modules: any finite set of setups and
bridges, any batch sizes and caps, any set of positions, keys and quotes, of processes,
subscriptions, events, setups and outbox rows, any deployment, all kinds of failure, any
number of them; of orders, trades, limits and wire lengths; any number of decisions, any
candidates, timeframes and modes.

### Sums

Three modules add up a quantity over a set: what is open on a key or in a mode, what the
publishers of X hold, what the orders of a symbol did. `SumFunctionOnSet` is a fold, that is a
recursive function over subsets, and the induction theorems of the library are out of reach
(they take an operator as a parameter). `Sums` proves what is needed without them: the
subsets for which a statement about sums fails form a family; if it had a member it would have
one with the fewest elements (`SmallestFound`, from `WFMin` on the natural numbers); and that
one is refuted by taking an element out. So `SumSplits` (a member and the rest, in whatever
order the fold takes them), `SumMoves` (one value changes), `SumMonotone`, `SumPlus`,
`SumSkips` and `SumBounded` hold for any finite set.

### ExecutionPipelineProofs

| Theorem | Statement |
|---|---|
| `TypeCorrect` | `Spec => []TypeOK` |
| `FirstCloserWins` | `Spec => ClosedIsFinal` |
| `CoreHolds` | `Spec => [](TypeOK /\ Core)` |
| `ClaimsAreExclusive` | `Spec => []RowsHeldOnce` |
| `PlacedAtMostOnce` | `Spec => []AtMostOnce` |
| `BackedHolds` | `Spec => []Backed` on top of `Core` |
| `LivePositionsAreBacked` | `Spec => []LiveAgrees` |
| `BridgesImplementPlacement` | `Spec => PlacesOnce`, that is `Placement!Spec` |
| `ExposureBounded` | `Spec => []Exposure` |
| `ExposureDedupHolds` | `Spec => []ExposureDedup` |
| `NotionalBounded` | `Spec => []Exposed` |
| `NotionalBoundHolds` | `Spec => []NotionalBound` |
| `FailedLiveSetupCloses` | `Spec => [](dep.kinds \cap {"crash", "reject"} = {} => FailedLiveSetupClosed)` |

Argument. `AtMostOnce` is not inductive: a second order for a candidate would need a
state in which a bridge comes to a candidate that somebody has already acted for. `Core`
adds what excludes it. `RowsHeldOnce` makes the row in a bridge's hand its own;
`Hands` says in which control states a bridge has a row in hand and that this row is
claimed (or, after `Mark`, settled); `Undone` says that a candidate that is absent,
pending, or claimed and not past the statement in question has caused nothing yet. A
claim takes only pending rows, nothing returns a row to pending, and a crash leaves
its row claimed; so a step that adds an order finds the counter at zero. `Backed` adds
what a bridge between two statements has already done (`DoneAt`): at `insert` with a live row
its order row exists, at `order` the venue has accepted. `ClosedIsFinal` needs no
strengthening beyond types: every writer goes through `Stamp`. The refinement rests on
`Core` alone: an action that orders or records has its candidate in hand (`Hands`) and
nothing done yet for it (`Undone`), which are the guards of `Act` and `Record`.

The two gates count first and insert later. `Exposure` charges a bridge for its position from
the moment it is past the count (`PastDedup`): what is open on a key and who is past the gate
are together no more than the bridges, because a gate opens only when nothing is open there,
and an insert moves one from the second number to the first. `Exposed` does the same for
money, with a full position per bridge past the gate, since what a position asks is capped
(`NotionalIsCapped`) but not known. A count or a sum that fails reads zero and lets one more
through: `Blind` counts these, and invariants and properties allow one more for each.
`FailedLiveSetupCloses` has its
condition from the code: the setup of a failed dispatch is closed by a statement of its own
(`mark_setup_rejected`), so a bridge that dies before it, or a failure of it, leaves the setup armed.

### TickLoopsProofs

The two loops that act on quotes: `SetupWatcher` (`Spec`) and the dispatcher with its store and
rows, `PositionTracking` (`TrackSpec`).

| Theorem | Statement |
|---|---|
| `TypeCorrect` | `Spec => []TypeOK` |
| `CardsAreOnce` | `Spec => []CardsOnce` |
| `TrailStopMoved` | `Spec => []TrailStopMeansMoved` |
| `LoosenedWhenStale` | `Spec => StopLoosensOnlyWhenStale` |
| `TrackingTypeCorrect` | `TrackSpec => []TrackTypeOK` |
| `RowsImplementLifecycle` | `TrackSpec => RowLifecycle`, that is `PositionLifecycle!Spec` |
| `StoreMapsAgree` | `TrackSpec => []IndexAgrees` |
| `OpenNeverDropped` | `TrackSpec => OpenStaysTracked` |

Argument, watcher. `Typed` and `Queued` are inductive together: a pass has a row and a quote in
hand, the stop is detected alone, and what is queued names a level there is. `Verdict` is what a
pass may close its row for; `Closing` says that a row in hand was open when it was read and that
since then only another loop or this pass has closed it, for that verdict. `CardsOnce` adds, in
deployments where bit and close are not lost (`Reliable`), what stands between a write and its card
(`Announcing`): a level that is queued has no card yet. A level with a card has its bit set, a row
that is still to be passed has the bits its copy has, and detection takes only levels without one;
a crash between bit and card loses the card and keeps the bit. For the stop, `Stops` keeps `Tightened` for the row and for the
copy the tick has read: no writer puts the stop behind `entry_sl`, a trail is only on a row whose
stop is ahead of it, and nothing loosens below the copy, as every writer takes the tightest of its
own level and the copy's (`StopWrite`, with the order of stops in `StopOrder`). A stop is loosened only from a row that differs from the copy, which is
`LoosenedWhenStale`: the ratchet may undo what the trail of the same pass has written.

Argument, tracking. `StoreTyped` adds to the types that a task between two statements has a position
in hand (`TasksHold`), without which the key of "no position" would be looked up. Each of the
three actions that write rows is a step of `PositionLifecycle` or changes nothing, which
is the guard `closed_at IS NULL` of `Close`; every other action leaves the rows alone.
From that refinement a row that exists stays and a closed one stays closed (`Onward`).
`IndexAgrees` is not inductive: a remove could take an open position out of the index.
`Known` excludes it: whatever is in the store, read by hydrate, or in hand has a row, and
what the dispatcher is removing has been closed by the statement before.

### OutboxesProofs

| Theorem | Statement |
|---|---|
| `TypeCorrect` | `Spec => []TypeOK` |
| `ClaimsAreExclusive` | `Spec => []HeldOnce` |
| `TablesImplementQueue` | `Spec => RowsAreQueued`, that is `QueueRow!Spec` |
| `DeliveriesBounded` | `Spec => [](ToldOnce /\ PostedPerAnswer)` |
| `SetupsAnnouncedOnce` | `Spec => []AnnouncedOnce` |
| `WindowsReportedOnce` | `Spec => []ReportedOnce` |
| `DeliveredOnceHolds` | `Spec => []DeliveredOnce` |
| `GivenUpOneEarlyHolds` | `Spec => []GivenUpOneEarly` |
| `DailyCapHolds` | `Spec => []DailyCapBounds` |
| `PostsBoundedHolds` | `Spec => []PostsBounded` |

Argument. `HeldOnce` is close to inductive: a claim takes only pending rows, so what it takes
is in nobody's hand, and a mark moves the row its own loop has. The UPDATEs of the
code name only an id; that the row they meet is still *taken* is exactly `HeldOnce`, and
with it every step of the tables is a step of `QueueRow`. `ToldOnce` needs that a row in hand
that was not sent yet, and a row that is still waiting, was not told; `PostedPerAnswer` that
a row in hand or waiting was posted at most once per lost answer.

`AnnInv` says that a setup that waits, or that a loop will hand back to wait, has no row for X
yet and a card only for a lost answer: the insert of the row and the mark of the setup are two
statements, and the loop that stands between them has the setup in hand. `RepInv` charges each
card of a window that is not stamped to a loop that is still at it or to a failure.
`CapInv` is about the day: a publisher counts what was sent today before it claims, and others
post meanwhile. `Pot` is what a publisher may still post without counting again, `Post` what it
has posted and not yet marked; posts and pots together stay below the cap and one tick's claim
for each further publisher and each failure, because who counts finds every earlier post marked
(`sentToday`), held by another publisher (one each) or lost to a failure.

### OrderLoopsProofs

| Theorem | Statement |
|---|---|
| `OrdersAreOnce` | `Spec => []OrderedOnce` |
| `HaltHolds` | `Spec => []HaltBoundsOrders` |
| `TypeCorrect` | `Spec => []TypeOK` |

Argument. `OnceInv` has three parts. In `CopyInv` and `RangeInv` a row in a hand is *processing*
and in nobody else's hand (`Owned`), and a row nobody has claimed, or that is about to be
ordered, has no order yet (`Fresh`): a claim takes only such rows and nothing returns one to
them, whatever UPDATE fails and whoever dies. `OrderInv` is about a single process without
failures: the rows of events are closed downwards (no event has one while an older one has
none), so is the list of a tick among the events that are open, and hence the event that is
won is newer than everything ordered. `HaltInv` weighs what a process has in hand by the
orders it may still become (`CopyDue`, `FollowDue`, `RangeDue`). When the flag goes up the
count starts again and the hands fit the grace (`Room`, `DueFits`); while it is up no step
adds to the hands, and an order moves one from the hand to the count (`PaidBounded`). That a
list has at most `RangeBatch` events is a pigeonhole argument on their ranks (`OldestAreFew`).

### OrderLedgerProofs

| Theorem | Statement |
|---|---|
| `InvHolds` | `Spec => []Inv` |
| `RowsTellTheTruth` | `Spec => []StatusTrue` |
| `TerminalStays` | `Spec => TerminalIsFinal` |
| `TypeCorrect` | `Spec => []TypeOK` |

Argument. What a row says is copied from something that was heard before, so `Inv` says that
everything heard of an end is still so: each message on the wire and in hand (`WireTrue`,
`HandTrue`), the answer a reconciler is about to write, the orders the cancel route is about to
mark (`CancelsTrue`). It stays so because an end at the venue is final (`VenueMoves`). Of a reconciler,
`RecTrue` says that a placed order missing from its list has ended or was placed since
(`late`), hence that what it patches has. `RowsPlaced` ties a row to an order the venue has,
and makes its insert the first. `TerminalIsFinal` needs `StatusTrue`: three of the four UPDATEs
have a guard, and `mark_canceled` has none; it meets only rows of orders the venue has just
cancelled, and such a row, if terminal, says *canceled* already. Nothing here depends on the order
of `recent` or on the numbers of trades; `TypeCorrect` adds them in `Whole`: an order that is open
has trades left (`Counted`), so every trade that is told, and every fill that is stored, is one of
its `Units`, and an UPDATE only permutes the rows (`TouchedTyped`).

### TacticalDeskProofs

| Theorem | Statement |
|---|---|
| `TypeCorrect` | `Spec => []TypeOK` |
| `VerdictsAlwaysHold` | `Spec => []VerdictsHold` |
| `OncePerDecisionHolds` | `Spec => []OncePerDecision` |
| `OneManagedStopHolds` | `Spec => []OneManagedStop` |
| `NoStackingHolds` | `Spec => []NoStacking` |

Argument. What is in a hand was read as approved before and is traded later, so `Verdicts` says
that it is still *approved* or has gone on from there (`Approvals`): no sweep, expiry or operator
touches a child row that is not pending, and a mark, whichever half of it and of whichever loop,
writes only *applied* or *failed*. `SweepsWrite` gives each sweep a decision of its own, which makes
the child row follow its parent; `Together` is the agreement of the two rows that survives
crossing and half-written marks, equal or both past the approval (`Agree`), and excepts the
decisions an operator settled between the two inserts (`early`). `MarkedRows` adds how far the
execution got: the child is marked first (`ChildFirst`), and unless something has failed the
parent follows, or a loop is between the two statements (`Half`, `ParentFollows`). Each step takes
a decision through its mark, leaves it where it is, or fails (`Marks`). That the parent *equals*
its child would be false, without any failure (Disagreements 30).

`Paid` adds to `OncePerDecision` that a decision that may still be fetched, or is in hand before its
order, has no order that no failure paid for; one whose order is placed and whose child row is
not yet marked is in hand (`Entering`, `Cutting`), and a failure that drops it pays for the next
order.

`LooseHolds` counts the stops that rest and that nobody manages (`Loose`): what is managed is
`active_cid`, the stop whose row is being written, or none while the next one is placed
(`Managed`). A step that adds a loose one is a failure (a crash, an answer lost, a cancel and
the look after it failing together) or follows the advice to stop trailing, and that advice is
`Spent` from then on: it forgets a stop only once, since until its mark `active_cid` stays
empty (`ForgotHolds`), and when the mark fails that failure pays for the advice being followed again.

`NoStacking` needs the sum over the orders (`PosIsAll`: the position is what all orders did) and,
in `Stacks`, that an order which is about to be placed was decided when nothing but entries by
hand was open, and that this has stayed so: in a live desk the executor asks the exchange, which
no hidden or unwritten fill changes; in a dry one only its own entry may be missing from the rows,
and it is still at it (`DryFills`). `blind` marks what may hide a position from both.

### AllocatorProofs

| Theorem | Statement |
|---|---|
| `TypeCorrect` | `Spec => []TypeOK` |
| `OnePerSlotHolds` | `Spec => []OnePerSlot` |
| `RetiredWasReplacedHolds` | `Spec => []RetiredWasReplaced` |
| `CapsHoldAlways` | `Spec => []CapsHold` |

Argument. Each gate is read once for a candidate that is then armed in several modes,
each insert followed by the supersede of the lower timeframes. `Slotted` lets those that are to
be superseded stand aside: without them, a mode that is still to be armed is free, up to one
setup per failure, and with them there is one more only between an insert and its `Retire`.
`OneSided` says that a candidate past the opposing gate still has nobody against it.
`Replacing` says of what was read as replaceable that its mode is still to be armed or has been
armed above it. `Capped` adds to each counter the rows the candidate may still insert, at most
the number of modes, which is the overrun in `Over`. In `Cut`, what cools on a side, what is
open there and what is still to be inserted are at most two per mode: when the first stop is
recorded, slots bound what is open by one per mode and the candidate past the gate by another,
and after it nothing passes the gate. The bounds of `Capped` and `Cut` hold as long as nothing
has failed, as the properties say; `Slotted` weighs every failure.

### What is not proved

Every invariant and every action property of the runs is a theorem. Only model-checked is what is
temporal under fairness (`EveryRowSettles`, `SelectorReaches`, `StopFires`, `OpenGetsTracked`,
`StopCloses`, `EveryRowEnds`, `HaltFollows`, `FillsAreCopied`, `StopHolds`, `EveryoneServed`,
`SubmittedLeaves`): liveness and ENABLED are out of the prover's reach.
`FailedLiveSetupClosed` is proved under the condition in the table above, without which a failed
statement breaks it.

## 6. Disagreements between comments and code

Checked by a run (`PROJECT.json` "findings" quotes the line):

1. An applied entry blocks its symbol *until an outcome row exists (e.g. SL/TP close in
   `position_manager`)*, but the position manager credits only a decision that is still
   approved in the tick of the close, and the executor has marked it applied long before. The
   outcome is never written and the symbol stays blocked.

2. `copy_trade_queue.rs:4` scans the *latest orders with a fill hint in `venue_response`*, and the
   position manager and the tactical executor read fills by the same filter. Once the user
   stream has handled a message of an order, `venue_response` is that message, which spells the
   status `o.X` or `X` and has no `executedQty`: the filled order is no longer found.

Met while modelling; the models do what the code does:

*Candidates and positions.*

3. A candidate whose gate refuses is marked *placed* and never looked at again;
   `execution_bridge.rs:419` says that it stays claimed and is evaluated by a later tick.
4. A setup is closed as *rejected, never placed a broker order*
   (`execution_bridge.rs:109`) although the exchange accepted one: the answer was lost, or its
   `exchange_orders` row could not be written.
5. A position that another loop closes stays in the store: hydrate only adds, and
   the reconciliation of `live_position_store.rs:220` has no caller. The bridge's upsert may
   also put a position back after the dispatcher has closed and evicted it.
6. A crossed take-profit leg triggers on every sweep: nothing records a fill, so the
   ladder never completes and `tp_complete` is never reached
   (`tick_dispatcher_loop.rs:156` says otherwise).
7. `selected_candidates`: rows of a batch whose worker dies or whose status update
   fails stay *claimed*; migration 0150 says a row is claimed while dispatched.
8. The selector writes mode `dry` for every setup, whatever mode the allocator armed
   it for.
9. `batch_size` cuts the newest open setups before those with a candidate are
   dropped: with that many newer ones open, an older setup is never selected.
   `SelectorReaches` promises a candidate to those that stay within the batch only.
10. The aggregate cap is compared with what is open before the new position, so one
   bridge alone takes the mode past it.
11. Two bridges that count together open two positions on one symbol and side;
    `live_positions` has no unique index that would stop the second.
12. A candidate selected before a time stop opens a position of the closed setup. The time
    stop spares setups with `tp1_hit`, which nothing sets.

*Setup watcher.*

13. The trail tightens the stop and the ratchet of the same pass can write a looser one
    from the copy read before (`setup_watcher.rs:271`: *Monotonic: SL only tightens*).
14. The ratchet starts from the entry whatever the price is, so after a fall it puts
    the stop on the far side of the price.
15. Two targets crossed by one quote can queue two terminal posts for X; the
    comment says the router collapses them.
16. A *tighten* decision at a target announces a moved stop, moves none and leaves
    the target's bit unset, so the announcement repeats.
17. `current_sl` is written through `real` into NUMERIC and `entry_sl` is read from
    REAL exactly; they differ for most prices, and a stop that was never moved is then
    reported as a trail stop. `TrailStopMeansMoved` is stated for rows where they agree.
18. The watcher reads targets from `raw_meta` keys that the allocator does not write
    (its targets are in `tp_ladder`), so targets of its setups are not detected;
    `Watcher_levels` has rows of a writer that does.

*Messages.*

19. `reports.rs:113` says that a window is not sent twice; it is when the process dies between
    the report and its stamp, when the stamp fails, or when two processes run the loop.
20. A claimed row is counted as an attempt, and counted again before the comparison with
    `MAX_ATTEMPTS`: a post is given up one attempt early.
21. A row that is claimed when its process dies, or whose mark fails, stays *sending* in
    all three tables.

*Halt and orders.*

22. `qtss-common/src/kill_switch.rs:19` says that new orders are blocked until the halt is
    cleared. The execution bridge never looks at it; the range loop looks once per batch; a
    live entry whose exit comes while halted has its exit executed on paper.
23. A failed write of the raised flag is not retried: the row still says *go*, processes
    that only sync never halt, and the next sync may clear the flag until the loss loop
    raises it again.
24. Pending copy jobs are not processed while no subscription is active. The follower has
    no key that would keep a second process from placing the same order.

*AI desk.*

25. With managed trailing on, a live Binance futures book never reaches its stop and target.
    `deactivate_trailing` forgets the managed stop and leaves it resting at the venue.
26. `tighten_stop` and `widen_stop` without a percentage multiply the stop fraction by 0.09 and
    0.11 (`position_manager.rs:501`, `:516`). An advised stop or target lasts one tick: the decision is
    marked applied and the next tick uses the defaults.
27. Any open long book marks an approved tactical decision applied, entry or not.
28. A live close whose row cannot be inserted counts as not executed and is repeated. A dry
    close computed from a stale book can turn the position around.
29. A rejection that comes before the child row is written leaves the child free to be
    approved (`early` in `VerdictsHold`).
30. `mark_applied` is said to align the parent (`qtss-ai/src/storage.rs:393`), but writes the rows
    with two statements outside a transaction, as `mark_tactical_execution_failed` does. When the
    manager marks a decision *applied* between the two of the executor's *failed*, the child
    stays *applied* under a parent *error*; `MarksAlign` in `VerdictsHold` allows exactly this pair.
31. The second look after a failed cancel is there *to avoid duplicate new order*
    (`position_manager.rs:1018`), but counts as *gone* when it fails itself (`unwrap_or(false)`).

*Allocator.*

32. Caps are compared once per candidate and charged per mode, so they are overrun by up to
    the number of modes less one; a failed count reads as zero and a failed dedup query as
    *nothing there*.
33. What a higher timeframe replaces is retired in all modes after the first mode's insert; when
    the second insert fails the tick ends and that mode has neither.
34. The loss streak counts `sl_hit` rows among the last twenty closes, consecutive or
    not. Gate 5 of the multi-gate counts its own rejections.

*Order reconciliation.*

35. A message that arrives before its row is inserted, or while the stream is down, is lost
    with its fill; the reconcilers restore the status of *submitted* rows only, and nothing
    restores a fill or a row the stream has left *open*.
36. `EXPIRED_IN_MATCH` is *canceled* to the reconcilers and *open* to the stream.
37. An order placed between the list of open orders and the list of rows is taken for one that
    has gone and becomes *reconciled_not_open*; the stream may correct it, the reconcilers
    do not look at it again (`late` in `StatusTrue`).
38. The reconcilers see the 500 latest rows of a user, of all exchanges and segments together.

## 7. Plan

Done: the path from setup to closed position, the publishers, the halt with the loops under
it, the AI desk with the managed positions, the allocator's gates, the order ledger; proofs of
every safety property the runs check. Next,
most important first:

1. The scheduler's due jobs, the audit chain under concurrent appends and the versions of the
   configuration store: three uses of row locks.
2. Composition of `ExecutionPipeline` with `PositionTracking` over `open` and `live`, of
   `SetupWatcher` with `Outboxes` over the cards, and of `OrderLedger` with the loops that read
   its fills.

Not modelled, and not planned: the numerical parts (pattern detectors, indicators, scores,
sizing formulas), HTTP handlers, rendering and the GUIs. They compute values that the
models take as a choice; what could be said about them is not about states and steps.
