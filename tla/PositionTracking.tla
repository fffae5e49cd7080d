-------------------------- MODULE PositionTracking --------------------------
(***************************************************************************)
(* An open position and the three tasks that know of it.                   *)
(*                                                                         *)
(*   execution_bridge  inserts its row and puts it into LivePositionStore  *)
(*   tick_dispatcher   hydrates the store from the rows, sweeps the quotes *)
(*                     and closes rows                                     *)
(*   time_stop and     close rows and do not know of the store             *)
(*   allocator                                                             *)
(*                                                                         *)
(* The rows are in Postgres; the store is the memory of one worker process *)
(* and is two maps under two locks.  evaluate_tick runs without an await   *)
(* and is one step.  Audit rows other than partial_tp are left out.        *)
(*                                                                         *)
(* No name here is one of SetupWatcher's: the two loops run on the same    *)
(* quotes, and the theorems about them stand in one module.                *)
(***************************************************************************)
EXTENDS Integers, FiniteSets

CONSTANTS
  Positions,
  Keys,        \* TickKeys: (mode, exchange, segment, symbol)
  NoPos,       \* "no position in hand"
  Quotes,      \* quotes the feed may carry
  KeyOf,
  Buy,         \* the long positions
  Stop,        \* current_sl, which nothing changes after the insert
  Target,      \* price of the one leg of tp_ladder
  Liq,         \* liquidation_price, 0 for none
  BandPermille,\* panic_close_distance_pct in thousandths
  Faults,      \* kinds of failure that may happen
  MaxFaults    \* bound: how many failures a behaviour has

NoTick == 0    \* no quote, or one older than stale_mark_secs
Reasons == {"sl_hit", "liquidation_panic", "retired"}
MaxTpLog == 2  \* bound: partial_tp events are counted up to here

ASSUME PositionsAssumption == NoPos \notin Positions /\ KeyOf \in [Positions -> Keys]
ASSUME PricesAssumption ==
  /\ Quotes \subseteq Nat \ {0}
  /\ Stop \in [Positions -> Nat]
  /\ Target \in [Positions -> Nat]
  /\ Liq \in [Positions -> Nat]
  /\ BandPermille \in Nat
  /\ Buy \subseteq Positions
ASSUME FaultsAssumption == Faults \subseteq {"crash", "hydrate", "close"} /\ MaxFaults \in Nat

VARIABLES
  live,      \* live_positions: absent, open (closed_at IS NULL) or closed
  reason,   \* close_reason
  byId,     \* LivePositionStore.by_id
  byTick,   \* LivePositionStore.by_tick
  feed,     \* PriceTickStore
  bpc,      \* where the bridge is in insert and upsert
  bcur,     \* the position it opens
  dpc,      \* where the dispatcher is
  due,      \* hydrate_secs have passed since the last hydrate
  hyd,      \* rows hydrate has read and not applied
  keys,     \* keys the sweep has not reached
  outs,     \* outcomes of the key it is at, not handled
  mark,      \* the quote they were evaluated at
  dcur,     \* the position it hydrates or closes
  dreason,  \* why it closes it
  tpLog,    \* partial_tp rows of position_scale_events
  failed

rowVars == <<live, reason>>
storeVars == <<byId, byTick>>
bridgeVars == <<bpc, bcur>>
workVars == <<hyd, keys, outs, mark, dcur, dreason>>
dispVars == <<dpc, due, workVars>>
trackVars == <<rowVars, storeVars, feed, bridgeVars, dispVars, tpLog, failed>>

TrackTypeOK ==
  /\ live \in [Positions -> {"absent", "open", "closed"}]
  /\ reason \in [Positions -> Reasons \cup {"none"}]
  /\ byId \in SUBSET Positions
  /\ byTick \in [Keys -> SUBSET Positions]
  /\ feed \in [Keys -> Quotes \cup {NoTick}]
  /\ bpc \in {"idle", "byId", "byTick"}
  /\ bcur \in Positions \cup {NoPos}
  /\ dpc \in {"boot", "top", "ready", "hydrate", "hydrateIndex", "sweep", "close", "remove", "removeIndex"}
  /\ due \in BOOLEAN
  /\ hyd \in SUBSET Positions
  /\ keys \in SUBSET Keys
  /\ outs \in SUBSET Positions
  /\ mark \in Quotes \cup {NoTick}
  /\ dcur \in Positions \cup {NoPos}
  /\ dreason \in Reasons \cup {"none"}
  /\ tpLog \in [Positions -> 0..MaxTpLog]
  /\ failed \in Nat

TrackInit ==
  /\ live = [p \in Positions |-> "absent"]
  /\ reason = [p \in Positions |-> "none"]
  /\ byId = {}
  /\ byTick = [k \in Keys |-> {}]
  /\ feed = [k \in Keys |-> NoTick]
  /\ bpc = "idle" /\ bcur = NoPos
  /\ dpc = "boot" /\ due = FALSE
  /\ hyd = {} /\ keys = {} /\ outs = {} /\ mark = NoTick
  /\ dcur = NoPos /\ dreason = "none"
  /\ tpLog = [p \in Positions |-> 0]
  /\ failed = 0

---------------------------------------------------------------------------
(* Guards of a tick, pure functions of the position and the mark.         *)

\* sl_close_reason
Breached(p, x) == IF p \in Buy THEN x <= Stop[p] ELSE x >= Stop[p]

\* assess_with_margin: the distance is a magnitude, whatever side the mark is on.
Panic(p, x) ==
  /\ Liq[p] > 0
  /\ (IF Liq[p] > x THEN Liq[p] - x ELSE x - Liq[p]) * 1000 <= BandPermille * x

\* tp_engine::evaluate; no step ever fills a leg, so a crossed one always triggers.
TpTriggers(p, x) == IF p \in Buy THEN x >= Target[p] ELSE x <= Target[p]

\* The decision of run_sweep.  Warn and scale-out outcomes only add audit rows, the
\* stop is checked in both branches, and the ladder never completes.
CloseReasonIfAction(p, x) ==
  IF Panic(p, x) THEN "liquidation_panic"
  ELSE IF Breached(p, x) /\ TpTriggers(p, x) THEN "sl_hit" ELSE "none"
CloseReason(p, x) ==
  IF Panic(p, x) THEN "liquidation_panic" ELSE IF Breached(p, x) THEN "sl_hit" ELSE "none"

\* A failure of kind k happens (k is one the run allows and the bound is not reached).
TrackFail(k) == k \in Faults /\ failed < MaxFaults /\ failed' = failed + 1

\* UPDATE live_positions SET closed_at ... WHERE closed_at IS NULL
CloseUnguarded(p, why) ==
  /\ live' = [live EXCEPT ![p] = "closed"]
  /\ reason' = [reason EXCEPT ![p] = why]
Close(p, why) ==
  IF live[p] = "open"
    THEN live' = [live EXCEPT ![p] = "closed"] /\ reason' = [reason EXCEPT ![p] = why]
    ELSE UNCHANGED rowVars

\* list_open
OpenKnown == {p \in byId : live[p] = "open"}
OpenPositions == {p \in Positions : live[p] = "open"}

---------------------------------------------------------------------------
(* Quotes, the bridge, and the loops that retire setups.                  *)

FeedQuote(k, x) ==
  /\ feed' = [feed EXCEPT ![k] = x]
  /\ UNCHANGED <<rowVars, storeVars, bridgeVars, dispVars, tpLog, failed>>

\* insert_live_position, then store.upsert: by_id under its lock, by_tick under its own.
InsertRow(p) ==
  /\ bpc = "idle" /\ live[p] = "absent"
  /\ live' = [live EXCEPT ![p] = "open"]
  /\ bpc' = "byId" /\ bcur' = p
  /\ UNCHANGED <<reason, storeVars, feed, dispVars, tpLog, failed>>

UpsertId ==
  /\ bpc = "byId"
  /\ byId' = byId \cup {bcur}
  /\ bpc' = "byTick"
  /\ UNCHANGED <<rowVars, byTick, feed, bcur, dispVars, tpLog, failed>>

UpsertTick ==
  /\ bpc = "byTick"
  /\ byTick' = [byTick EXCEPT ![KeyOf[bcur]] = @ \cup {bcur}]
  /\ bpc' = "idle" /\ bcur' = NoPos
  /\ UNCHANGED <<rowVars, byId, feed, dispVars, tpLog, failed>>

\* time_stop or supersede: one UPDATE on the row.
Retire(p) ==
  /\ live[p] = "open"
  /\ Close(p, "retired")
  /\ UNCHANGED <<storeVars, feed, bridgeVars, dispVars, tpLog, failed>>

---------------------------------------------------------------------------
(* tick_dispatcher_loop.                                                  *)

\* hydrate_secs have passed.
HydrateDue ==
  /\ dpc \notin {"boot", "hydrate", "hydrateIndex"} /\ ~due
  /\ due' = TRUE
  /\ UNCHANGED <<rowVars, storeVars, feed, bridgeVars, dpc, workVars, tpLog, failed>>

\* hydrate reads the open rows; when the query fails it gives up until it is due again.
HydrateRead ==
  /\ dpc = "boot" \/ (dpc = "top" /\ due)
  /\ \/ /\ hyd' = OpenPositions
        /\ dpc' = "hydrate"
        /\ UNCHANGED failed
     \/ /\ TrackFail("hydrate")
        /\ dpc' = "ready"
        /\ UNCHANGED hyd
  /\ due' = FALSE
  /\ UNCHANGED <<rowVars, storeVars, feed, bridgeVars, keys, outs, mark, dcur, dreason, tpLog>>

\* Its upserts, row by row and lock by lock.
HydrateId(p) ==
  /\ dpc = "hydrate" /\ p \in hyd
  /\ byId' = byId \cup {p}
  /\ hyd' = hyd \ {p} /\ dcur' = p
  /\ dpc' = "hydrateIndex"
  /\ UNCHANGED <<rowVars, byTick, feed, bridgeVars, due, keys, outs, mark, dreason, tpLog, failed>>

HydrateTick ==
  /\ dpc = "hydrateIndex"
  /\ byTick' = [byTick EXCEPT ![KeyOf[dcur]] = @ \cup {dcur}]
  /\ dcur' = NoPos
  /\ dpc' = "hydrate"
  /\ UNCHANGED <<rowVars, byId, feed, bridgeVars, due, hyd, keys, outs, mark, dreason, tpLog, failed>>

HydrateDone ==
  /\ dpc = "hydrate" /\ hyd = {}
  /\ dpc' = "ready"
  /\ UNCHANGED <<rowVars, storeVars, feed, bridgeVars, due, workVars, tpLog, failed>>

\* run_sweep takes a snapshot of the keys; a hydrate is always followed by a sweep.
SweepStart ==
  /\ dpc = "ready" \/ (dpc = "top" /\ ~due)
  /\ keys' = {k \in Keys : byTick[k] # {}}
  /\ dpc' = "sweep"
  /\ UNCHANGED <<rowVars, storeVars, feed, bridgeVars, due, hyd, outs, mark, dcur, dreason, tpLog, failed>>

\* A key: skipped without a fresh quote, else evaluate_tick over the indexed positions.
SweepKey(k) ==
  /\ dpc = "sweep" /\ outs = {} /\ k \in keys
  /\ keys' = keys \ {k}
  /\ IF feed[k] = NoTick
       THEN UNCHANGED <<outs, mark>>
       ELSE outs' = byTick[k] \cap byId /\ mark' = feed[k]
  /\ UNCHANGED <<rowVars, storeVars, feed, bridgeVars, dpc, due, hyd, dcur, dreason, tpLog, failed>>

\* One outcome: its audit rows, then whether it closes the position.
Decide(p) ==
  /\ dpc = "sweep" /\ p \in outs
  /\ outs' = outs \ {p}
  /\ tpLog' = IF TpTriggers(p, mark) /\ tpLog[p] < MaxTpLog
                THEN [tpLog EXCEPT ![p] = @ + 1] ELSE tpLog
  /\ IF CloseReason(p, mark) = "none"
       THEN UNCHANGED <<dpc, dcur, dreason>>
       ELSE /\ dcur' = p /\ dreason' = CloseReason(p, mark)
            /\ dpc' = "close"
  /\ UNCHANGED <<rowVars, storeVars, feed, bridgeVars, due, hyd, keys, mark, failed>>

\* close_position: the UPDATE; the store entry is dropped only when it succeeds.
ClosePositionAlways ==
  /\ dpc = "close"
  /\ \/ Close(dcur, dreason) /\ UNCHANGED failed
     \/ TrackFail("close") /\ UNCHANGED rowVars
  /\ dpc' = "remove"
  /\ UNCHANGED <<storeVars, feed, bridgeVars, due, workVars, tpLog>>
ClosePosition ==
  /\ dpc = "close"
  /\ \/ /\ Close(dcur, dreason)
        /\ dpc' = "remove"
        /\ UNCHANGED <<dcur, dreason, failed>>
     \/ /\ TrackFail("close")
        /\ dpc' = "sweep" /\ dcur' = NoPos /\ dreason' = "none"
        /\ UNCHANGED rowVars
  /\ UNCHANGED <<storeVars, feed, bridgeVars, due, hyd, keys, outs, mark, tpLog>>

\* store.remove: by_id, and by_tick if by_id had it.
RemoveId ==
  /\ dpc = "remove"
  /\ byId' = byId \ {dcur}
  /\ IF dcur \in byId
       THEN dpc' = "removeIndex" /\ UNCHANGED <<dcur, dreason>>
       ELSE dpc' = "sweep" /\ dcur' = NoPos /\ dreason' = "none"
  /\ UNCHANGED <<rowVars, byTick, feed, bridgeVars, due, hyd, keys, outs, mark, tpLog, failed>>

WithoutKey(p) == [byTick EXCEPT ![KeyOf[p]] = {}]
Without(p) == [byTick EXCEPT ![KeyOf[p]] = @ \ {p}]
RemoveTick ==
  /\ dpc = "removeIndex"
  /\ byTick' = Without(dcur)
  /\ dpc' = "sweep" /\ dcur' = NoPos /\ dreason' = "none"
  /\ UNCHANGED <<rowVars, byId, feed, bridgeVars, due, hyd, keys, outs, mark, tpLog, failed>>

SweepDone ==
  /\ dpc = "sweep" /\ keys = {} /\ outs = {}
  /\ dpc' = "top" /\ mark' = NoTick
  /\ UNCHANGED <<rowVars, storeVars, feed, bridgeVars, due, hyd, keys, outs, dcur, dreason, tpLog, failed>>

\* The worker dies and starts over: the rows stay, the store is empty.
WorkerRestart ==
  /\ TrackFail("crash")
  /\ byId' = {} /\ byTick' = [k \in Keys |-> {}]
  /\ feed' = [k \in Keys |-> NoTick]
  /\ bpc' = "idle" /\ bcur' = NoPos
  /\ dpc' = "boot" /\ due' = FALSE
  /\ hyd' = {} /\ keys' = {} /\ outs' = {} /\ mark' = NoTick
  /\ dcur' = NoPos /\ dreason' = "none"
  /\ UNCHANGED <<rowVars, tpLog>>

---------------------------------------------------------------------------
BridgeStep == UpsertId \/ UpsertTick

DispatcherStep ==
  \/ HydrateRead \/ HydrateTick \/ HydrateDone \/ (\E p \in Positions : HydrateId(p))
  \/ SweepStart \/ SweepDone \/ (\E k \in Keys : SweepKey(k))
  \/ (\E p \in Positions : Decide(p))
  \/ ClosePosition \/ RemoveId \/ RemoveTick

TrackNext ==
  \/ \E k \in Keys, x \in Quotes \cup {NoTick} : FeedQuote(k, x)
  \/ \E p \in Positions : InsertRow(p) \/ Retire(p)
  \/ BridgeStep
  \/ HydrateDue
  \/ DispatcherStep
  \/ WorkerRestart

TrackSpec == TrackInit /\ [][TrackNext]_trackVars

\* Both tasks are loops that sleep and go on, and time passes.
TrackFairSpec ==
  /\ TrackSpec
  /\ WF_trackVars(BridgeStep) /\ WF_trackVars(DispatcherStep) /\ WF_trackVars(HydrateDue)

---------------------------------------------------------------------------
(* Properties.                                                            *)

Indexed(p) == p \in byTick[KeyOf[p]]
Upserting(p) == (bpc = "byTick" /\ bcur = p) \/ (dpc = "hydrateIndex" /\ dcur = p)

\* The two maps of the store are never seen to disagree on an open position for
\* longer than its own upsert: what is in by_id is reached by a tick.
IndexAgrees ==
  \A p \in byId : live[p] = "open" => Indexed(p) \/ Upserting(p)

\* close_position: only a position whose row is closed leaves the store, unless the
\* process restarts.
OpenStaysTracked ==
  [][\A p \in byId : p \notin byId' => live[p] # "open" \/ dpc' = "boot"]_trackVars

\* A row is opened once, closed once, and keeps its first reason, whoever closes it.
Lifecycle == INSTANCE PositionLifecycle WITH
  Positions <- Positions, Reasons <- Reasons, row <- live, reason <- reason
RowLifecycle == Lifecycle!Spec

\* An open position whose stop is crossed does not stay open for ever while quotes
\* arrive and stay beyond it, whatever failed or restarted before.
StopFires ==
  \A p \in Positions :
    []<>~(live[p] = "open" /\ feed[KeyOf[p]] # NoTick /\ Breached(p, feed[KeyOf[p]]))

\* live_positions rows survive restarts: every open row is tracked sooner or later.
OpenGetsTracked ==
  \A p \in Positions : live[p] = "open" ~> (p \in byId /\ Indexed(p)) \/ live[p] = "closed"
=============================================================================
