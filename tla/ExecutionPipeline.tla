------------------------- MODULE ExecutionPipeline -------------------------
(***************************************************************************)
(* From an armed setup to an open position.                                *)
(*                                                                         *)
(*   qtss_setups  --selector_loop-->  selected_candidates                  *)
(*                --execution_bridge-->  venue, exchange_orders,           *)
(*                                       live_positions                    *)
(*                                                                         *)
(* The tables live in Postgres and outlive every task.  Between two awaits *)
(* of a task any other task may run, so an action is what a task does from *)
(* one statement to the next.  A candidate is a row of selected_candidates *)
(* and is named by its UNIQUE (setup_id, mode).                            *)
(***************************************************************************)
EXTENDS Naturals, FiniteSets, Functions

CONSTANTS
  Setups,         \* rows qtss_setups may come to hold
  Workers,        \* execution_bridge_loop tasks on the database
  NoCand,         \* "no candidate in hand"
  KeyOf,          \* the (symbol, side) a setup trades
  RawNotional,    \* what risk_pct sizing alone asks for
  PosCap,         \* equity * leverage * max_position_fraction
  AggCap,         \* equity * leverage * aggregate_notional_fraction
  SelectorBatch,  \* risk.selector.batch_size
  LiveRows,       \* setups for which someone may queue a live row
  Deployments     \* what a behaviour may start from:
                  \*   claim     BATCH of the bridge
                  \*   retirers  the retiring loops that run
                  \*   config    values (execution.dry.enabled, execution.live.enabled) take
                  \*   kinds     kinds of failure that may happen
                  \*   faults    bound: how many failures there are

Modes == {"dry", "live"}
Cands == Setups \X Modes
Off == [dry |-> FALSE, live |-> FALSE]
Flags == [dry : BOOLEAN, live : BOOLEAN]
\* The two loops that close a setup and then, in a second statement, its positions.
Retirers == {"time_stop", "supersede"}
FaultKinds == {"select", "crash", "mark", "count", "venue", "order", "insert",
               "reject", "retire"}

ASSUME SetupsAssumption == IsFiniteSet(Setups) /\ IsFiniteSet(Workers)
ASSUME NoCandAssumption == NoCand \notin Cands
ASSUME SizingAssumption ==
  /\ RawNotional \in [Setups -> Nat]
  /\ PosCap \in Nat
  /\ AggCap \in Nat \ {0}
ASSUME BatchAssumption == SelectorBatch \in Nat \ {0}
ASSUME LiveRowsAssumption == LiveRows \subseteq Setups
ASSUME DeploymentsAssumption ==
  Deployments \subseteq [claim : Nat \ {0}, retirers : SUBSET Retirers, config : SUBSET Flags,
                         kinds : SUBSET FaultKinds, faults : Nat]

VARIABLES
  dep,       \* the deployment
  setup,     \* qtss_setups.state
  setupNo,   \* order of creation, 0 for a row that does not exist
  cand,      \* selected_candidates.status
  candNo,    \* order of created_at
  selWork,   \* setups the selector tick has still to enqueue
  pc,        \* where a bridge is in run_tick
  batch,     \* claimed rows of the tick it has not reached
  cur,       \* the row it is dispatching
  outcome,   \* what dispatch returned
  conf,      \* the flags read at the start of the tick
  venue,     \* market orders the exchange accepted for a setup
  orders,    \* exchange_orders rows of a setup
  inserted,  \* live_positions rows ever inserted for a candidate
  open,      \* those with closed_at IS NULL
  ret,       \* a retiring loop: rows it has read, row between its two UPDATEs
  faults     \* failures so far

setupVars == <<dep, setup, setupNo>>
candVars  == <<cand, candNo>>
bridgeVars == <<pc, batch, cur, outcome, conf>>
tradeVars == <<venue, orders, inserted, open>>
vars == <<setupVars, candVars, selWork, bridgeVars, tradeVars, ret, faults>>

SetupStates == {"none", "armed", "closed", "closed_scratch", "rejected"}
CandStates  == {"absent", "pending", "claimed", "placed", "errored"}
Pcs == {"idle", "next", "gates", "dedup", "cap", "venue", "order", "insert", "mark", "reject"}

TypeOK ==
  /\ dep \in Deployments
  /\ setup \in [Setups -> SetupStates]
  /\ setupNo \in [Setups -> Nat]
  /\ cand \in [Cands -> CandStates]
  /\ candNo \in [Cands -> Nat]
  /\ selWork \in SUBSET Setups
  /\ pc \in [Workers -> Pcs]
  /\ batch \in [Workers -> SUBSET Cands]
  /\ cur \in [Workers -> Cands \cup {NoCand}]
  /\ outcome \in [Workers -> {"none", "ok", "gated", "err"}]
  /\ conf \in [Workers -> Flags]
  /\ venue \in [Setups -> Nat]
  /\ orders \in [Setups -> Nat]
  /\ inserted \in [Cands -> Nat]
  /\ open \in [Cands -> Nat]
  /\ ret \in [Retirers -> [on : SUBSET Setups, at : SUBSET Setups]]
  /\ faults \in Nat

Init ==
  /\ dep \in Deployments
  /\ setup = [s \in Setups |-> "none"]
  /\ setupNo = [s \in Setups |-> 0]
  /\ cand = [c \in Cands |-> "absent"]
  /\ candNo = [c \in Cands |-> 0]
  /\ selWork = {}
  /\ pc = [w \in Workers |-> "idle"]
  /\ batch = [w \in Workers |-> {}]
  /\ cur = [w \in Workers |-> NoCand]
  /\ outcome = [w \in Workers |-> "none"]
  /\ conf = [w \in Workers |-> Off]
  /\ venue = [s \in Setups |-> 0]
  /\ orders = [s \in Setups |-> 0]
  /\ inserted = [c \in Cands |-> 0]
  /\ open = [c \in Cands |-> 0]
  /\ ret = [r \in Retirers |-> [on |-> {}, at |-> {}]]
  /\ faults = 0

---------------------------------------------------------------------------
(* What the queries read.                                                 *)

Open(s) == setup[s] = "armed"
Closed(s) == setup[s] \in {"closed", "closed_scratch", "rejected"}

\* A failure of kind k happens (k is one the run allows and the bound is not reached).
Fail(k) == k \in dep.kinds /\ faults < dep.faults /\ faults' = faults + 1

\* UPDATE qtss_setups ... WHERE closed_at IS NULL: a row that is already closed is left.
StampUnguarded(s, state) == setup' = [setup EXCEPT ![s] = state]
Stamp(s, state) == setup' = IF Open(s) THEN [setup EXCEPT ![s] = state] ELSE setup

\* ORDER BY created_at DESC, then take(batch): the newest open setups.
NewestLast == {s \in Setups : /\ Open(s)
                              /\ Cardinality({t \in Setups : Open(t) /\ setupNo[t] < setupNo[s]})
                                   < SelectorBatch}
Newest == {s \in Setups : /\ Open(s)
                          /\ Cardinality({t \in Setups : Open(t) /\ setupNo[t] > setupNo[s]})
                               < SelectorBatch}

\* WHERE status = 'pending' ORDER BY created_at ASC LIMIT n: the oldest pending rows.
PendingOrClaimed == {c \in Cands : cand[c] \in {"pending", "claimed"}}
Pending == {c \in Cands : cand[c] = "pending"}
Oldest == {c \in Pending : Cardinality({d \in Pending : candNo[d] < candNo[c]}) < dep.claim}

NextSetupNo == Cardinality({s \in Setups : setup[s] # "none"}) + 1
NextCandNo == Cardinality({c \in Cands : cand[c] # "absent"}) + 1

\* COUNT(*) of live_positions WHERE mode, symbol, side AND closed_at IS NULL.
SameKey(c) == {d \in Cands : d[2] = c[2] /\ KeyOf[d[1]] = KeyOf[c[1]]}
AlreadyOpenSelf(c) == open[c] > 0
AlreadyOpen(c) == \E d \in SameKey(c) : open[d] > 0

\* size_from_risk: the smaller of the risk sizing and the notional cap.  Rounding
\* to 4 decimals, dry slippage and the 0.01 fallback of degenerate rows are left out.
NotionalUncapped(s) == RawNotional[s]
Notional(s) == IF RawNotional[s] < PosCap THEN RawNotional[s] ELSE PosCap

\* SUM(qty_filled * entry_avg) of live_positions WHERE mode AND closed_at IS NULL.
OpenNotional(m) ==
  SumFunctionOnSet([s \in Setups |-> open[<<s, m>>] * Notional(s)], Setups)

---------------------------------------------------------------------------
(* The loops that write qtss_setups.                                      *)

\* The allocator inserts a setup: armed when every gate is viable, otherwise
\* 'rejected' and already closed.
Arm(s, state) ==
  /\ setup[s] = "none"
  /\ state \in {"armed", "rejected"}
  /\ setup' = [setup EXCEPT ![s] = state]
  /\ setupNo' = [setupNo EXCEPT ![s] = NextSetupNo]
  /\ UNCHANGED <<dep, candVars, selWork, bridgeVars, tradeVars, ret, faults>>

\* The setup watcher closes a setup on its own terminal event; the positions of
\* the setup are not touched.  (On a row closed since it was read it writes nothing.)
CloseSetup(s) ==
  /\ Open(s)
  /\ Stamp(s, "closed")
  /\ UNCHANGED <<dep, setupNo, candVars, selWork, bridgeVars, tradeVars, ret, faults>>

\* A retiring loop reads the open setups it will close.  (The allocator reads its
\* list before the setup that supersedes them is inserted.)
RetireRead(r) ==
  /\ r \in dep.retirers
  /\ ret[r].on = {} /\ ret[r].at = {}
  /\ \E rows \in SUBSET {s \in Setups : Open(s)} :
       rows # {} /\ ret' = [ret EXCEPT ![r].on = rows]
  /\ UNCHANGED <<setupVars, candVars, selWork, bridgeVars, tradeVars, faults>>

\* A newer setup on the same key was inserted.
Superseded(s) == \E t \in Setups : KeyOf[t] = KeyOf[s] /\ setupNo[t] > setupNo[s]

\* First UPDATE, on the setup as it is now; its result is dropped.
RetireSetup(r, s) ==
  /\ ret[r].at = {} /\ s \in ret[r].on
  /\ r = "supersede" => Superseded(s)
  /\ \/ /\ Stamp(s, IF r = "time_stop" THEN "closed_scratch" ELSE "rejected")
        /\ UNCHANGED faults
     \/ Fail("retire") /\ UNCHANGED setup
  /\ ret' = [ret EXCEPT ![r] = [on |-> @.on \ {s}, at |-> {s}]]
  /\ UNCHANGED <<dep, setupNo, candVars, selWork, bridgeVars, tradeVars>>

\* Second UPDATE, on every open position of the setup; its result is dropped.
RetirePositions(r, s) ==
  /\ s \in ret[r].at
  /\ \/ /\ open' = [c \in Cands |-> IF c[1] = s THEN 0 ELSE open[c]]
        /\ UNCHANGED faults
     \/ Fail("retire") /\ UNCHANGED open
  /\ ret' = [ret EXCEPT ![r].at = {}]
  /\ UNCHANGED <<setupVars, candVars, selWork, bridgeVars, venue, orders, inserted>>

\* The tick dispatcher closes one position row (stop, liquidation panic).
ClosePosition(c) ==
  /\ open[c] > 0
  /\ open' = [open EXCEPT ![c] = @ - 1]
  /\ UNCHANGED <<setupVars, candVars, selWork, bridgeVars, venue, orders, inserted, ret, faults>>

---------------------------------------------------------------------------
(* selector_loop.                                                         *)

\* The reads of a tick: the newest open setups, less those that already have a
\* dry candidate.
SelectorRead ==
  /\ selWork = {}
  /\ selWork' = {s \in Newest : cand[<<s, "dry">>] = "absent"}
  /\ selWork' # {}
  /\ UNCHANGED <<setupVars, candVars, bridgeVars, tradeVars, ret, faults>>

\* One INSERT of the tick, ON CONFLICT (setup_id, mode) DO NOTHING.  The mode is
\* always dry, and the setup is not read again.
SelectorInsert(s) ==
  /\ s \in selWork
  /\ \A t \in selWork : setupNo[t] <= setupNo[s]
  /\ selWork' = selWork \ {s}
  /\ IF cand[<<s, "dry">>] = "absent"
       THEN /\ cand' = [cand EXCEPT ![<<s, "dry">>] = "pending"]
            /\ candNo' = [candNo EXCEPT ![<<s, "dry">>] = NextCandNo]
       ELSE UNCHANGED candVars
  /\ UNCHANGED <<setupVars, bridgeVars, tradeVars, ret, faults>>

\* An INSERT fails: the tick returns and the rest of its work list is forgotten.
SelectorFail ==
  /\ selWork # {}
  /\ Fail("select")
  /\ selWork' = {}
  /\ UNCHANGED <<setupVars, candVars, bridgeVars, tradeVars, ret>>

\* A row with mode = 'live'.  No loop of the repository writes one: the selector
\* is dry only, so the writer is an operator or a tool beside it.
EnqueueLive(s) ==
  /\ s \in LiveRows
  /\ Open(s)
  /\ cand[<<s, "live">>] = "absent"
  /\ cand' = [cand EXCEPT ![<<s, "live">>] = "pending"]
  /\ candNo' = [candNo EXCEPT ![<<s, "live">>] = NextCandNo]
  /\ UNCHANGED <<setupVars, selWork, bridgeVars, tradeVars, ret, faults>>

---------------------------------------------------------------------------
(* execution_bridge: run_tick of worker w.                                *)

Goto(w, label) == pc' = [pc EXCEPT ![w] = label]
Return(w, res) == Goto(w, "mark") /\ outcome' = [outcome EXCEPT ![w] = res]

\* build_live_position_for_mode returned None: a dry dispatch warns and is Ok, a
\* live one is an error.
NotBuiltOk(w) == Return(w, "gated")
NotBuilt(w) == Return(w, IF cur[w][2] = "dry" THEN "gated" ELSE "err")

\* claim_pending: the flags of the tick, then the oldest pending rows in one UPDATE.
Claim(w) ==
  /\ pc[w] = "idle"
  /\ Oldest # {}
  /\ \E cf \in dep.config : conf' = [conf EXCEPT ![w] = cf]
  /\ cand' = [c \in Cands |-> IF c \in Oldest THEN "claimed" ELSE cand[c]]
  /\ batch' = [batch EXCEPT ![w] = Oldest]
  /\ Goto(w, "next")
  /\ UNCHANGED <<setupVars, candNo, selWork, cur, outcome, tradeVars, ret, faults>>

\* The next row of the batch; its mode may be switched off.
Dispatch(w, c) ==
  /\ pc[w] = "next" /\ c \in batch[w]
  /\ batch' = [batch EXCEPT ![w] = @ \ {c}]
  /\ cur' = [cur EXCEPT ![w] = c]
  /\ IF conf[w][c[2]] THEN Goto(w, "gates") /\ UNCHANGED outcome
                      ELSE Return(w, "err")
  /\ UNCHANGED <<setupVars, candVars, selWork, conf, tradeVars, ret, faults>>

\* Identity, confirmation bar and RSI, distance left to the target.
Gates(w) ==
  /\ pc[w] = "gates"
  /\ \/ Goto(w, "dedup") /\ UNCHANGED outcome
     \/ NotBuilt(w)
  /\ UNCHANGED <<setupVars, candVars, selWork, batch, cur, conf, tradeVars, ret, faults>>

\* already_open; a failed count reads as zero.
Dedup(w) ==
  /\ pc[w] = "dedup"
  /\ \/ AlreadyOpen(cur[w]) /\ NotBuilt(w) /\ UNCHANGED faults
     \/ ~AlreadyOpen(cur[w]) /\ Goto(w, "cap") /\ UNCHANGED <<outcome, faults>>
     \/ Fail("count") /\ Goto(w, "cap") /\ UNCHANGED outcome
  /\ UNCHANGED <<setupVars, candVars, selWork, batch, cur, conf, tradeVars, ret>>

\* The aggregate cap, compared with what is open before this position; a failed
\* sum reads as zero.
Built(w) == Goto(w, IF cur[w][2] = "dry" THEN "insert" ELSE "venue") /\ UNCHANGED outcome
Cap(w) ==
  /\ pc[w] = "cap"
  /\ \/ OpenNotional(cur[w][2]) >= AggCap /\ NotBuilt(w) /\ UNCHANGED faults
     \/ OpenNotional(cur[w][2]) < AggCap /\ Built(w) /\ UNCHANGED faults
     \/ Fail("count") /\ Built(w)
  /\ UNCHANGED <<setupVars, candVars, selWork, batch, cur, conf, tradeVars, ret>>

\* Credentials, client and market order: refused before it reaches the book,
\* accepted, or accepted with the answer lost.
PlaceVenue(w) ==
  /\ pc[w] = "venue"
  /\ \/ Return(w, "err") /\ UNCHANGED <<venue, faults>>
     \/ /\ venue' = [venue EXCEPT ![cur[w][1]] = @ + 1]
        /\ \/ Goto(w, "order") /\ UNCHANGED <<outcome, faults>>
           \/ Fail("venue") /\ Return(w, "err")
  /\ UNCHANGED <<setupVars, candVars, selWork, batch, cur, conf, orders, inserted, open, ret>>

\* exchange_orders row of the accepted order; a failure ends the dispatch.
InsertOrder(w) ==
  /\ pc[w] = "order"
  /\ \/ /\ orders' = [orders EXCEPT ![cur[w][1]] = @ + 1]
        /\ Goto(w, "insert")
        /\ UNCHANGED <<outcome, faults>>
     \/ Fail("order") /\ Return(w, "err") /\ UNCHANGED orders
  /\ UNCHANGED <<setupVars, candVars, selWork, batch, cur, conf, venue, inserted, open, ret>>

\* live_positions row; a failure is logged and the dispatch is still Ok.
InsertPosition(w) ==
  /\ pc[w] = "insert"
  /\ \/ /\ inserted' = [inserted EXCEPT ![cur[w]] = @ + 1]
        /\ open' = [open EXCEPT ![cur[w]] = @ + 1]
        /\ UNCHANGED faults
     \/ Fail("insert") /\ UNCHANGED <<inserted, open>>
  /\ Return(w, "ok")
  /\ UNCHANGED <<setupVars, candVars, selWork, batch, cur, conf, venue, orders, ret>>

\* The rest of the batch is dropped with the tick or the process; its rows keep
\* their status.
Abandon(w) ==
  /\ Goto(w, "idle")
  /\ batch' = [batch EXCEPT ![w] = {}]
  /\ cur' = [cur EXCEPT ![w] = NoCand]
  /\ outcome' = [outcome EXCEPT ![w] = "none"]
  /\ conf' = [conf EXCEPT ![w] = Off]

\* The status an outcome is recorded as.
SettledRetry(w) == IF outcome[w] = "err" THEN "pending" ELSE "placed"
SettledLost(w) == IF outcome[w] = "err" THEN "claimed" ELSE "placed"
Settled(w) == IF outcome[w] = "err" THEN "errored" ELSE "placed"

\* A failed live dispatch also takes its setup down.
NeedsRejectIfEnabled(w) == outcome[w] = "err" /\ cur[w][2] = "live" /\ conf[w].live
NeedsReject(w) == outcome[w] = "err" /\ cur[w][2] = "live"

\* mark_placed or mark_errored; a failure ends run_tick.
Mark(w) ==
  /\ pc[w] = "mark"
  /\ \/ /\ cand' = [cand EXCEPT ![cur[w]] = Settled(w)]
        /\ IF NeedsReject(w)
             THEN Goto(w, "reject") /\ UNCHANGED <<cur, outcome>>
             ELSE /\ Goto(w, "next")
                  /\ cur' = [cur EXCEPT ![w] = NoCand]
                  /\ outcome' = [outcome EXCEPT ![w] = "none"]
        /\ UNCHANGED <<batch, conf, faults>>
     \/ Fail("mark") /\ Abandon(w) /\ UNCHANGED cand
  /\ UNCHANGED <<setupVars, candNo, selWork, tradeVars, ret>>

\* mark_setup_rejected after a failed live dispatch; a failure is logged.
RejectSetup(w) ==
  /\ pc[w] = "reject"
  /\ \/ /\ Stamp(cur[w][1], "rejected")
        /\ UNCHANGED faults
     \/ Fail("reject") /\ UNCHANGED setup
  /\ Goto(w, "next")
  /\ cur' = [cur EXCEPT ![w] = NoCand]
  /\ outcome' = [outcome EXCEPT ![w] = "none"]
  /\ UNCHANGED <<dep, setupNo, candVars, selWork, batch, conf, tradeVars, ret>>

\* The batch is finished; the loop sleeps until its next tick.
EndTick(w) ==
  /\ pc[w] = "next" /\ batch[w] = {}
  /\ Goto(w, "idle")
  /\ conf' = [conf EXCEPT ![w] = Off]
  /\ UNCHANGED <<setupVars, candVars, selWork, batch, cur, outcome, tradeVars, ret, faults>>

\* A tick that claims nothing returns at once.
EmptyTick(w) ==
  /\ pc[w] = "idle"
  /\ Pending = {}
  /\ UNCHANGED vars

\* The process dies between two statements and its bridge starts over.
Crash(w) ==
  /\ pc[w] # "idle"
  /\ Fail("crash")
  /\ Abandon(w)
  /\ UNCHANGED <<setupVars, candVars, selWork, tradeVars, ret>>

---------------------------------------------------------------------------
SetupStep ==
  \/ \E s \in Setups, state \in {"armed", "rejected"} : Arm(s, state)
  \/ \E s \in Setups : CloseSetup(s)
  \/ \E r \in Retirers : RetireRead(r)
  \/ \E r \in Retirers, s \in Setups : RetireSetup(r, s) \/ RetirePositions(r, s)

SelectorStep == SelectorRead \/ SelectorFail \/ \E s \in Setups : SelectorInsert(s)

BridgeStep(w) ==
  \/ Claim(w) \/ (\E c \in Cands : Dispatch(w, c))
  \/ Gates(w) \/ Dedup(w) \/ Cap(w)
  \/ PlaceVenue(w) \/ InsertOrder(w) \/ InsertPosition(w)
  \/ Mark(w) \/ RejectSetup(w) \/ EndTick(w)

Next ==
  \/ SetupStep
  \/ SelectorStep
  \/ \E s \in Setups : EnqueueLive(s)
  \/ \E c \in Cands : ClosePosition(c)
  \/ \E w \in Workers : BridgeStep(w) \/ EmptyTick(w) \/ Crash(w)

Spec == Init /\ [][Next]_vars

\* tokio keeps polling the selector and the bridges: both are loops that sleep
\* and tick again whatever the last tick returned.
FairSpec == Spec /\ WF_vars(SelectorStep) /\ \A w \in Workers : WF_vars(BridgeStep(w))

---------------------------------------------------------------------------
(* Properties.                                                            *)

Holding(w) == batch[w] \cup ({cur[w]} \cap Cands)

\* claim_pending with FOR UPDATE SKIP LOCKED: two bridges never have the same row
\* in hand, and a row waiting in a batch has not been settled by anyone.
RowsHeldOnce ==
  /\ \A v, w \in Workers : v # w => Holding(v) \cap Holding(w) = {}
  /\ \A w \in Workers : \A c \in batch[w] : cand[c] = "claimed" /\ c # cur[w]

\* Whatever fails, and however often a bridge dies and starts over, a candidate
\* reaches the venue at most once and opens at most one position.
AtMostOnce ==
  /\ \A s \in Setups : venue[s] <= 1 /\ orders[s] <= 1
  /\ \A c \in Cands : inserted[c] <= 1

\* dispatch_live: a live position row has its exchange_orders row, and that row
\* an order the venue accepted.
LiveRowsBacked ==
  \A s \in Setups : inserted[<<s, "live">>] <= orders[s] /\ orders[s] <= venue[s]

\* selected_candidates: a live row is 'placed' only after the broker's answer was
\* recorded.
PlacedAfterAck ==
  \A s \in Setups : cand[<<s, "live">>] = "placed" => orders[s] >= 1 /\ venue[s] >= 1

\* Venue, exchange_orders, live_positions and the candidate tell one story of a live
\* dispatch, whichever of its steps fails.
LiveAgrees == LiveRowsBacked /\ PlacedAfterAck

\* Counts that failed and were read as zero.
Blind == IF "count" \in dep.kinds THEN faults ELSE 0

\* The per-(mode, symbol, side) gate: each bridge can be past the count when another
\* inserts, and a count that fails reads as zero, so there are never more open positions
\* than bridges and failed counts.
ExposureDedup ==
  \A c \in Cands : SumFunctionOnSet(open, SameKey(c)) <= Cardinality(Workers) + Blind

\* The aggregate notional gate looks at what is open before the new position, so each
\* bridge, and each sum that fails, can take the mode past the cap by one position.
NotionalBound ==
  \A m \in Modes : OpenNotional(m) < AggCap + (Cardinality(Workers) + Blind) * PosCap

\* qtss_setups: the bridge, the watcher, the time stop and the allocator all close
\* setups; the first one wins and the row never changes again.
ClosedIsFinal == [][\A s \in Setups : Closed(s) => setup'[s] = setup[s]]_vars

\* run_tick: a setup whose live dispatch failed does not stay armed.
FailedLiveSetupClosed ==
  \A s \in Setups :
    /\ cand[<<s, "live">>] = "errored"
    /\ \A w \in Workers : cur[w] # <<s, "live">>
    => ~Open(s)

\* Without a crash or a failed status update every queued row is settled.
EveryRowSettles ==
  \A c \in Cands : cand[c] = "pending" ~> cand[c] \in {"placed", "errored"}

\* The selector cuts the open setups to its batch before it drops those that have their
\* candidate: a setup that stays among the newest of the batch gets one, whatever inserts
\* fail.  One that does not is promised nothing.
Foremost(s) ==
  Open(s) /\ Cardinality({t \in Setups : Open(t) /\ setupNo[t] > setupNo[s]}) < SelectorBatch
SelectorReaches ==
  \A s \in Setups : <>[]Foremost(s) => <>(cand[<<s, "dry">>] # "absent")

\* The candidate queue and the bridges implement Placement: a candidate is taken
\* once, acts on the market only while a bridge has it in hand and only once, and
\* never again when it is settled.
StageOf(c) == CASE cand[c] = "absent"  -> "none"
                [] cand[c] = "pending" -> "queued"
                [] cand[c] = "claimed" -> "inhand"
                [] OTHER               -> "settled"
SentOf(c) == IF c[2] = "live" THEN venue[c[1]] ELSE inserted[c]
Placing == INSTANCE Placement WITH
  Cands <- Cands,
  stage <- [c \in Cands |-> StageOf(c)],
  sent  <- [c \in Cands |-> SentOf(c)],
  held  <- inserted
PlacesOnce == Placing!Spec
=============================================================================
