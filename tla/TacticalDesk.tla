---------------------------- MODULE TacticalDesk ----------------------------
(***************************************************************************)
(* The AI's decisions about one symbol and the position they move:         *)
(*                                                                         *)
(*   tactical sweep -----> ai_decisions + ai_tactical_decisions            *)
(*   operational sweep --> ai_decisions + ai_position_directives           *)
(*   operator, auto-approval, expiry: settle the pair of rows              *)
(*   ai_tactical_executor_loop: enters on the newest approved decision     *)
(*   position_manager_loop: closes, protects, and marks advice applied     *)
(*                                                                         *)
(* The two loops share the rows, the venue's orders and the exchange_orders *)
(* rows they derive the position from; neither knows what the other is     *)
(* doing.  An action is one statement or one call to the venue, with what  *)
(* the loop does until the next; only the manager's two reads of advice    *)
(* are one action.                                                         *)
(***************************************************************************)
EXTENDS Integers, FiniteSets, Sequences, Functions

CONSTANTS
  MaxDecisions, \* bound: ai_decisions rows, numbered as they are created
  Unit,         \* size of an entry; a partial close is half of it
  Configs,      \* deployments: [live, mode, advice, admin, faults, rows, manual]
  MaxTrails,    \* bound: protective orders a behaviour places
  MaxFaults     \* bound: how many failures a behaviour has

Ids == 1 .. MaxDecisions
Tactical == {"buy", "sell"}
Directive == {"keep", "tighten", "widen", "trail", "untrail", "partial", "full"}
Modes == {"off", "managed", "native"}
Layers == {"tactical", "operational"}
FaultKinds == {"crash", "mark", "insert", "risk", "refuse", "lost", "child"}
\* What others may do, which is no failure: halt trading, write the rows the stream brings.
Outside == {"halt", "stream"}

ASSUME DeskAssumption ==
  /\ MaxDecisions \in Nat /\ MaxTrails \in Nat /\ MaxFaults \in Nat
  /\ Unit \in Nat /\ Unit >= 2
  /\ \A c \in Configs : /\ c.live \in BOOLEAN /\ c.mode \in Modes
                        /\ c.advice \subseteq Tactical \cup Directive
                        /\ c.admin \in BOOLEAN /\ c.faults \subseteq FaultKinds \cup Outside
                        /\ c.rows \in 0 .. MaxDecisions /\ c.manual \in Nat

VARIABLES
  config,   \* live or dry, what a trailing directive does, what the models may advise,
            \* whether an operator decides, which failures may happen, and the bounds on
            \* decisions and entries by hand
  what,     \* the advice of a row; "none" before it exists
  parent,   \* ai_decisions.status
  child,    \* status of the row in ai_tactical_decisions or ai_position_directives
  aged,     \* rows past expires_at and valid_until
  outcomes, \* ai_decision_outcomes rows of a decision
  sweep,    \* each sweep: the decision being written, where
  ex,       \* executor: decision, where, what it saw
  pm,       \* position manager: book, advice it fetched, where
  orders,   \* orders the venue (dry: the simulator) accepted, oldest first
  cid,      \* active_cid: the managed stop's place in orders, 0 when none
  deep,     \* the mark stays below the default stop
  halted,   \* the kill switch
  placed,   \* entries placed for a decision
  cuts,     \* closes a directive has had placed
  early,    \* decisions settled before their child row was written
  manual,   \* entries by hand
  trails,   \* protective orders placed
  blind,    \* failures after which the rows or the executor miss the position
  faults    \* failures so far

rowVars == <<what, parent, child, aged, outcomes, early>>
venueVars == <<orders, cid, trails>>
world == <<deep, halted>>
ghosts == <<placed, cuts, manual>>
failVars == <<blind, faults>>
vars == <<config, rowVars, sweep, ex, pm, venueVars, world, ghosts, failVars>>

Statuses == {"absent", "pending", "approved", "rejected", "expired", "applied", "failed"}
NoSweep == [id |-> 0, at |-> "idle"]
NoEx == [id |-> 0, at |-> "idle", half |-> FALSE, order |-> 0]
NoPm == [at |-> "idle", qty |-> 0, tac |-> 0, dir |-> 0, hit |-> FALSE, order |-> 0]

\* placed: filled, with no row the fill queries will ever find.  taken: filled, its row does
\* not say so.  booked: its row says so.  A stop is open without a row (loose), open with one
\* (resting), or cancelled (void).
OrderAt == {"placed", "taken", "booked", "loose", "resting", "void"}
Order == [asked : Int, done : Int, at : OrderAt]

TypeOK ==
  /\ config \in Configs
  /\ what \in [Ids -> {"none"} \cup Tactical \cup Directive]
  /\ parent \in [Ids -> Statuses] /\ child \in [Ids -> Statuses]
  /\ aged \in SUBSET Ids /\ outcomes \in [Ids -> Nat] /\ early \in SUBSET Ids
  /\ sweep \in [Layers -> [id : Ids \cup {0}, at : {"idle", "child", "approve"}]]
  /\ ex \in [id : Ids \cup {0}, at : {"idle", "look", "place", "insert", "applied", "failed"},
             half : BOOLEAN, order : Nat]
  /\ pm \in [at : {"idle", "fetch", "tacChild", "tacParent", "dirChild", "dirParent",
                   "cut", "cutInsert", "close", "closeInsert", "outcome", "settle",
                   "trail", "look", "cancel", "stop", "stopInsert"},
             qty : Nat, tac : Ids \cup {0}, dir : Ids \cup {0}, hit : BOOLEAN, order : Nat]
  /\ orders \in Seq(Order) /\ {ex.order, pm.order, cid} \subseteq 0 .. Len(orders)
  /\ deep \in BOOLEAN /\ halted \in BOOLEAN
  /\ placed \in [Ids -> Nat] /\ cuts \in [Ids -> Nat]
  /\ manual \in Nat /\ trails \in Nat /\ blind \in Nat /\ faults \in Nat

Init ==
  /\ config \in Configs
  /\ what = [d \in Ids |-> "none"]
  /\ parent = [d \in Ids |-> "absent"] /\ child = [d \in Ids |-> "absent"]
  /\ aged = {} /\ outcomes = [d \in Ids |-> 0] /\ early = {}
  /\ sweep = [l \in Layers |-> NoSweep] /\ ex = NoEx /\ pm = NoPm
  /\ orders = <<>> /\ cid = 0 /\ deep = FALSE /\ halted = FALSE
  /\ placed = [d \in Ids |-> 0] /\ cuts = [d \in Ids |-> 0]
  /\ manual = 0 /\ trails = 0 /\ blind = 0 /\ faults = 0

Fine == UNCHANGED failVars
Fault(k) == k \in config.faults /\ faults < MaxFaults /\ faults' = faults + 1
Seen(k) == Fault(k) /\ UNCHANGED blind
Blinding(k) == Fault(k) /\ blind' = blind + 1

---------------------------------------------------------------------------
(* The position, by the venue and by the rows.                            *)

Filled(states) == {i \in 1 .. Len(orders) : orders[i].at \in states}
\* positionRisk.
Pos == SumFunctionOnSet([i \in 1 .. Len(orders) |-> orders[i].done], Filled({"placed", "taken", "booked"}))
\* net_position_for_symbol: the quantity the rows asked for.
Net == SumFunctionOnSet([i \in 1 .. Len(orders) |-> orders[i].asked], Filled({"booked"}))
\* update_long_book: what was executed, in order; a sale beyond the long book is cut off.
Book ==
  LET Kept(n) == IF n > 0 THEN n ELSE 0
      after[i \in 0 .. Len(orders)] ==
        IF i = 0 THEN 0
        ELSE IF orders[i].at = "booked" THEN Kept(after[i - 1] + orders[i].done) ELSE after[i - 1]
  IN after[Len(orders)]
Resting == Filled({"loose", "resting"})

Sent(asked, done, at) == orders' = Append(orders, [asked |-> asked, done |-> done, at |-> at])

\* insert_submitted with what the venue answered: filled, or not yet.  Dry fills at once.
Inserted(i) == \E at \in IF config.live THEN {"taken", "booked"} ELSE {"booked"} :
  orders' = [orders EXCEPT ![i].at = at]

\* A reconciler that is on asks the venue while the row is still submitted, and stores what
\* was filled.
Reconcile ==
  /\ \E i \in 1 .. Len(orders) :
       orders[i].at = "taken" /\ orders' = [orders EXCEPT ![i].at = "booked"]
  /\ UNCHANGED <<config, rowVars, sweep, ex, pm, cid, trails, world, ghosts>> /\ Fine

\* The user stream stores its event in place of what was filled, or the patch closes the row
\* as reconciled_not_open: the fill queries do not find the row, and nobody asks again.
Hidden ==
  /\ config.live /\ "stream" \in config.faults
  /\ \E i \in 1 .. Len(orders) :
       orders[i].at \in {"taken", "booked"} /\ orders' = [orders EXCEPT ![i].at = "placed"]
  /\ UNCHANGED <<config, rowVars, sweep, ex, pm, cid, trails, world, ghosts>> /\ Fine

\* An operator buys by hand.
ManualEntry ==
  /\ manual < config.manual
  /\ manual' = manual + 1
  /\ Sent(Unit, Unit, "booked")
  /\ UNCHANGED <<config, rowVars, sweep, ex, pm, cid, trails, world, placed, cuts>> /\ Fine

---------------------------------------------------------------------------
(* The rows of a decision.                                                *)

\* tactical_symbol_blocked_by_active_decision.
Blocked == \E d \in Ids :
  /\ what[d] \in Tactical /\ child[d] \notin {"absent", "rejected", "expired", "failed"}
  /\ outcomes[d] = 0
  /\ \/ parent[d] = "pending" /\ d \notin aged
     \/ parent[d] = "approved" /\ child[d] = "approved" /\ d \notin aged
     \/ parent[d] = "applied" /\ child[d] = "applied"

\* run_tactical_single and run_operational_sweep up to insert_ai_decision.
MayAdvise(l) == IF l = "tactical" THEN ~Blocked ELSE Net > 0
Advised(l) == config.advice \cap (IF l = "tactical" THEN Tactical ELSE Directive)
InsertDecision(l) ==
  /\ sweep[l] = NoSweep
  /\ MayAdvise(l)
  /\ \E d \in 1 .. config.rows : \E a \in Advised(l) :
       /\ \A c \in Ids : what[c] = "none" <=> c >= d
       /\ what' = [what EXCEPT ![d] = a]
       /\ parent' = [parent EXCEPT ![d] = "pending"]
       /\ sweep' = [sweep EXCEPT ![l] = [id |-> d, at |-> "child"]]
  /\ UNCHANGED <<config, child, aged, outcomes, early, ex, pm, venueVars, world, ghosts>> /\ Fine

\* insert_tactical_decision or insert_position_directive; a failure ends the sweep.
InsertChild(l) ==
  /\ sweep[l].at = "child"
  /\ \/ /\ child' = [child EXCEPT ![sweep[l].id] = "pending"]
        /\ sweep' = [sweep EXCEPT ![l].at = "approve"]
        /\ Fine
     \/ Seen("child") /\ sweep' = [sweep EXCEPT ![l] = NoSweep] /\ UNCHANGED child
  /\ UNCHANGED <<config, what, parent, aged, outcomes, early, ex, pm, venueVars, world, ghosts>>

\* One transaction; neither UPDATE looks at what the other one did.
Settled(status, d, verdict) == IF status[d] = "pending" THEN verdict ELSE status[d]
Settle(d, verdict) ==
  /\ parent' = [parent EXCEPT ![d] = Settled(parent, d, verdict)]
  /\ child' = [child EXCEPT ![d] = Settled(child, d, verdict)]
  /\ early' = IF child[d] = "absent" THEN early \cup {d} ELSE early

\* maybe_auto_approve: approves when the confidence is high enough, else only tells.
AutoApprove(l) ==
  /\ sweep[l].at = "approve"
  /\ \/ Settle(sweep[l].id, "approved")
     \/ UNCHANGED <<parent, child, early>>
  /\ sweep' = [sweep EXCEPT ![l] = NoSweep]
  /\ UNCHANGED <<config, what, aged, outcomes, ex, pm, venueVars, world, ghosts>> /\ Fine

\* admin_approve_ai_decision, admin_reject_ai_decision: the panel or Telegram.
AdminVerdict(d, verdict) ==
  /\ config.admin /\ what[d] # "none" /\ "pending" \in {parent[d], child[d]}
  /\ Settle(d, verdict)
  /\ UNCHANGED <<config, what, aged, outcomes, sweep, ex, pm, venueVars, world, ghosts>> /\ Fine

\* A decision's time to live ends, which is longer than the writing of its rows; nobody
\* looks at the age of a row that is settled.
Age(d) ==
  /\ {parent[d], child[d]} \cap {"pending", "approved"} # {}
  /\ d \notin aged /\ \A l \in Layers : sweep[l].id # d
  /\ aged' = aged \cup {d}
  /\ UNCHANGED <<config, what, parent, child, outcomes, early, sweep, ex, pm, venueVars, world, ghosts>>
  /\ Fine

\* expire_stale_decisions: pending parents, and the pending children of those.
ExpiredChild(d, stale) == d \in stale /\ child[d] = "pending"
Expire ==
  LET stale == {d \in aged : parent[d] = "pending"}
  IN /\ stale # {}
     /\ parent' = [d \in Ids |-> IF d \in stale THEN "expired" ELSE parent[d]]
     /\ child' = [d \in Ids |-> IF ExpiredChild(d, stale) THEN "expired" ELSE child[d]]
     /\ UNCHANGED <<config, what, aged, outcomes, early, sweep, ex, pm, venueVars, world, ghosts>>
     /\ Fine

\* fetch_latest_approved_tactical and fetch_latest_approved_directive; 0 when there is none.
Newest(rows) == IF rows = {} THEN 0 ELSE CHOOSE d \in rows : \A c \in rows : c <= d
NewestSettled(kinds) ==
  Newest({d \in Ids : what[d] \in kinds /\ child[d] \in {"approved", "applied"} /\ d \notin aged})
NewestOpen(kinds) ==
  Newest({d \in Ids : what[d] \in kinds /\ child[d] \in {"pending", "approved"} /\ d \notin aged})
NewestApproved(kinds) ==
  Newest({d \in Ids : what[d] \in kinds /\ child[d] = "approved" /\ d \notin aged})

---------------------------------------------------------------------------
(* ai_tactical_executor_loop.                                             *)

ExFetch ==
  /\ ex = NoEx /\ ~halted /\ NewestApproved(Tactical) # 0
  /\ ex' = [NoEx EXCEPT !.id = NewestApproved(Tactical), !.at = "look"]
  /\ UNCHANGED <<config, rowVars, sweep, pm, venueVars, world, ghosts>> /\ Fine

Signed(d) == IF what[d] = "buy" THEN Unit ELSE -Unit
AlreadyInNever(d, seen) == FALSE
AlreadyIn(d, seen) == IF what[d] = "buy" THEN seen > 0 ELSE seen < 0

\* The position: live futures ask the venue and fall back to the fills; dry uses the fills.
ExLook ==
  /\ ex.at = "look"
  /\ \E seen \in {Pos, Net} :
       /\ \/ config.live /\ seen = Pos /\ Fine
          \/ config.live /\ seen = Net /\ Blinding("risk")
          \/ ~config.live /\ seen = Net /\ Fine
       /\ ex' = IF AlreadyIn(ex.id, seen) THEN NoEx ELSE [ex EXCEPT !.at = "place"]
  /\ UNCHANGED <<config, rowVars, sweep, pm, venueVars, world, ghosts>>

\* execute_live_binance or execute_dry.  Live: not tried (halted, no account), placed,
\* refused, or placed with the answer lost.  Dry: placed or not.
ExPlace ==
  /\ ex.at = "place"
  /\ LET Placed == /\ placed' = [placed EXCEPT ![ex.id] = @ + 1]
                   /\ Sent(Signed(ex.id), Signed(ex.id), "placed")
         Nothing == UNCHANGED <<placed, orders>>
         sends == ~(config.live /\ halted)
     IN \/ Nothing /\ ex' = NoEx /\ Fine
        \/ sends /\ Placed /\ ex' = [ex EXCEPT !.at = "insert", !.order = Len(orders) + 1] /\ Fine
        \/ sends /\ config.live /\ Nothing /\ ex' = [ex EXCEPT !.at = "failed"] /\ Fine
        \/ sends /\ config.live /\ Placed /\ ex' = [ex EXCEPT !.at = "failed"] /\ Blinding("lost")
  /\ UNCHANGED <<config, rowVars, sweep, pm, cid, trails, world, cuts, manual>>

\* A failed insert is logged.
ExInsert ==
  /\ ex.at = "insert"
  /\ \/ Inserted(ex.order) /\ Fine
     \/ Blinding("insert") /\ UNCHANGED orders
  /\ ex' = [ex EXCEPT !.at = "applied", !.order = 0]
  /\ UNCHANGED <<config, rowVars, sweep, pm, cid, trails, world, ghosts>>

\* mark_applied and mark_tactical_execution_failed: two statements, with no look at what the
\* rows are by then.  A statement that fails leaves out the rest, and nobody retries it.
ExMarkChild ==
  /\ ex.at \in {"applied", "failed"} /\ ~ex.half
  /\ \/ child' = [child EXCEPT ![ex.id] = ex.at] /\ ex' = [ex EXCEPT !.half = TRUE] /\ Fine
     \/ Seen("mark") /\ ex' = NoEx /\ UNCHANGED child
  /\ UNCHANGED <<config, what, parent, aged, outcomes, early, sweep, pm, venueVars, world, ghosts>>

ExMarkParent ==
  /\ ex.at \in {"applied", "failed"} /\ ex.half
  /\ \/ parent' = [parent EXCEPT ![ex.id] = ex.at] /\ Fine
     \/ Seen("mark") /\ UNCHANGED parent
  /\ ex' = NoEx
  /\ UNCHANGED <<config, what, child, aged, outcomes, early, sweep, pm, venueVars, world, ghosts>>

---------------------------------------------------------------------------
(* position_manager_loop: one book.                                       *)

PmBooks ==
  /\ pm = NoPm /\ Book > 0
  /\ pm' = [NoPm EXCEPT !.at = "fetch", !.qty = Book, !.hit = deep]
  /\ UNCHANGED <<config, rowVars, sweep, ex, venueVars, world, ghosts>> /\ Fine

\* Where the advice leads.  Advice to stop trailing forgets the managed stop, and leaves it
\* at the venue.  With managed trailing on, a live futures book never reaches
\* the stop and target; without it, a book does unless this tick's advice moves the stop.
Asks(dir, kinds) == dir # 0 /\ what[dir] \in kinds
Stops == {"tighten", "widen", "trail"}
TrailingOn(dir) == config.live /\ config.mode # "off"
Trailing(dir) ==
  /\ config.live
  /\ config.mode = "managed" \/ (config.mode = "native" /\ Asks(dir, Stops))
\* What a closing directive takes; a part below the smallest quantity is not closed.
ToCut(dir, qty) == CASE Asks(dir, {"full"})    -> qty
                     [] Asks(dir, {"partial"}) -> qty \div 2
                     [] OTHER                  -> 0

\* The rows are marked, the tactical one first, and then the long is closed if the mark is
\* past the stop or the target.
Marked(p) == IF p.hit THEN [p EXCEPT !.at = "close"] ELSE NoPm
ToDir(p) == IF p.dir # 0 THEN [p EXCEPT !.at = "dirChild"] ELSE Marked(p)
ToTac(p) == IF p.tac # 0 THEN [p EXCEPT !.at = "tacChild"] ELSE ToDir(p)

\* The stop and the target the mark is held against are the advised ones of this tick, which
\* may be wider; without advice, a mark below the default stop is past it.
PmFetch ==
  /\ pm.at = "fetch"
  /\ LET tac == NewestApproved(Tactical)
         dir == NewestApproved(Directive)
         cut == ToCut(dir, pm.qty)
         Fetched(at, hit) == [pm EXCEPT !.tac = tac, !.dir = dir, !.at = at, !.hit = hit,
                                        !.qty = IF cut > 0 THEN cut ELSE @]
     IN /\ \/ cut > 0 /\ pm' = Fetched("cut", FALSE)
           \/ cut = 0 /\ Trailing(dir) /\ pm' = Fetched("trail", FALSE)
           \/ /\ cut = 0 /\ ~Trailing(dir)
              /\ \E hit \in BOOLEAN :
                   /\ pm.hit /\ tac = 0 /\ ~Asks(dir, Stops) => hit
                   /\ pm' = ToTac(Fetched("fetch", hit))
        /\ cid' = IF Asks(dir, {"untrail"}) THEN 0 ELSE cid
  /\ UNCHANGED <<config, rowVars, sweep, ex, orders, trails, world, ghosts>> /\ Fine

\* mark_applied on the row in hand, as the executor does it; a failure is logged.
InHand == IF pm.at \in {"tacChild", "tacParent"} THEN pm.tac ELSE pm.dir
Past(p) == IF p.at \in {"tacChild", "tacParent"} THEN ToDir(p) ELSE Marked(p)
PmMarkChild ==
  /\ pm.at \in {"tacChild", "dirChild"}
  /\ \/ /\ child' = [child EXCEPT ![InHand] = "applied"]
        /\ pm' = [pm EXCEPT !.at = IF @ = "tacChild" THEN "tacParent" ELSE "dirParent"]
        /\ Fine
     \/ Seen("mark") /\ pm' = Past(pm) /\ UNCHANGED child
  /\ UNCHANGED <<config, what, parent, aged, outcomes, early, sweep, ex, venueVars, world, ghosts>>

PmMarkParent ==
  /\ pm.at \in {"tacParent", "dirParent"}
  /\ \/ parent' = [parent EXCEPT ![InHand] = "applied"] /\ Fine
     \/ Seen("mark") /\ UNCHANGED parent
  /\ pm' = Past(pm)
  /\ UNCHANGED <<config, what, child, aged, outcomes, early, sweep, ex, venueVars, world, ghosts>>

\* A reduce-only market order: the venue takes no more than the long it holds, and refuses
\* it when it holds none.  The dry gateway takes all of it.  Live and halted, nothing is sent.
Least(a, b) == IF a < b THEN a ELSE b
Takes == IF config.live THEN Least(pm.qty, Pos) ELSE pm.qty
PmClose ==
  /\ pm.at \in {"cut", "close"}
  /\ LET sends == ~(config.live /\ halted) /\ Takes > 0
         Closed == /\ Sent(-pm.qty, -Takes, "placed")
                   /\ cuts' = IF pm.at = "cut" THEN [cuts EXCEPT ![pm.dir] = @ + 1] ELSE cuts
         Nothing == UNCHANGED <<orders, cuts>>
     IN \/ /\ sends /\ Closed
           /\ pm' = [pm EXCEPT !.at = IF @ = "cut" THEN "cutInsert" ELSE "closeInsert",
                               !.order = Len(orders) + 1]
           /\ Fine
        \/ sends /\ config.live /\ Closed /\ pm' = NoPm /\ Blinding("lost")
        \/ ~sends /\ Nothing /\ pm' = NoPm /\ Fine
        \/ Nothing /\ pm' = NoPm /\ Seen("refuse")
  /\ UNCHANGED <<config, rowVars, sweep, ex, cid, trails, world, placed, manual>>

\* Live: a close that cannot be recorded counts as not executed.  Dry: it counts.
PmInsert ==
  /\ pm.at \in {"cutInsert", "closeInsert"}
  /\ LET done == [pm EXCEPT !.at = IF @ = "cutInsert" THEN "outcome" ELSE "settle", !.order = 0]
     IN \/ Inserted(pm.order) /\ pm' = done /\ Fine
        \/ Blinding("insert") /\ pm' = (IF config.live THEN NoPm ELSE done) /\ UNCHANGED orders
  /\ UNCHANGED <<config, rowVars, sweep, ex, cid, trails, world, ghosts>>

\* record_decision_outcome: for the tactical decision fetched in this tick, else for the
\* directive; a failure is logged.  A directive that has closed is then applied.
Credited == IF pm.tac # 0 THEN pm.tac ELSE pm.dir
PmOutcome ==
  /\ pm.at \in {"outcome", "settle"}
  /\ \/ /\ outcomes' = IF Credited = 0 THEN outcomes ELSE [outcomes EXCEPT ![Credited] = @ + 1]
        /\ Fine
     \/ Credited # 0 /\ Seen("mark") /\ UNCHANGED outcomes
  /\ pm' = IF pm.at = "settle" THEN NoPm ELSE ToDir(pm)
  /\ UNCHANGED <<config, what, parent, child, aged, early, sweep, ex, venueVars, world, ghosts>>

\* A stop is placed only in a tick that fetched a directive asking for one, unless trading
\* is halted, there is no account or the managed one need not move yet.  Without a client
\* for the venue the tick ends, the directive unmarked.
PmTrail ==
  /\ pm.at = "trail"
  /\ \/ pm' = ToDir(pm) /\ Fine
     \/ /\ Asks(pm.dir, Stops) /\ ~halted /\ trails < MaxTrails
        /\ pm' = [pm EXCEPT !.at = IF config.mode = "managed" /\ cid # 0 THEN "look" ELSE "stop"]
        /\ Fine
     \/ Asks(pm.dir, Stops) /\ ~halted /\ pm' = NoPm /\ Seen("refuse")
  /\ UNCHANGED <<config, rowVars, sweep, ex, venueVars, world, ghosts>>

\* futures_is_open_by_client_order_id; when it fails the tick ends, the directive unmarked.
PmLook ==
  /\ pm.at = "look"
  /\ \/ cid \in Resting /\ pm' = [pm EXCEPT !.at = "cancel"] /\ Fine /\ UNCHANGED cid
     \/ cid \notin Resting /\ pm' = [pm EXCEPT !.at = "stop"] /\ Fine /\ cid' = 0
     \/ pm' = NoPm /\ Seen("refuse") /\ UNCHANGED cid
  /\ UNCHANGED <<config, rowVars, sweep, ex, orders, trails, world, ghosts>>

\* cancel_futures_by_client_order_id.  After a refusal it looks again and ends the tick when
\* the stop is still open; a second look that fails counts as a stop that is gone.
NotReplaced == orders
Replaced == IF cid \in Resting THEN [orders EXCEPT ![cid].at = "void"] ELSE orders
PmCancel ==
  /\ pm.at = "cancel"
  /\ \/ orders' = Replaced /\ pm' = [pm EXCEPT !.at = "stop"] /\ Fine
     \/ /\ cid \in Resting /\ Seen("refuse") /\ UNCHANGED orders
        /\ pm' \in {NoPm, [pm EXCEPT !.at = "stop"]}
  /\ UNCHANGED <<config, rowVars, sweep, ex, cid, trails, world, ghosts>>

\* Placed, placed with the answer lost, or refused.
PmStop ==
  /\ pm.at = "stop"
  /\ LET Accepted == Sent(-pm.qty, 0, "loose") /\ trails' = trails + 1
     IN \/ Accepted /\ pm' = [pm EXCEPT !.at = "stopInsert", !.order = Len(orders) + 1] /\ Fine
        \/ Accepted /\ pm' = ToDir(pm) /\ Blinding("lost")
        \/ UNCHANGED <<orders, trails>> /\ pm' = ToDir(pm) /\ Seen("refuse")
  /\ UNCHANGED <<config, rowVars, sweep, ex, cid, world, ghosts>>

\* The row of the stop, whose failure nobody notices; the managed one becomes active_cid.
\* The stop may have fired by then.
PmStopInsert ==
  /\ pm.at = "stopInsert"
  /\ \/ /\ orders' = [orders EXCEPT ![pm.order].at = IF @ = "loose" THEN "resting" ELSE "taken"]
        /\ Fine
     \/ Blinding("insert") /\ UNCHANGED orders
  /\ cid' = IF config.mode = "managed" THEN pm.order ELSE 0
  /\ pm' = ToDir([pm EXCEPT !.order = 0])
  /\ UNCHANGED <<config, rowVars, sweep, ex, trails, world, ghosts>>

\* A stop at the venue fires.
StopFires(i) ==
  /\ i \in Resting /\ Pos > 0
  /\ orders' = [orders EXCEPT ![i].at = IF @ = "resting" THEN "taken" ELSE "placed",
                              ![i].done = -Least(-orders[i].asked, Pos)]
  /\ UNCHANGED <<config, rowVars, sweep, ex, pm, cid, trails, world, ghosts>> /\ Fine

---------------------------------------------------------------------------
\* The mark falls below the default stop for good; until then it may be on either side.
Market ==
  /\ ~deep /\ deep' = TRUE
  /\ UNCHANGED <<config, rowVars, sweep, ex, pm, venueVars, halted, ghosts>> /\ Fine

\* The kill switch halts trading, an operator resumes it.
Switch ==
  /\ "halt" \in config.faults /\ halted' = ~halted
  /\ UNCHANGED <<config, rowVars, sweep, ex, pm, venueVars, deep, ghosts>> /\ Fine

\* The worker dies and starts over: the loops' hands and the managed stop are forgotten.
Crash ==
  /\ Blinding("crash")
  /\ sweep' = [l \in Layers |-> NoSweep] /\ ex' = NoEx /\ pm' = NoPm /\ cid' = 0
  /\ UNCHANGED <<config, rowVars, orders, trails, world, ghosts>>

SweepStep(l) == InsertDecision(l) \/ InsertChild(l) \/ AutoApprove(l)
ExStep == ExFetch \/ ExLook \/ ExPlace \/ ExInsert \/ ExMarkChild \/ ExMarkParent
PmStep == PmBooks \/ PmFetch \/ PmMarkChild \/ PmMarkParent \/ PmClose \/ PmInsert \/ PmOutcome
          \/ PmTrail \/ PmLook \/ PmCancel \/ PmStop \/ PmStopInsert

Next ==
  \/ \E l \in Layers : SweepStep(l)
  \/ \E d \in Ids : Age(d) \/ \E v \in {"approved", "rejected"} : AdminVerdict(d, v)
  \/ \E i \in 1 .. Len(orders) : StopFires(i)
  \/ Expire \/ Reconcile \/ Hidden \/ ManualEntry \/ ExStep \/ PmStep
  \/ Market \/ Switch \/ Crash

Spec == Init /\ [][Next]_vars

\* The loops sleep and tick again whatever their last tick returned.  Nobody is bound to
\* store a fill: the reconcilers are off by default.
FairSpec == Spec /\ WF_vars(ExStep) /\ WF_vars(PmStep)

---------------------------------------------------------------------------
(* Properties.                                                            *)

\* While no failure hides the position, the executor adds to it only what it does not
\* hold: entries never stack on one another, and in live trading no close, however stale
\* the book it was computed from, turns the position around.
NoStacking ==
  blind = 0 => /\ Pos <= Unit * (1 + manual)
               /\ config.live => Pos >= -Unit

\* A decision is entered once, even when its position has been closed since; each further
\* entry is paid for by a failure (its mark was lost, or the worker died).
EntryOnce == \A d \in Ids : placed[d] <= 1 + faults

\* A closing directive closes once; each further close is paid for by a failure.
CutOnce == \A d \in Ids : cuts[d] <= 1 + faults

\* What was rejected or has expired is not traded, whoever of the sweep, the operator,
\* the expiry and the executor came first, unless the verdict came before the child row.
UnapprovedNeverTraded ==
  \A d \in Ids : placed[d] + cuts[d] > 0 /\ d \notin early =>
    parent[d] \notin {"pending", "rejected", "expired"}

\* The two rows of a decision never disagree about the verdict, whatever marks of the two
\* loops cross or fail; they may disagree about how far its execution got.  An early verdict
\* separates them.
Executing == {"approved", "applied", "failed"}
VerdictsAgree ==
  \A d \in Ids : d \notin early /\ child[d] # "absent" =>
    child[d] = parent[d] \/ {child[d], parent[d]} \subseteq Executing

\* The marks reach both rows: without a failure, and once nobody is between the two statements
\* of a mark, a decision is executed on both its rows or on neither.  Which mark stands may
\* differ: the executor's "failed" and the manager's "applied" can cross, lastingly.
Marking(d) == \/ ex.half /\ ex.id = d
              \/ pm.at = "tacParent" /\ pm.tac = d
              \/ pm.at = "dirParent" /\ pm.dir = d
MarksAlign ==
  \A d \in Ids : faults = 0 /\ d \notin early /\ child[d] # "absent" /\ ~Marking(d) =>
    child[d] = parent[d] \/ {child[d], parent[d]} = {"applied", "failed"}

\* One decision, one order: each further order a decision gets is paid for by a failure.
OncePerDecision == EntryOnce /\ CutOnce

\* Who settles a decision settles both its rows, and only what is approved is traded.
VerdictsHold == UnapprovedNeverTraded /\ VerdictsAgree /\ MarksAlign

\* Managed trailing keeps one stop at the venue.  A further one is paid for by advice to stop
\* trailing, which forgets the one that rests, or by a failure: a restart, a placing whose
\* answer is lost, a cancel refused while the look that should confirm it fails too, a mark
\* that leaves the advice standing to be followed again.
OneManagedStop ==
  config.mode = "managed" =>
    Cardinality(Resting) <= 1 + faults + Cardinality({d \in Ids : what[d] = "untrail"})

\* The default stop holds: unless managed trailing has replaced it, a long that the venue and
\* the rows both show does not stay open under a mark that stays below the stop, whatever
\* wider stops are advised (of finitely many decisions) and whatever marks and refusals come
\* in between, unless trading is halted again and again.
StopHolds ==
  config.mode # "managed" /\ <>deep => []<>(Pos <= 0 \/ Book <= 0 \/ halted)

\* What tactical_symbol_blocked_by_active_decision counts on: an entry that was applied and
\* whose position has been closed gets an outcome, which unblocks its symbol.
ClosedHasOutcome ==
  \A d \in Ids : (placed[d] > 0 /\ child[d] = "applied" /\ parent[d] = "applied" /\ Pos = 0)
                   ~> outcomes[d] > 0
=============================================================================
