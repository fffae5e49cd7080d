----------------------------- MODULE OrderLoops -----------------------------
(***************************************************************************)
(* The worker's loops that place orders on their own, under the trading    *)
(* halt of KillSwitch:                                                     *)
(*                                                                         *)
(*   leader fills --> copy_trade_execution_jobs --> copy_trade_queue_loop  *)
(*   subscriptions + market snapshot ------------> copy_trade_follower_loop*)
(*   range_signal_events --> range_signal_paper_executions                 *)
(*                       --> range_signal_execute_loop                     *)
(*   selected_candidates --> execution_bridge_loop (ExecutionPipeline)     *)
(*                                                                         *)
(* Each loop looks at the halt at a place of its own.  An action is what a *)
(* loop does from one await to the next.                                   *)
(***************************************************************************)
EXTENDS KillSwitch, FiniteSets, Sequences

CONSTANTS
  Subs,         \* copy subscriptions
  MaxFills,     \* bound: filled leader orders
  ScanLimit,    \* QTSS_COPY_TRADE_QUEUE_SCAN_LIMIT
  MaxJobs,      \* MAX_JOBS_PER_TICK
  MaxEvents,    \* bound: range signal events
  RangeBatch,   \* rows the range loop lists per tick
  NoJob,        \* "no job in hand"
  Deployments   \* which loops each process runs, and what they are configured to do

\* A process without loops is one that is not deployed; every other one syncs.
Loops == {"kill", "sync", "copy", "follow", "range", "bridge"}
Fills == 1 .. MaxFills
Events == 1 .. MaxEvents
Jobs == Subs \X Fills

ASSUME OrderLoopsAssumption ==
  /\ IsFiniteSet(Procs) /\ IsFiniteSet(Subs)
  /\ MaxFills \in Nat /\ MaxEvents \in Nat /\ NoJob \notin Jobs
  /\ ScanLimit \in Nat \ {0} /\ MaxJobs \in Nat \ {0} /\ RangeBatch \in Nat \ {0}
  /\ Deployments \subseteq [on : [Procs -> SUBSET Loops], auto : BOOLEAN, paper : BOOLEAN]

VARIABLES
  on,       \* the loops each process runs
  auto,     \* QTSS_COPY_TRADE_QUEUE_AUTO_PLACE, and with it the gateway
  paper,    \* range_auto_paper_execute_enabled
  active,   \* subscriptions that are active
  fills,    \* leader orders filled so far, in the order they were created
  job,      \* copy_trade_execution_jobs.status
  copied,   \* follower orders of a job
  chand,    \* copy loop: jobs to enqueue, claims left, job in hand and what became of it
  fhand,    \* follower loop: subscriptions left to place for
  events,   \* range events so far, in the order they were created
  exec,     \* range_signal_paper_executions.status
  sent,     \* orders of range events, in the order they were placed
  rhand,    \* range loop: events listed, live possible, event in hand and what became of it
  late,     \* orders of the loops that look at the halt since the flag was raised
  bridged   \* orders of the bridge since the flag was raised

copyVars == <<active, fills, job, copied, chand>>
rangeVars == <<events, exec, sent, rhand>>
loopVars == <<on, auto, paper, copyVars, fhand, rangeVars>>
vars == <<switchVars, loopVars, late, bridged>>

JobStatus == {"absent", "pending", "processing", "done", "skipped", "failed"}
ExecStatus == {"none", "processing", "placed_live", "placed_paper", "failed", "skipped"}
Kinds == {"live", "paper"}
NoCopy == [scan |-> {}, left |-> 0, job |-> NoJob, res |-> "none"]
NoRange == [todo |-> {}, ready |-> FALSE, event |-> 0, res |-> "none"]

TypeOK ==
  /\ SwitchTypeOK
  /\ on \in [Procs -> SUBSET Loops] /\ auto \in BOOLEAN /\ paper \in BOOLEAN
  /\ active \in SUBSET Subs /\ fills \in 0 .. MaxFills
  /\ job \in [Jobs -> JobStatus] /\ copied \in [Jobs -> Nat]
  /\ chand \in [Procs -> [scan : SUBSET Jobs, left : 0 .. MaxJobs, job : Jobs \cup {NoJob},
                          res : {"none", "place", "done", "skipped", "failed"}]]
  /\ fhand \in [Procs -> SUBSET Subs]
  /\ events \in 0 .. MaxEvents /\ exec \in [Events -> ExecStatus]
  /\ sent \in Seq(Events \X Kinds)
  /\ rhand \in [Procs -> [todo : SUBSET Events, ready : BOOLEAN, event : 0 .. MaxEvents,
                          res : {"none", "live", "paper"} \cup ExecStatus]]
  /\ late \in [Procs -> Nat] /\ bridged \in [Procs -> Nat]

Init ==
  /\ SwitchInit
  /\ \E d \in Deployments : on = d.on /\ auto = d.auto /\ paper = d.paper
  /\ active = Subs /\ fills = 0
  /\ job = [j \in Jobs |-> "absent"] /\ copied = [j \in Jobs |-> 0]
  /\ chand = [p \in Procs |-> NoCopy] /\ fhand = [p \in Procs |-> {}]
  /\ events = 0 /\ exec = [e \in Events |-> "none"] /\ sent = <<>>
  /\ rhand = [p \in Procs |-> NoRange]
  /\ late = [p \in Procs |-> 0] /\ bridged = [p \in Procs |-> 0]

Running(loop) == {p \in Procs : loop \in on[p]}

\* A failure that leaves the switch alone.
Quiet == UNCHANGED <<halted, haltDb, loss, raising, read, resets>>
Fine == UNCHANGED switchVars
Fault(k) == Fail(k) /\ Quiet

\* An order of a loop that looks at the halt.
Ordered(p) == late' = [late EXCEPT ![p] = IF halted[p] THEN @ + 1 ELSE @] /\ UNCHANGED bridged
NoOrder == UNCHANGED <<late, bridged>>

---------------------------------------------------------------------------
(* The switch, and the counts since a flag was raised.                    *)

Raised(p) == ~halted[p] /\ halted'[p]
Recount ==
  /\ late' = [p \in Procs |-> IF Raised(p) THEN 0 ELSE late[p]]
  /\ bridged' = [p \in Procs |-> IF Raised(p) THEN 0 ELSE bridged[p]]

\* Where no process runs the switch, the losses and the resets change nothing it reads.
SwitchStep ==
  /\ \/ Running("kill") # {} /\ (Pnl \/ Reset)
     \/ \E p \in Procs : ("kill" \in on[p] /\ TripLoop(p)) \/ ("sync" \in on[p] /\ SyncLoop(p))
  /\ Recount
  /\ UNCHANGED loopVars

\* A process dies with all its loops and starts over.
Crash(p) ==
  /\ on[p] # {} /\ Reboot(p)
  /\ Recount
  /\ chand' = [chand EXCEPT ![p] = NoCopy]
  /\ fhand' = [fhand EXCEPT ![p] = {}]
  /\ rhand' = [rhand EXCEPT ![p] = NoRange]
  /\ UNCHANGED <<on, auto, paper, active, fills, job, copied, events, exec, sent>>

---------------------------------------------------------------------------
(* copy_trade_queue_loop.                                                 *)

\* A leader's order fills; a follower leaves.
LeaderFill ==
  /\ Running("copy") # {} /\ fills < MaxFills
  /\ fills' = fills + 1
  /\ UNCHANGED <<on, auto, paper, active, job, copied, chand, fhand, rangeVars>> /\ Fine /\ NoOrder
Leave(s) ==
  /\ Running("copy") # {} /\ s \in active
  /\ active' = active \ {s}
  /\ UNCHANGED <<on, auto, paper, fills, job, copied, chand, fhand, rangeVars>> /\ Fine /\ NoOrder

\* list_active_subscriptions and list_recent_filled_orders_global_since: the newest
\* ScanLimit fills.
RecentButLast == {o \in Fills : o < fills /\ fills - o <= ScanLimit}
Recent == {o \in Fills : o <= fills /\ fills - o < ScanLimit}
CopyScan(p) ==
  /\ "copy" \in on[p] /\ chand[p] = NoCopy
  /\ active # {}
  /\ chand' = [chand EXCEPT ![p].scan = active \X Recent, ![p].left = MaxJobs]
  /\ UNCHANGED <<on, auto, paper, active, fills, job, copied, fhand, rangeVars>> /\ Fine /\ NoOrder

\* try_enqueue: INSERT ... ON CONFLICT DO NOTHING; a failure is logged.
EnqueuedAgain(j) == "pending"
Enqueued(j) == IF job[j] = "absent" THEN "pending" ELSE job[j]
CopyEnqueue(p, j) ==
  /\ j \in chand[p].scan
  /\ \/ job' = [job EXCEPT ![j] = Enqueued(j)] /\ Fine
     \/ job[j] = "absent" /\ Fault("enqueue") /\ UNCHANGED job
  /\ chand' = [chand EXCEPT ![p].scan = @ \ {j}]
  /\ UNCHANGED <<on, auto, paper, active, fills, copied, fhand, rangeVars>> /\ NoOrder

\* claim_next_pending, then what process_jobs looks at before it places.
Waiting == {j \in Jobs : job[j] = "pending"}
CopyAllowedAlways(p) == auto
CopyAllowed(p) == auto /\ ~halted[p]
CopyClaim(p) ==
  /\ chand[p].scan = {} /\ chand[p].left > 0 /\ chand[p].job = NoJob
  /\ \/ \E j \in Waiting :
          /\ job' = [job EXCEPT ![j] = "processing"]
          /\ chand' = [chand EXCEPT ![p].left = @ - 1, ![p].job = j,
                                    ![p].res = IF CopyAllowed(p) THEN "place" ELSE "skipped"]
          /\ Fine
     \/ Waiting = {} /\ chand' = [chand EXCEPT ![p] = NoCopy] /\ Fine /\ UNCHANGED job
     \/ Fault("claim") /\ chand' = [chand EXCEPT ![p] = NoCopy] /\ UNCHANGED job
  /\ UNCHANGED <<on, auto, paper, active, fills, copied, fhand, rangeVars>> /\ NoOrder

\* place on the dry gateway.
CopyPlace(p) ==
  /\ chand[p].res = "place"
  /\ \/ /\ copied' = [copied EXCEPT ![chand[p].job] = @ + 1]
        /\ chand' = [chand EXCEPT ![p].res = "done"]
        /\ Ordered(p)
     \/ /\ chand' = [chand EXCEPT ![p].res = "failed"]
        /\ NoOrder /\ UNCHANGED copied
  /\ UNCHANGED <<on, auto, paper, active, fills, job, fhand, rangeVars>> /\ Fine

\* mark_done, mark_skipped or mark_failed; a failure is logged.
CopyVerdict(p) == chand[p].res
CopyMark(p) ==
  /\ chand[p].res \in {"done", "skipped", "failed"}
  /\ \/ job' = [job EXCEPT ![chand[p].job] = CopyVerdict(p)] /\ Fine
     \/ Fault("mark") /\ UNCHANGED job
  /\ chand' = [chand EXCEPT ![p] = IF @.left = 0 THEN NoCopy ELSE [@ EXCEPT !.job = NoJob, !.res = "none"]]
  /\ UNCHANGED <<on, auto, paper, active, fills, copied, fhand, rangeVars>> /\ NoOrder

---------------------------------------------------------------------------
(* copy_trade_follower_loop: the halt is looked at once per tick; an order *)
(* per subscription whose rule and snapshot allow one.                     *)

FollowStart(p) ==
  /\ "follow" \in on[p] /\ fhand[p] = {}
  /\ ~halted[p]
  /\ fhand' = [fhand EXCEPT ![p] = active]
  /\ UNCHANGED <<on, auto, paper, copyVars, rangeVars>> /\ Fine /\ NoOrder

FollowPlace(p, s) ==
  /\ s \in fhand[p]
  /\ fhand' = [fhand EXCEPT ![p] = @ \ {s}]
  /\ Ordered(p) \/ NoOrder
  /\ UNCHANGED <<on, auto, paper, copyVars, rangeVars>> /\ Fine

---------------------------------------------------------------------------
(* range_signal_execute_loop.                                             *)

RangeEvent ==
  /\ Running("range") # {} /\ events < MaxEvents
  /\ events' = events + 1
  /\ UNCHANGED <<on, auto, paper, copyVars, fhand, exec, sent, rhand>> /\ Fine /\ NoOrder

\* The oldest RangeBatch events without an execution row; the halt is looked at here.
Open == {e \in Events : e <= events /\ exec[e] = "none"}
Listed == {e \in Open : Cardinality({d \in Open : d < e}) < RangeBatch}
RangeList(p) ==
  /\ "range" \in on[p] /\ rhand[p] = NoRange
  /\ Listed # {}
  /\ rhand' = [rhand EXCEPT ![p] = [NoRange EXCEPT !.todo = Listed, !.ready = ~halted[p]]]
  /\ UNCHANGED <<on, auto, paper, copyVars, fhand, events, exec, sent>> /\ Fine /\ NoOrder

\* What the loop goes on to do with an event it has won: nothing when a gate or a bad
\* value stops it, else a live order when one is possible and there is an account, else
\* a paper order when paper execution is on.
Routes(p) ==
  {"skipped", "failed"} \cup (IF rhand[p].ready THEN {"live"} ELSE {})
                        \cup (IF paper THEN {"paper"} ELSE {})

Rest(p, e) == IF rhand[p].todo = {e} THEN NoRange ELSE [rhand[p] EXCEPT !.todo = @ \ {e}]

\* try_claim_range_signal_event_for_paper_execution; an event another process has, or
\* a failure, is passed over.
NextEvent(p, e) == e \in rhand[p].todo /\ \A d \in rhand[p].todo : e <= d
Winnable(e) == exec[e] = "none"
RangeClaim(p, e) ==
  /\ rhand[p].event = 0 /\ NextEvent(p, e)
  /\ \/ /\ Winnable(e)
        /\ exec' = [exec EXCEPT ![e] = "processing"]
        /\ \E r \in Routes(p) :
             rhand' = [rhand EXCEPT ![p].todo = @ \ {e}, ![p].event = e, ![p].res = r]
        /\ Fine
     \/ ~Winnable(e) /\ rhand' = [rhand EXCEPT ![p] = Rest(p, e)] /\ Fine /\ UNCHANGED exec
     \/ Fault("claim") /\ rhand' = [rhand EXCEPT ![p] = Rest(p, e)] /\ UNCHANGED exec
  /\ UNCHANGED <<on, auto, paper, copyVars, fhand, events, sent>> /\ NoOrder

\* The order is placed, refused, or placed with the answer lost.  Paper orders are not
\* meant to stop when trading is halted.
RangePlace(p) ==
  /\ rhand[p].res \in Kinds
  /\ LET live == rhand[p].res = "live"
         Sent == /\ sent' = Append(sent, <<rhand[p].event, rhand[p].res>>)
                 /\ IF live THEN Ordered(p) ELSE NoOrder
         Is(res) == rhand' = [rhand EXCEPT ![p].res = res]
     IN \/ Sent /\ Is(IF live THEN "placed_live" ELSE "placed_paper") /\ Fine
        \/ UNCHANGED sent /\ NoOrder /\ Is("failed") /\ Fine
        \/ live /\ Sent /\ Is("failed") /\ Fault("lost")
  /\ UNCHANGED <<on, auto, paper, copyVars, fhand, events, exec>>

\* update_range_signal_paper_execution_status; its result is dropped.
RangeMark(p) ==
  /\ rhand[p].res \in ExecStatus \ {"none"}
  /\ \/ exec' = [exec EXCEPT ![rhand[p].event] = rhand[p].res] /\ Fine
     \/ Fault("mark") /\ UNCHANGED exec
  /\ rhand' = [rhand EXCEPT ![p] =
                 IF @.todo = {} THEN NoRange ELSE [@ EXCEPT !.event = 0, !.res = "none"]]
  /\ UNCHANGED <<on, auto, paper, copyVars, fhand, events, sent>> /\ NoOrder

---------------------------------------------------------------------------
\* dispatch_live of the execution bridge, which ExecutionPipeline models: one order.
\* It never looks at the halt.  Only what follows a raised flag is counted, and once.
BridgePlace(p) ==
  /\ "bridge" \in on[p] /\ halted[p] /\ bridged[p] = 0
  /\ bridged' = [bridged EXCEPT ![p] = 1]
  /\ UNCHANGED <<loopVars, late>> /\ Fine

CopyStep(p) ==
  CopyScan(p) \/ (\E j \in Jobs : CopyEnqueue(p, j)) \/ CopyClaim(p) \/ CopyPlace(p) \/ CopyMark(p)
FollowStep(p) == FollowStart(p) \/ \E s \in Subs : FollowPlace(p, s)
RangeStep(p) ==
  RangeList(p) \/ (\E e \in Events : RangeClaim(p, e)) \/ RangePlace(p) \/ RangeMark(p)

Next ==
  \/ SwitchStep
  \/ LeaderFill \/ (\E s \in Subs : Leave(s)) \/ RangeEvent
  \/ \E p \in Procs : CopyStep(p) \/ FollowStep(p) \/ RangeStep(p) \/ BridgePlace(p) \/ Crash(p)

Spec == Init /\ [][Next]_vars

\* Every loop sleeps and ticks again whatever its last tick returned.
FairSpec ==
  /\ Spec
  /\ \A p \in Procs :
       /\ WF_vars("kill" \in on[p] /\ TripLoop(p) /\ Recount /\ UNCHANGED loopVars)
       /\ WF_vars("sync" \in on[p] /\ SyncLoop(p) /\ Recount /\ UNCHANGED loopVars)
       /\ WF_vars(CopyStep(p)) /\ WF_vars(RangeStep(p))

---------------------------------------------------------------------------
(* Properties.                                                            *)

\* kill_switch_loop and kill_switch_db_sync_loop: when the loss stays, every process
\* that runs the switch ends up halted for good, although the row may say the opposite
\* of the flag after a failed write, a reset, a stale read or a restart.  A process
\* that only syncs depends on the write, which is not retried.
HaltSticks ==
  (<>[]loss) => \A p \in Procs :
    (<>(on[p] = {} \/ (p \notin Running("kill") /\ faults > 0))) \/ <>[]halted[p]

\* kill_switch_reset: a row that says "go" reaches every process, unless the switch
\* writes it over.
ResetReleases ==
  \A p \in Procs : (haltDb = "false" /\ p \in Running("sync")) ~> (~halted[p] \/ haltDb = "true")

\* halt_trading: "new orders should be blocked until cleared".  What may still go out
\* is what was past its loop's last look at the flag: one job of the copy queue, the
\* whole tick of the follower, the whole batch of the range loop.
Grace(p) == (IF "copy" \in on[p] THEN 1 ELSE 0)
            + (IF "follow" \in on[p] THEN Cardinality(Subs) ELSE 0)
            + (IF "range" \in on[p] THEN RangeBatch ELSE 0)
HaltBoundsOrders == \A p \in Procs : late[p] <= Grace(p)

\* copy_trade_execution_jobs: a follower's order for a leader's fill is placed at most
\* once, across processes, rescans of the same fills, crashes and failed UPDATEs.
CopiedOnce == \A j \in Jobs : copied[j] <= 1

\* range_signal_paper_executions: an event is executed at most once, on one venue.
RangeOnce == \A i, k \in DOMAIN sent : sent[i][1] = sent[k][1] => i = k

\* range_signal_execute_loop: a single process executes the events in the order they
\* were created (an exit never before its entry) as long as no claim fails.
RangeInOrder ==
  (Cardinality(Running("range")) = 1 /\ faults = 0)
    => \A i, k \in DOMAIN sent : i < k => sent[i][1] < sent[k][1]

\* Claims, not the orders, make the two table-driven loops safe: nothing is ordered twice,
\* and a range's exit is not ordered before its entry.
OrderedOnce == CopiedOnce /\ RangeOnce /\ RangeInOrder

\* The processes follow the row and the row follows the loss.
HaltFollows == HaltSticks /\ ResetReleases

\* copy_trade_queue: a fill of a leader gets its job unless the follower leaves or more
\* fills come in than one scan reads; a job ends unless a failure orphans it.
FillsAreCopied ==
  Running("copy") # {} =>
    /\ \A j \in Jobs : (j[2] <= fills /\ j[1] \in active)
                         ~> (job[j] # "absent" \/ j[1] \notin active \/ fills > ScanLimit)
    /\ \A j \in Jobs : job[j] = "pending" ~> (job[j] # "pending" \/ active = {})
=============================================================================
