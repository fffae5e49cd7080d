------------------------------ MODULE Allocator ------------------------------
(***************************************************************************)
(* allocator_v2_loop: a tick walks the strong candidates, strongest first,  *)
(* and arms a setup per trading mode for each one that gets through the     *)
(* gates.  Nearly every gate is a count over qtss_setups, taken by a query  *)
(* of its own, while the watchers close the setups being counted; the row   *)
(* is inserted several awaits after the counts, and a setup on a higher     *)
(* timeframe retires the one it replaces only after that.                   *)
(* One exchange and one profile; an action is a gate's query, or an insert  *)
(* with what follows it.                                                    *)
(***************************************************************************)
EXTENDS Integers, FiniteSets, Sequences

CONSTANTS
  Configs,    \* deployments: [order, modes, sure, tick, cluster, daily, streak, closes, faults]
  MaxFaults   \* bound: how many failures a behaviour has

Directions == {"long", "short"}
FaultKinds == {"read", "insert", "retire", "crash"}

\* order: the candidates, strongest first.  sure: those that always get through the gates
\* that do not count setups.  tick, cluster, daily, streak: max_armed_per_tick,
\* corr_cluster_max_armed, max_daily_armed and loss_streak_threshold, all switched on.
\* closes, faults: bound on the setups the watchers close, and what may fail.
ASSUME AllocatorAssumption ==
  /\ MaxFaults \in Nat
  /\ \A c \in Configs :
       /\ c.order \in Seq({c.order[i] : i \in DOMAIN c.order})
       /\ \A i \in DOMAIN c.order : c.order[i].tf \in Nat /\ c.order[i].direction \in Directions
       /\ IsFiniteSet(c.modes)
       /\ c.sure \in BOOLEAN /\ c.closes \in Nat /\ c.faults \subseteq FaultKinds
       /\ {c.tick, c.cluster, c.daily, c.streak} \subseteq Nat \ {0}

VARIABLES
  config,  \* the deployment
  setups,  \* qtss_setups that were armed, oldest first
  old,     \* the first so many of them are older than a day
  cool,    \* stopped setups whose close is within sl_hit_cooldown_minutes
  ban,     \* stopped setups whose close is within loss_streak_ban_minutes
  at,      \* where the tick is
  next,    \* the candidate it is at, as a place in the order
  arm,     \* modes_to_arm, what is left of them
  doomed,  \* superseded
  armed,   \* setups armed in this tick
  closes,  \* setups the watchers closed
  faults   \* failures so far

env == <<config, old, cool, ban, closes>>
vars == <<config, setups, old, cool, ban, at, next, arm, doomed, armed, closes, faults>>

Gates == {"dedup", "opposing", "cooldown", "streak", "cluster", "daily", "approval"}
Cand == config.order[next]
Armed == DOMAIN setups
Open(i) == i \in Armed /\ setups[i].state = "open"
Live == {i \in Armed : Open(i)}
SameSide(i, c) == setups[i].cand.symbol = c.symbol /\ setups[i].cand.direction = c.direction

TypeOK ==
  /\ config \in Configs
  /\ \A i \in Armed : /\ \E k \in DOMAIN config.order : setups[i].cand = config.order[k]
                      /\ setups[i].mode \in config.modes
                      /\ setups[i].state \in {"open", "superseded", "stopped", "closed"}
  /\ old \in 0 .. Len(setups)
  /\ cool \cup ban \subseteq {i \in Armed : setups[i].state = "stopped"}
  /\ at \in {"idle", "arm", "retire"} \cup Gates
  /\ next \in 0 .. Len(config.order) /\ (at # "idle" => next > 0)
  /\ arm \subseteq config.modes /\ doomed \subseteq Armed
  /\ armed \in Nat /\ closes \in 0 .. config.closes /\ faults \in 0 .. MaxFaults

Init ==
  /\ config \in Configs
  /\ setups = <<>> /\ old = 0 /\ cool = {} /\ ban = {}
  /\ at = "idle" /\ next = 0 /\ arm = {} /\ doomed = {} /\ armed = 0
  /\ closes = 0 /\ faults = 0

Fine == UNCHANGED faults
Fault(k) == k \in config.faults /\ faults < MaxFaults /\ faults' = faults + 1

---------------------------------------------------------------------------
(* A tick.                                                                *)

\* A tick that finds no candidate does nothing.
StartTick ==
  /\ at = "idle" /\ config.order # <<>>
  /\ at' = "dedup" /\ next' = 1 /\ armed' = 0
  /\ UNCHANGED <<env, setups, arm, doomed>> /\ Fine

\* The tick ends when the candidates do, or when enough setups have been armed.
TickFullLate(n) == n > config.tick
TickFullEarly(n) == n + 1 >= config.tick
TickFull(n) == n >= config.tick
Continue(n) ==
  /\ arm' = {} /\ doomed' = {}
  /\ IF next < Len(config.order) /\ ~TickFull(n)
     THEN next' = next + 1 /\ at' = "dedup"
     ELSE next' = 0 /\ at' = "idle"
Skip == Continue(armed) /\ UNCHANGED <<env, setups, armed>>
Pass(to) == at' = to /\ UNCHANGED <<env, setups, next, arm, doomed, armed>>

\* One query per mode; a failed one finds nothing.
Holds(i, c) == setups[i].cand.tf >= c.tf
Holders(mode) == {i \in Live : SameSide(i, Cand) /\ setups[i].mode = mode}
\* Before v1.1.5 the lower timeframe was retired here, before the other gates.
DedupRetires ==
  /\ at = "dedup" /\ Fine
  /\ LET seen == UNION {Holders(m) : m \in config.modes}
         kept == {setups[i].mode : i \in {j \in seen : Holds(j, Cand)}}
         lower == {i \in seen : ~Holds(i, Cand)}
     IN IF kept = config.modes
        THEN Skip
        ELSE /\ arm' = config.modes \ kept /\ doomed' = {} /\ at' = "opposing"
             /\ setups' = [i \in Armed |-> IF i \in lower
                                          THEN [setups[i] EXCEPT !.state = "superseded"] ELSE setups[i]]
             /\ UNCHANGED <<env, next, armed>>
Dedup ==
  /\ at = "dedup"
  /\ \E blind \in SUBSET config.modes :
       /\ IF blind = {} THEN Fine ELSE Fault("read")
       /\ LET seen == UNION {Holders(m) : m \in config.modes \ blind}
              kept == {setups[i].mode : i \in {j \in seen : Holds(j, Cand)}}
          IN IF kept = config.modes
             THEN Skip
             ELSE /\ arm' = config.modes \ kept
                  /\ doomed' = {i \in seen : ~Holds(i, Cand)}
                  /\ at' = "opposing"
                  /\ UNCHANGED <<env, setups, next, armed>>

\* A gate that counts: what it counts closes it, and a count that fails reads zero.
Gate(here, shut, there) ==
  /\ at = here
  /\ \/ shut /\ Skip /\ Fine
     \/ ~shut /\ Pass(there) /\ Fine
     \/ shut /\ Fault("read") /\ Pass(there)

OpposedNever(c) == FALSE
Opposed(c) == \E i \in Live : setups[i].cand.symbol = c.symbol /\ ~SameSide(i, c)
Cooling(c) == \E i \in cool : SameSide(i, c)
Streak(c) == Cardinality({i \in ban : SameSide(i, c)}) >= config.streak
\* cluster_symbols: the symbols the model has are siblings.
Clustered(c) == Cardinality({i \in Live : setups[i].cand.direction = c.direction}) >= config.cluster
ArmedToday == Cardinality({i \in Live : i > old}) >= config.daily

Opposing == Gate("opposing", Opposed(Cand), "cooldown")
Cooldown == Gate("cooldown", Cooling(Cand), "streak")
LossStreak == Gate("streak", Streak(Cand), "cluster")
Cluster == Gate("cluster", Clustered(Cand), "daily")
Daily == Gate("daily", ArmedToday, "approval")

\* Price and ATR, the EV, higher-timeframe, calibration and AI gates, the audit row, and the
\* three viability checks.  A setup that is not viable gets a row that no gate counts.
Approval ==
  /\ at = "approval"
  /\ \/ Pass("arm") /\ Fine
     \/ ~config.sure /\ Skip /\ Fine

\* One row per mode; when an insert fails the whole tick ends.
Arm ==
  /\ at = "arm"
  /\ \/ \E m \in arm :
          /\ setups' = Append(setups, [cand |-> Cand, mode |-> m, state |-> "open"])
          /\ arm' = arm \ {m} /\ armed' = armed + 1 /\ at' = "retire" /\ Fine
          /\ UNCHANGED <<env, next, doomed>>
     \/ /\ Fault("insert")
        /\ at' = "idle" /\ next' = 0 /\ arm' = {} /\ doomed' = {}
        /\ UNCHANGED <<env, setups, armed>>

\* Every superseded setup that is still open, in whatever mode, once one row is in; an
\* UPDATE that fails is dropped, and repeated only if another mode is still to be armed.
Retired(lost) == [i \in Armed |-> IF i \in doomed \ lost /\ Open(i)
                                  THEN [setups[i] EXCEPT !.state = "superseded"] ELSE setups[i]]
Retire ==
  /\ at = "retire"
  /\ \/ setups' = Retired({}) /\ Fine
     \/ \E i \in doomed : setups' = Retired({i}) /\ Fault("retire")
  /\ IF arm # {}
     THEN at' = "arm" /\ UNCHANGED <<next, arm, doomed>>
     ELSE Continue(armed)
  /\ UNCHANGED <<env, armed>>

---------------------------------------------------------------------------
(* The world.                                                             *)

\* A watcher closes a setup, at its stop or otherwise.
Close(i, how) ==
  /\ Open(i) /\ closes < config.closes
  /\ closes' = closes + 1
  /\ setups' = [setups EXCEPT ![i].state = how]
  /\ IF how = "stopped" THEN cool' = cool \cup {i} /\ ban' = ban \cup {i}
                        ELSE UNCHANGED <<cool, ban>>
  /\ UNCHANGED <<config, old, at, next, arm, doomed, armed>> /\ Fine

\* A window passes a setup by: the ban is the longer one, and a day is longer than both.
Pass15(i) == i \in cool /\ cool' = cool \ {i} /\ UNCHANGED <<old, ban>>
Pass60(i) == i \in ban \ cool /\ ban' = ban \ {i} /\ UNCHANGED <<old, cool>>
PassDay(i) == i = old + 1 /\ i \notin ban /\ old' = i /\ UNCHANGED <<cool, ban>>
Time(i) ==
  /\ Pass15(i) \/ Pass60(i) \/ PassDay(i)
  /\ UNCHANGED <<config, setups, at, next, arm, doomed, armed, closes>> /\ Fine

\* The worker dies; the tick starts over.
Crash ==
  /\ at # "idle" /\ Fault("crash")
  /\ at' = "idle" /\ next' = 0 /\ arm' = {} /\ doomed' = {}
  /\ UNCHANGED <<env, setups, armed>>

Tick == StartTick \/ Dedup \/ Opposing \/ Cooldown \/ LossStreak \/ Cluster \/ Daily \/ Approval
        \/ Arm \/ Retire
Next ==
  \/ Tick \/ Crash
  \/ \E i \in Armed : Time(i) \/ Close(i, "stopped") \/ Close(i, "closed")

Spec == Init /\ [][Next]_vars

\* The loop ticks again whatever its last tick returned, and time passes.
FairSpec == Spec /\ WF_vars(Tick) /\ WF_vars(\E i \in Armed : Time(i))

---------------------------------------------------------------------------
(* Properties.                                                            *)

Slot(i, j) == SameSide(i, setups[j].cand) /\ setups[i].mode = setups[j].mode
Standing == Live \ doomed

\* A symbol has at most one setup per direction and mode, and never one in each direction,
\* once the tick has retired what it replaced; only a query that failed, or a retirement
\* that was lost, lets a second one in.
OnePerSlot ==
  /\ \A i \in Standing : Cardinality({j \in Standing : Slot(j, i)}) <= 1 + faults
  /\ faults = 0 => \A i, j \in Live : setups[i].cand.symbol = setups[j].cand.symbol => SameSide(i, setups[j].cand)

\* Every cap is taken per candidate and charged per mode: the tick, the cluster and the day
\* run over theirs by at most the modes but one.
Over(cap) == cap + Cardinality(config.modes) - 1
CapsKept ==
  faults = 0 =>
    /\ armed <= Over(config.tick)
    /\ \A d \in Directions :
         Cardinality({i \in Standing : setups[i].cand.direction = d}) <= Over(config.cluster)
    /\ Cardinality({i \in Standing : i > old}) <= Over(config.daily)

\* The whipsaw is cut: what is stopped within a cooldown was open at the first stop, or was
\* past the gate by then; nothing is armed into it.
WhipsawIsCut ==
  faults = 0 => \A c \in {config.order[k] : k \in DOMAIN config.order} :
    Cardinality({i \in cool : SameSide(i, c)}) <= 2 * Cardinality(config.modes)

\* Each limit on arming holds, although each is counted before the row it is to count.
CapsHold == CapsKept /\ WhipsawIsCut

\* Supersede-on-success: between two ticks, what was retired for a higher timeframe has
\* been replaced by one in its own mode.
RetiredWasReplaced ==
  at = "idle" /\ faults = 0 => \A i \in Armed : setups[i].state = "superseded" =>
    \E j \in Armed : j > i /\ Slot(j, i) /\ setups[j].cand.tf > setups[i].cand.tf

\* Deferred is not dropped, and nothing thrashes: once the watchers are quiet, every
\* candidate that the other gates let through ends up held by a setup of its timeframe or
\* higher in every mode, or shut out by a count.
Served(c) ==
  \/ \A m \in config.modes : \E i \in Live : SameSide(i, c) /\ setups[i].mode = m /\ Holds(i, c)
  \/ Opposed(c) \/ Cooling(c) \/ Streak(c) \/ Clustered(c) \/ ArmedToday
EveryoneServed == config.sure => <>[](\A k \in DOMAIN config.order : Served(config.order[k]))
=============================================================================
