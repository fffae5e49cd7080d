----------------------------- MODULE KillSwitch -----------------------------
(***************************************************************************)
(* The trading halt.  Each worker process keeps it in an atomic flag; the  *)
(* processes agree through one row of app_config.  kill_switch_loop raises *)
(* the flag when the day's realized loss passes the limit and then writes  *)
(* the row; kill_switch_db_sync_loop copies the row into the flag; an      *)
(* administrator's reset, in the API process, writes the row only.         *)
(***************************************************************************)
EXTENDS Naturals

CONSTANTS
  Procs,      \* worker processes on the database
  MaxResets,  \* bound: how often the administrator resets
  Faults,     \* kinds of failure that may happen
  MaxFaults   \* bound: how many failures a behaviour has

FaultKinds == {"persist", "crash", "mark", "enqueue", "claim", "lost"}

ASSUME SwitchAssumption ==
  MaxResets \in Nat /\ MaxFaults \in Nat /\ Faults \subseteq FaultKinds

VARIABLES
  halted,   \* TRADING_HALTED of each process
  haltDb,   \* app_config.kill_switch_trading_halted; "none" before the first write
  loss,     \* today's realized P&L is past the limit
  raising,  \* the process has raised its flag and not yet written the row
  read,     \* what the sync loop read and has not applied; "none" when idle
  resets,   \* resets so far
  faults    \* failures so far

switchVars == <<halted, haltDb, loss, raising, read, resets, faults>>

Row == {"none", "true", "false"}

SwitchTypeOK ==
  /\ halted \in [Procs -> BOOLEAN] /\ haltDb \in Row /\ loss \in BOOLEAN
  /\ raising \in [Procs -> BOOLEAN] /\ read \in [Procs -> Row]
  /\ resets \in 0 .. MaxResets /\ faults \in 0 .. MaxFaults

SwitchInit ==
  /\ halted = [p \in Procs |-> FALSE] /\ haltDb = "none" /\ loss = FALSE
  /\ raising = [p \in Procs |-> FALSE] /\ read = [p \in Procs |-> "none"]
  /\ resets = 0 /\ faults = 0

\* A failure of kind k happens (k is one the run allows and the bound is not reached).
Fail(k) == k \in Faults /\ faults < MaxFaults /\ faults' = faults + 1

\* pnl_rollups: a losing trade is booked, a profit is, or the day turns.
Pnl ==
  /\ loss' = ~loss
  /\ UNCHANGED <<halted, haltDb, raising, read, resets, faults>>

\* kill_switch_loop: a process that is halted does not look; a failed query ends the tick.
Trip(p) ==
  /\ ~halted[p] /\ ~raising[p] /\ loss
  /\ halted' = [halted EXCEPT ![p] = TRUE]
  /\ raising' = [raising EXCEPT ![p] = TRUE]
  /\ UNCHANGED <<haltDb, loss, read, resets, faults>>

\* persist_halt_flag; a failure is logged and never retried.
Persisted == "true"
Persist(p) ==
  /\ raising[p]
  /\ raising' = [raising EXCEPT ![p] = FALSE]
  /\ \/ haltDb' = Persisted /\ UNCHANGED faults
     \/ Fail("persist") /\ UNCHANGED haltDb
  /\ UNCHANGED <<halted, loss, read, resets>>

\* kill_switch_db_sync_loop: the row is read; without one, or on an error, nothing follows.
SyncRead(p) ==
  /\ read[p] = "none" /\ haltDb # "none"
  /\ read' = [read EXCEPT ![p] = haltDb]
  /\ UNCHANGED <<halted, haltDb, loss, raising, resets, faults>>

SyncedOnlyUp(p) == halted[p] \/ read[p] = "true"
Synced(p) == read[p] = "true"
SyncApply(p) ==
  /\ read[p] # "none"
  /\ halted' = [halted EXCEPT ![p] = Synced(p)]
  /\ read' = [read EXCEPT ![p] = "none"]
  /\ UNCHANGED <<haltDb, loss, raising, resets, faults>>

\* kill_switch_reset: the row; the flag it clears is the API process's own.
Reset ==
  /\ resets < MaxResets
  /\ resets' = resets + 1
  /\ haltDb' = "false"
  /\ UNCHANGED <<halted, loss, raising, read, faults>>

\* A process dies and starts over: apply_initial_halt_from_db, which may fail too.
Reboot(p) ==
  /\ Fail("crash")
  /\ \E seen \in {haltDb, "none"} : halted' = [halted EXCEPT ![p] = seen = "true"]
  /\ raising' = [raising EXCEPT ![p] = FALSE]
  /\ read' = [read EXCEPT ![p] = "none"]
  /\ UNCHANGED <<haltDb, loss, resets>>

TripLoop(p) == Trip(p) \/ Persist(p)
SyncLoop(p) == SyncRead(p) \/ SyncApply(p)
=============================================================================
