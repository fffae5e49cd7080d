--------------------------- MODULE AllocatorProofs ---------------------------
(* What holds of Allocator for any deployment: any candidates, modes, caps and failures. *)
EXTENDS Allocator, FiniteSetTheorems, TLAPS

\* A row of qtss_setups that was armed.
Cands == {config.order[k] : k \in DOMAIN config.order}
Rows == [cand : Cands, mode : config.modes, state : {"open", "superseded", "stopped", "closed"}]

\* How far the candidate at hand has got.
PastOpposing == at \in {"cooldown", "streak", "cluster", "daily", "approval", "arm", "retire"}
PastCooldown == PastOpposing /\ at # "cooldown"
Arming == at \in {"arm", "retire"}
PastCluster == at \in {"daily", "approval"} \/ Arming
PastDaily == at = "approval" \/ Arming

\* TypeOK, and what a tick has in hand.
Typed ==
  /\ config \in Configs
  /\ setups \in Seq(Rows)
  /\ old \in 0 .. Len(setups)
  /\ cool \in SUBSET Armed /\ ban \in SUBSET Armed
  /\ \A i \in cool \cup ban : setups[i].state = "stopped"
  /\ at \in {"idle", "arm", "retire"} \cup Gates
  /\ next \in 0 .. Len(config.order) /\ (at # "idle" => next > 0)
  /\ arm \in SUBSET config.modes /\ doomed \in SUBSET Armed
  /\ armed \in Nat /\ closes \in 0 .. config.closes /\ faults \in 0 .. MaxFaults
  /\ at \in {"idle", "dedup"} => arm = {} /\ doomed = {}

\* The setups a candidate would be one more of, in a mode.
In(c, m) == {i \in Live : SameSide(i, c) /\ setups[i].mode = m}
Sided(c) == {i \in Live : SameSide(i, c)}
Cooled(c) == {i \in cool : SameSide(i, c)}

\* A slot has one setup and one more per failure.  While its candidate is being armed, those
\* it is to replace stand aside: a mode that is still to be armed has one less, and until
\* the UPDATE that retires them there is one more.
Slotted ==
  \A c \in Cands, m \in config.modes :
    /\ Cardinality(In(c, m)) <= 1 + faults + (IF at = "retire" THEN 1 ELSE 0)
    /\ Cardinality(In(c, m) \ doomed) <= 1 + faults
    /\ at # "idle" /\ m \in arm => Cardinality(In(Cand, m) \ doomed) <= faults

\* As long as nothing has failed, a symbol has one side, the candidate's once that is past
\* its gate.
OneSided ==
  faults = 0 =>
    /\ \A i, j \in Live : setups[i].cand.symbol = setups[j].cand.symbol => SameSide(i, setups[j].cand)
    /\ PastOpposing => ~Opposed(Cand)

\* What is to be retired is on a lower timeframe and in a mode that is still to be armed, or
\* armed already; it is one per slot; and nothing is retired before something is armed.
Replaced(i) == \E j \in Armed : j > i /\ Slot(j, i) /\ setups[j].cand.tf > setups[i].cand.tf
Replacing ==
  faults = 0 =>
    /\ \A i \in doomed : /\ SameSide(i, Cand) /\ setups[i].cand.tf < Cand.tf
                         /\ setups[i].mode \in arm \/ Replaced(i)
    /\ \A i \in Armed : setups[i].state = "superseded" => i \in doomed \/ Replaced(i)
    /\ \A i, j \in doomed : Slot(i, j) => i = j
    /\ at \notin {"arm", "retire"} => \A i \in doomed : setups[i].state # "superseded"

\* What is armed in a tick, the open setups of a direction and those of a day, with the rows
\* the candidate may still insert.
Facing(d) == {i \in Live : setups[i].cand.direction = d}
Recent == {i \in Live : i > old}
Capped ==
  faults = 0 =>
    /\ at \in Gates => armed < config.tick
    /\ armed + Cardinality(arm) <= Over(config.tick)
    /\ \A d \in Directions : Cardinality(Facing(d)) <= Over(config.cluster)
    /\ Cardinality(Recent) <= Over(config.daily)
    /\ PastCluster => Cardinality(Facing(Cand.direction)) + Cardinality(arm) <= Over(config.cluster)
    /\ PastDaily => Cardinality(Recent) + Cardinality(arm) <= Over(config.daily)

\* The rows a candidate on the side of c may still insert, once it is past the cooldown gate.
Pending(c) == IF PastCooldown /\ Cand.symbol = c.symbol /\ Cand.direction = c.direction
              THEN Cardinality(arm) ELSE 0
Cut ==
  faults = 0 => \A c \in Cands :
    Cooled(c) # {} => Cardinality(Cooled(c)) + Cardinality(Sided(c)) + Pending(c)
                        <= 2 * Cardinality(config.modes)

---------------------------------------------------------------------------
(* Types.                                                                  *)

LEMMA Deployed ==
  ASSUME config \in Configs
  PROVE  /\ config.order \in Seq(Cands) /\ DOMAIN config.order = 1 .. Len(config.order)
         /\ Len(config.order) \in Nat
         /\ \A c \in Cands : c.tf \in Nat /\ c.direction \in Directions
         /\ IsFiniteSet(config.modes) /\ Cardinality(config.modes) \in Nat
         /\ config.closes \in Nat
         /\ config.tick \in Nat \ {0} /\ config.cluster \in Nat \ {0}
         /\ config.daily \in Nat \ {0} /\ config.streak \in Nat \ {0}
<1>1. /\ config.order \in Seq(Cands)
      /\ \A k \in DOMAIN config.order : config.order[k].tf \in Nat /\ config.order[k].direction \in Directions
      /\ IsFiniteSet(config.modes) /\ config.closes \in Nat
      /\ {config.tick, config.cluster, config.daily, config.streak} \subseteq Nat \ {0}
  BY AllocatorAssumption DEF Cands
<1>2. \A c \in Cands : c.tf \in Nat /\ c.direction \in Directions
  BY <1>1 DEF Cands
<1>3. DOMAIN config.order = 1 .. Len(config.order) /\ Len(config.order) \in Nat
  BY <1>1
<1>4. Cardinality(config.modes) \in Nat
  BY <1>1, FS_CardinalityType
<1> QED
  BY <1>1, <1>2, <1>3, <1>4

LEMMA SeqOf ==
  ASSUME NEW S, NEW n \in Nat, NEW f \in [1 .. n -> S]
  PROVE  f \in Seq(S) /\ Len(f) = n
OBVIOUS

LEMMA ArmedRows ==
  ASSUME Typed
  PROVE  /\ Armed = 1 .. Len(setups) /\ Len(setups) \in Nat
         /\ \A i \in Armed : setups[i] \in Rows
         /\ \A S \in SUBSET Armed : IsFiniteSet(S) /\ Cardinality(S) \in Nat
<1>1. Armed = 1 .. Len(setups) /\ Len(setups) \in Nat /\ \A i \in Armed : setups[i] \in Rows
  BY DEF Typed, Armed
<1>2. IsFiniteSet(1 .. Len(setups))
  BY <1>1, FS_Interval
<1> QED
  BY <1>1, <1>2, FS_Subset, FS_CardinalityType

LEMMA CandIn ==
  ASSUME Typed, next > 0
  PROVE  Cand \in Cands
<1>1. next \in DOMAIN config.order
  BY Deployed DEF Typed
<1> QED
  BY <1>1 DEF Cand, Cands

\* What a step that arms nothing does to the rows: it closes some.
Closing ==
  /\ setups' \in Seq(Rows) /\ Armed' = Armed /\ Len(setups') = Len(setups)
  /\ \A i \in Armed : /\ setups'[i].cand = setups[i].cand /\ setups'[i].mode = setups[i].mode
                      /\ setups'[i].state # setups[i].state => setups[i].state = "open"
                      /\ setups'[i].state = "open" => setups[i].state = "open"

LEMMA KeptRows ==
  ASSUME Typed, setups' = setups
  PROVE  Closing
BY DEF Closing, Typed, Armed

LEMMA RetiredRows ==
  ASSUME Typed, NEW lost, setups' = Retired(lost)
  PROVE  /\ Closing
         /\ \A i \in Armed : setups'[i].state = IF i \in doomed \ lost /\ Open(i) THEN "superseded"
                                                ELSE setups[i].state
<1>1. Armed = 1 .. Len(setups) /\ Len(setups) \in Nat /\ \A i \in Armed : setups[i] \in Rows
  BY ArmedRows
<1>2. \A i \in Armed : /\ setups'[i] \in Rows
                       /\ setups'[i].cand = setups[i].cand /\ setups'[i].mode = setups[i].mode
                       /\ setups'[i].state = IF i \in doomed \ lost /\ Open(i) THEN "superseded"
                                             ELSE setups[i].state
  <2> SUFFICES ASSUME NEW i \in Armed
               PROVE  /\ setups'[i] \in Rows
                      /\ setups'[i].cand = setups[i].cand /\ setups'[i].mode = setups[i].mode
                      /\ setups'[i].state = IF i \in doomed \ lost /\ Open(i) THEN "superseded"
                                            ELSE setups[i].state
    OBVIOUS
  <2>1. setups[i] \in Rows
    BY <1>1
  <2>2. setups'[i] = IF i \in doomed \ lost /\ Open(i)
                     THEN [setups[i] EXCEPT !.state = "superseded"] ELSE setups[i]
    BY DEF Retired
  <2> QED
    BY <2>1, <2>2 DEF Rows
<1>3. setups' \in [1 .. Len(setups) -> Rows]
  BY <1>1, <1>2 DEF Retired
<1>4. setups' \in Seq(Rows) /\ Len(setups') = Len(setups) /\ DOMAIN setups' = DOMAIN setups
  <2>1. DOMAIN setups' = 1 .. Len(setups)
    BY <1>3
  <2>2. setups' \in Seq(Rows)
    BY <1>1, <1>3, SeqOf
  <2> QED
    BY <1>1, <2>1, <2>2 DEF Armed
<1>5. Armed' = Armed
  BY <1>4 DEF Armed
<1> QED
  BY <1>2, <1>4, <1>5 DEF Closing, Open

LEMMA ClosedRow ==
  ASSUME Typed, NEW i \in Armed, NEW how \in {"stopped", "closed"},
         setups[i].state = "open", setups' = [setups EXCEPT ![i].state = how]
  PROVE  /\ Closing /\ setups'[i].state = how
         /\ \A j \in Armed : j # i => setups'[j] = setups[j]
<1>1. Armed = 1 .. Len(setups) /\ Len(setups) \in Nat /\ setups \in Seq(Rows)
      /\ \A j \in Armed : setups[j] \in Rows
  BY ArmedRows DEF Typed
<1>2. \A j \in Armed : j # i => setups'[j] = setups[j]
  BY <1>1 DEF Armed
<1>3. /\ setups'[i] \in Rows /\ setups'[i].state = how
      /\ setups'[i].cand = setups[i].cand /\ setups'[i].mode = setups[i].mode
  BY <1>1 DEF Armed, Rows
<1>4. setups' \in Seq(Rows) /\ Len(setups') = Len(setups) /\ DOMAIN setups' = DOMAIN setups
  <2>1. DOMAIN setups' = 1 .. Len(setups)
    BY <1>1 DEF Armed
  <2>2. setups' \in [1 .. Len(setups) -> Rows]
    BY <1>1, <1>2, <1>3, <2>1
  <2>3. setups' \in Seq(Rows)
    BY <1>1, <2>2, SeqOf
  <2> QED
    BY <1>1, <2>1, <2>3 DEF Armed
<1>5. Armed' = Armed
  BY <1>4 DEF Armed
<1> QED
  BY <1>2, <1>3, <1>4, <1>5 DEF Closing

\* What an insert does to them.
LEMMA ArmedOne ==
  ASSUME Typed, next > 0, NEW m \in config.modes,
         setups' = Append(setups, [cand |-> Cand, mode |-> m, state |-> "open"])
  PROVE  /\ setups' \in Seq(Rows) /\ Len(setups') = Len(setups) + 1
         /\ Armed' = Armed \cup {Len(setups) + 1} /\ Len(setups) + 1 \notin Armed
         /\ \A i \in Armed : setups'[i] = setups[i]
         /\ setups'[Len(setups) + 1] = [cand |-> Cand, mode |-> m, state |-> "open"]
<1>1. Armed = 1 .. Len(setups) /\ Len(setups) \in Nat /\ setups \in Seq(Rows)
  BY ArmedRows DEF Typed
<1>2. [cand |-> Cand, mode |-> m, state |-> "open"] \in Rows
  BY CandIn DEF Rows
<1>3. setups' \in Seq(Rows) /\ Len(setups') = Len(setups) + 1
  BY <1>1, <1>2
<1>4. Armed' = 1 .. Len(setups) + 1
  BY <1>1, <1>3 DEF Armed
<1>5. \A i \in Armed : setups'[i] = setups[i]
  BY <1>1, <1>2 DEF Armed
<1>6. setups'[Len(setups) + 1] = [cand |-> Cand, mode |-> m, state |-> "open"]
  BY <1>1, <1>2
<1> QED
  BY <1>1, <1>3, <1>4, <1>5, <1>6

\* Where a tick may go from a gate, or from the last retirement of a candidate.
LEMMA Continues ==
  ASSUME Typed, NEW n, Continue(n), at # "idle"
  PROVE  /\ arm' = {} /\ doomed' = {} /\ next' \in 0 .. Len(config.order)
         /\ at' \in {"idle", "dedup"} /\ (at' # "idle" => next' > 0)
         /\ at' = "dedup" => ~TickFull(n)
<1>1. Len(config.order) \in Nat /\ next \in 0 .. Len(config.order)
  BY Deployed DEF Typed
<1> QED
  BY <1>1 DEF Continue

\* A step at a gate: the tick leaves the candidate, or goes on to the next gate.
Left == /\ Continue(armed) /\ armed' = armed /\ at \in Gates /\ faults' = faults
On(to) == /\ at' = to /\ next' = next /\ arm' = arm /\ doomed' = doomed /\ armed' = armed
LEMMA GateSteps ==
  ASSUME Opposing \/ Cooldown \/ LossStreak \/ Cluster \/ Daily \/ Approval
  PROVE  /\ setups' = setups /\ UNCHANGED env /\ at \in Gates
         /\ \/ Left
            \/ /\ at = "opposing" /\ On("cooldown")
               /\ \/ faults' = faults + 1 /\ faults < MaxFaults
                  \/ faults' = faults /\ ~Opposed(Cand)
            \/ /\ at = "cooldown" /\ On("streak")
               /\ \/ faults' = faults + 1 /\ faults < MaxFaults
                  \/ faults' = faults /\ ~Cooling(Cand)
            \/ /\ at = "streak" /\ On("cluster")
               /\ \/ faults' = faults + 1 /\ faults < MaxFaults
                  \/ faults' = faults
            \/ /\ at = "cluster" /\ On("daily")
               /\ \/ faults' = faults + 1 /\ faults < MaxFaults
                  \/ faults' = faults /\ ~Clustered(Cand)
            \/ /\ at = "daily" /\ On("approval")
               /\ \/ faults' = faults + 1 /\ faults < MaxFaults
                  \/ faults' = faults /\ ~ArmedToday
            \/ at = "approval" /\ On("arm") /\ faults' = faults
<1> DEFINE Did(here, there, shut) ==
             /\ at = here /\ setups' = setups /\ UNCHANGED env
             /\ \/ Left
                \/ On(there) /\ ~shut /\ faults' = faults
                \/ On(there) /\ faults' = faults + 1 /\ faults < MaxFaults
<1>1. ASSUME Opposing PROVE Did("opposing", "cooldown", Opposed(Cand))
  BY <1>1 DEF Opposing, Gate, Skip, Pass, Fine, Fault, Left, On, Gates
<1>2. ASSUME Cooldown PROVE Did("cooldown", "streak", Cooling(Cand))
  BY <1>2 DEF Cooldown, Gate, Skip, Pass, Fine, Fault, Left, On, Gates
<1>3. ASSUME LossStreak PROVE Did("streak", "cluster", Streak(Cand))
  BY <1>3 DEF LossStreak, Gate, Skip, Pass, Fine, Fault, Left, On, Gates
<1>4. ASSUME Cluster PROVE Did("cluster", "daily", Clustered(Cand))
  BY <1>4 DEF Cluster, Gate, Skip, Pass, Fine, Fault, Left, On, Gates
<1>5. ASSUME Daily PROVE Did("daily", "approval", ArmedToday)
  BY <1>5 DEF Daily, Gate, Skip, Pass, Fine, Fault, Left, On, Gates
<1>6. ASSUME Approval
      PROVE  /\ at = "approval" /\ setups' = setups /\ UNCHANGED env
             /\ Left \/ (On("arm") /\ faults' = faults)
  BY <1>6 DEF Approval, Skip, Pass, Fine, Left, On, Gates
<1> QED
  BY <1>1, <1>2, <1>3, <1>4, <1>5, <1>6 DEF Gates

\* What a step does to the tick, and to the rows.
LEMMA Steps ==
  ASSUME Typed, [Next]_vars
  PROVE  \/ /\ at = "idle" /\ at' = "dedup" /\ next' = 1 /\ armed' = 0 /\ setups' = setups
            /\ UNCHANGED <<env, arm, doomed, faults>> /\ Len(config.order) >= 1
         \/ Dedup
         \/ Opposing \/ Cooldown \/ LossStreak \/ Cluster \/ Daily \/ Approval
         \/ Arm
         \/ Retire
         \/ /\ at' = "idle" /\ next' = 0 /\ arm' = {} /\ doomed' = {} /\ armed' = armed
            /\ setups' = setups /\ UNCHANGED env /\ faults' = faults + 1 /\ faults < MaxFaults
         \/ /\ UNCHANGED <<config, at, next, arm, doomed, armed, faults>>
            /\ \E i \in Armed : Time(i) \/ Close(i, "stopped") \/ Close(i, "closed")
         \/ UNCHANGED vars
<1>1. ASSUME StartTick
      PROVE  /\ at = "idle" /\ at' = "dedup" /\ next' = 1 /\ armed' = 0 /\ setups' = setups
             /\ UNCHANGED <<env, arm, doomed, faults>> /\ Len(config.order) >= 1
  <2>1. config.order # <<>> /\ config.order \in Seq(Cands)
    BY <1>1, Deployed DEF StartTick, Typed
  <2>2. Len(config.order) >= 1
    BY <2>1
  <2> QED
    BY <1>1, <2>2 DEF StartTick, Fine
<1>2. CASE Crash
  BY <1>2 DEF Crash, Fault
<1>3. ASSUME NEW i \in Armed, Time(i) \/ Close(i, "stopped") \/ Close(i, "closed")
      PROVE  UNCHANGED <<config, at, next, arm, doomed, armed, faults>>
  BY <1>3 DEF Time, Close, Fine
<1> QED
  BY <1>1, <1>2, <1>3 DEF Next, Tick

\* Dedup: it leaves the candidate, or takes the modes nothing holds, and what is lower in
\* those it read.
LEMMA DedupSteps ==
  ASSUME Typed, Dedup
  PROVE  /\ at = "dedup" /\ setups' = setups /\ UNCHANGED env
         /\ \/ Continue(armed) /\ armed' = armed
               /\ (faults' = faults \/ (faults' = faults + 1 /\ faults < MaxFaults))
            \/ \E blind \in SUBSET config.modes :
                 /\ at' = "opposing" /\ next' = next /\ armed' = armed /\ arm' \in SUBSET config.modes
                 /\ IF blind = {} THEN faults' = faults ELSE faults' = faults + 1 /\ faults < MaxFaults
                 /\ doomed' \in SUBSET Live
                 /\ \A i \in doomed' : /\ SameSide(i, Cand) /\ ~Holds(i, Cand)
                                       /\ setups[i].mode \in config.modes \ blind
                 /\ \A m \in arm' \ blind : In(Cand, m) \subseteq doomed'
                 /\ \A m \in config.modes \ arm' : \E i \in In(Cand, m) : Holds(i, Cand)
<1>1. PICK blind \in SUBSET config.modes :
        /\ IF blind = {} THEN Fine ELSE Fault("read")
        /\ LET seen == UNION {Holders(m) : m \in config.modes \ blind}
               kept == {setups[i].mode : i \in {j \in seen : Holds(j, Cand)}}
           IN IF kept = config.modes
              THEN Skip
              ELSE /\ arm' = config.modes \ kept
                   /\ doomed' = {i \in seen : ~Holds(i, Cand)}
                   /\ at' = "opposing"
                   /\ UNCHANGED <<env, setups, next, armed>>
  BY DEF Dedup
<1> DEFINE seen == UNION {Holders(m) : m \in config.modes \ blind}
           kept == {setups[i].mode : i \in {j \in seen : Holds(j, Cand)}}
<1>2. at = "dedup" /\ (IF blind = {} THEN faults' = faults ELSE faults' = faults + 1 /\ faults < MaxFaults)
  BY <1>1 DEF Dedup, Fine, Fault
<1>3. CASE kept = config.modes
  <2>1. Skip
    BY <1>1, <1>3
  <2>2. Continue(armed) /\ armed' = armed /\ setups' = setups /\ UNCHANGED env
    BY <2>1 DEF Skip
  <2>3. faults' = faults \/ (faults' = faults + 1 /\ faults < MaxFaults)
    BY <1>2
  <2> QED
    BY ONLY <1>2, <2>2, <2>3, Zenon
<1>4. CASE kept # config.modes
  <2>1. /\ arm' = config.modes \ kept /\ doomed' = {i \in seen : ~Holds(i, Cand)}
        /\ at' = "opposing" /\ UNCHANGED <<env, setups, next, armed>>
    BY <1>1, <1>4
  <2>2. \A i : i \in seen <=> /\ i \in Live /\ SameSide(i, Cand)
                              /\ setups[i].mode \in config.modes \ blind
    BY DEF Holders
  <2>3. \A i \in Live : setups[i].mode \in config.modes
    BY ArmedRows DEF Live, Rows
  <2>4. \A m \in arm' \ blind : In(Cand, m) \subseteq doomed'
    <3> SUFFICES ASSUME NEW m \in arm' \ blind, NEW i \in In(Cand, m) PROVE i \in doomed'
      OBVIOUS
    <3>1. i \in Live /\ SameSide(i, Cand) /\ setups[i].mode = m /\ m \in config.modes \ blind
          /\ m \notin kept
      BY <2>1 DEF In
    <3>2. i \in seen
      BY <2>2, <3>1
    <3>3. ~Holds(i, Cand)
      BY <3>1, <3>2
    <3> QED
      BY <2>1, <3>2, <3>3
  <2>5. \A m \in config.modes \ arm' : \E i \in In(Cand, m) : Holds(i, Cand)
    <3> SUFFICES ASSUME NEW m \in config.modes \ arm' PROVE \E i \in In(Cand, m) : Holds(i, Cand)
      OBVIOUS
    <3>1. m \in kept
      BY <2>1
    <3>2. PICK i \in seen : Holds(i, Cand) /\ setups[i].mode = m
      BY <3>1
    <3>3. i \in In(Cand, m)
      BY <2>2, <3>2 DEF In
    <3> QED
      BY <3>2, <3>3
  <2>6. \A i \in doomed' : /\ i \in Live /\ SameSide(i, Cand) /\ ~Holds(i, Cand)
                           /\ setups[i].mode \in config.modes \ blind
    BY <2>1, <2>2
  <2>7. arm' \in SUBSET config.modes
    BY <2>1
  <2> HIDE DEF kept, seen
  <2>8. doomed' \in SUBSET Live
    BY <2>6
  <2> QED
    BY <1>2, <2>1, <2>4, <2>5, <2>6, <2>7, <2>8
<1> QED
  BY <1>3, <1>4

\* Typed, the tick's part of it.
TickTyped ==
  /\ at \in {"idle", "arm", "retire"} \cup Gates
  /\ next \in 0 .. Len(config.order) /\ (at # "idle" => next > 0)
  /\ arm \in SUBSET config.modes /\ doomed \in SUBSET Armed
  /\ armed \in Nat /\ faults \in 0 .. MaxFaults
  /\ at \in {"idle", "dedup"} => arm = {} /\ doomed = {}
RowsTyped ==
  /\ config \in Configs
  /\ setups \in Seq(Rows)
  /\ old \in 0 .. Len(setups)
  /\ cool \in SUBSET Armed /\ ban \in SUBSET Armed
  /\ \A i \in cool \cup ban : setups[i].state = "stopped"
  /\ closes \in 0 .. config.closes

LEMMA RowsStay ==
  ASSUME Typed, Closing, UNCHANGED env
  PROVE  RowsTyped'
<1>1. /\ config' = config /\ old' = old /\ cool' = cool /\ ban' = ban /\ closes' = closes
      /\ Cands' = Cands /\ Rows' = Rows
  BY DEF env, Cands, Rows
<1>2. \A i \in cool \cup ban : setups'[i].state = "stopped"
  BY DEF Closing, Typed
<1> QED
  BY <1>1, <1>2 DEF Closing, Typed, RowsTyped

LEMMA TypedNext == Typed /\ [Next]_vars => Typed'
<1> SUFFICES ASSUME Typed, [Next]_vars PROVE Typed'
  OBVIOUS
<1> USE DEF Gates
<1>0. TickTyped /\ RowsTyped /\ MaxFaults \in Nat
  BY AllocatorAssumption DEF Typed, TickTyped, RowsTyped
<1>a. RowsTyped' /\ TickTyped' => Typed'
  BY DEF Typed, TickTyped, RowsTyped
<1>b. /\ config \in Configs /\ Len(config.order) \in Nat /\ config.tick \in Nat
      /\ faults \in Nat /\ armed \in Nat
  BY Deployed DEF Typed
<1>1. ASSUME at = "idle", at' = "dedup", next' = 1, armed' = 0, setups' = setups,
             UNCHANGED <<env, arm, doomed, faults>>, Len(config.order) >= 1
      PROVE  Typed'
  <2>1. RowsTyped' /\ Armed' = Armed /\ config' = config
    BY <1>1, KeptRows, RowsStay DEF Closing, env
  <2>2. TickTyped'
    BY <1>0, <1>b, <1>1, <2>1 DEF TickTyped
  <2> QED
    BY <1>a, <2>1, <2>2
<1>2. ASSUME Dedup PROVE Typed'
  <2>1. setups' = setups /\ UNCHANGED env /\ config' = config /\ at = "dedup" /\ next > 0
    BY <1>2, DedupSteps DEF env, Typed
  <2>2. RowsTyped' /\ Armed' = Armed
    BY <2>1, KeptRows, RowsStay DEF Closing
  <2>3. CASE Continue(armed) /\ armed' = armed
             /\ (faults' = faults \/ (faults' = faults + 1 /\ faults < MaxFaults))
    <3>1. /\ arm' = {} /\ doomed' = {} /\ next' \in 0 .. Len(config.order)
          /\ at' \in {"idle", "dedup"} /\ (at' # "idle" => next' > 0)
      BY <2>1, <2>3, Continues
    <3>2. TickTyped'
      BY <1>0, <2>1, <2>2, <2>3, <3>1 DEF TickTyped
    <3> QED
      BY <1>a, <2>2, <3>2
  <2>4. CASE /\ at' = "opposing" /\ next' = next /\ armed' = armed /\ arm' \in SUBSET config.modes
             /\ (faults' = faults \/ (faults' = faults + 1 /\ faults < MaxFaults))
             /\ doomed' \in SUBSET Live
    <3>1. doomed' \in SUBSET Armed
      BY <2>4 DEF Live
    <3>2. TickTyped'
      BY <1>0, <2>1, <2>2, <2>4, <3>1 DEF TickTyped
    <3> QED
      BY <1>a, <2>2, <3>2
  <2> QED
    BY <1>2, <2>3, <2>4, DedupSteps
<1>3. ASSUME Opposing \/ Cooldown \/ LossStreak \/ Cluster \/ Daily \/ Approval PROVE Typed'
  <2>1. setups' = setups /\ UNCHANGED env /\ config' = config /\ at \in Gates
    BY <1>3, GateSteps DEF env
  <2>2. RowsTyped' /\ Armed' = Armed
    BY <2>1, KeptRows, RowsStay DEF Closing
  <2>3. CASE Left
    <3>1. /\ arm' = {} /\ doomed' = {} /\ next' \in 0 .. Len(config.order)
          /\ at' \in {"idle", "dedup"} /\ (at' # "idle" => next' > 0)
      BY <2>1, <2>3, Continues DEF Left
    <3>2. TickTyped'
      BY <1>0, <2>1, <2>2, <2>3, <3>1 DEF TickTyped, Left
    <3> QED
      BY <1>a, <2>2, <3>2
  <2>4. ASSUME NEW to \in {"cooldown", "streak", "cluster", "daily", "approval", "arm"}, On(to),
               faults' = faults \/ (faults' = faults + 1 /\ faults < MaxFaults)
        PROVE  Typed'
    <3>1. TickTyped'
      BY <1>0, <2>1, <2>2, <2>4 DEF TickTyped, On
    <3> QED
      BY <1>a, <2>2, <3>1
  <2> QED
    BY <1>3, <2>3, <2>4, GateSteps
<1>4. ASSUME Arm PROVE Typed'
  <2>1. CASE /\ faults < MaxFaults /\ faults' = faults + 1
             /\ at' = "idle" /\ next' = 0 /\ arm' = {} /\ doomed' = {}
             /\ UNCHANGED <<env, setups, armed>>
    <3>1. RowsTyped' /\ Armed' = Armed /\ config' = config
      BY <2>1, KeptRows, RowsStay DEF Closing, env
    <3>2. TickTyped'
      BY <1>0, <1>b, <2>1, <3>1 DEF TickTyped
    <3> QED
      BY <1>a, <3>1, <3>2
  <2>2. ASSUME NEW m \in arm,
               setups' = Append(setups, [cand |-> Cand, mode |-> m, state |-> "open"]),
               arm' = arm \ {m}, armed' = armed + 1, at' = "retire", faults' = faults,
               UNCHANGED <<env, next, doomed>>, at = "arm"
        PROVE  Typed'
    <3>1. m \in config.modes /\ next > 0
      BY <2>2 DEF Typed
    <3>2. /\ setups' \in Seq(Rows) /\ Len(setups') = Len(setups) + 1 /\ Len(setups) \in Nat
          /\ Armed \subseteq Armed' /\ \A i \in Armed : setups'[i] = setups[i]
      BY <2>2, <3>1, ArmedOne, ArmedRows
    <3>3. /\ config' = config /\ old' = old /\ cool' = cool /\ ban' = ban /\ closes' = closes
          /\ Rows' = Rows
      BY <2>2 DEF env, Rows, Cands
    <3>4. \A i \in cool \cup ban : setups'[i].state = "stopped"
      BY <3>2 DEF Typed
    <3>5. RowsTyped'
      BY <1>0, <3>2, <3>3, <3>4 DEF RowsTyped
    <3>6. TickTyped'
      BY <1>0, <2>2, <3>2, <3>3 DEF TickTyped
    <3> QED
      BY <1>a, <3>5, <3>6
  <2> QED
    BY <1>4, <2>1, <2>2 DEF Arm, Fault, Fine
<1>5. ASSUME Retire PROVE Typed'
  <2>1. PICK lost : setups' = Retired(lost)
    BY <1>5 DEF Retire
  <2>2. /\ UNCHANGED <<env, armed>> /\ at = "retire" /\ config' = config
        /\ (faults' = faults \/ (faults' = faults + 1 /\ faults < MaxFaults))
    BY <1>5 DEF Retire, Fine, Fault, env
  <2>3. RowsTyped' /\ Armed' = Armed
    BY <2>1, <2>2, RetiredRows, RowsStay DEF Closing
  <2>4. TickTyped'
    <3>1. CASE at' = "arm" /\ UNCHANGED <<next, arm, doomed>>
      BY <1>0, <2>2, <2>3, <3>1 DEF TickTyped
    <3>2. CASE Continue(armed)
      <4>1. /\ arm' = {} /\ doomed' = {} /\ next' \in 0 .. Len(config.order)
            /\ at' \in {"idle", "dedup"} /\ (at' # "idle" => next' > 0)
        BY <2>2, <3>2, Continues
      <4> QED
        BY <1>0, <2>2, <2>3, <4>1 DEF TickTyped
    <3> QED
      BY <1>5, <3>1, <3>2 DEF Retire
  <2> QED
    BY <1>a, <2>3, <2>4
<1>6. ASSUME /\ at' = "idle" /\ next' = 0 /\ arm' = {} /\ doomed' = {} /\ armed' = armed
             /\ setups' = setups /\ UNCHANGED env /\ faults' = faults + 1 /\ faults < MaxFaults
      PROVE  Typed'
  <2>1. RowsTyped' /\ Armed' = Armed /\ config' = config
    BY <1>6, KeptRows, RowsStay DEF Closing, env
  <2>2. TickTyped'
    BY <1>0, <1>b, <1>6, <2>1 DEF TickTyped
  <2> QED
    BY <1>a, <2>1, <2>2
<1>7. ASSUME UNCHANGED <<config, at, next, arm, doomed, armed, faults>>,
             NEW i \in Armed, Time(i) \/ Close(i, "stopped") \/ Close(i, "closed")
      PROVE  Typed'
  <2>1. Cands' = Cands /\ Rows' = Rows
    BY <1>7 DEF Cands, Rows
  <2>2. RowsTyped' /\ Armed' = Armed
    <3>1. ASSUME NEW how \in {"stopped", "closed"}, Close(i, how) PROVE RowsTyped' /\ Armed' = Armed
      <4>1. /\ setups[i].state = "open" /\ setups' = [setups EXCEPT ![i].state = how]
            /\ closes' = closes + 1 /\ closes < config.closes /\ old' = old
            /\ IF how = "stopped" THEN cool' = cool \cup {i} /\ ban' = ban \cup {i}
                                  ELSE cool' = cool /\ ban' = ban
        BY <3>1 DEF Close, Open
      <4>2. /\ Closing /\ setups'[i].state = how
            /\ \A j \in Armed : j # i => setups'[j] = setups[j]
        BY <1>7, <4>1, ClosedRow
      <4>3. cool' \in SUBSET Armed /\ ban' \in SUBSET Armed
        BY <1>0, <4>1 DEF RowsTyped
      <4>4. \A j \in cool' \cup ban' : setups'[j].state = "stopped"
        <5> SUFFICES ASSUME NEW j \in cool' \cup ban' PROVE setups'[j].state = "stopped"
          OBVIOUS
        <5>1. CASE j \in cool \cup ban
          <6>1. setups[j].state = "stopped" /\ j \in Armed
            BY <1>0, <5>1 DEF RowsTyped
          <6> QED
            BY <4>1, <4>2, <6>1
        <5>2. CASE j = i /\ how = "stopped"
          BY <4>2, <5>2
        <5> QED
          BY <4>1, <5>1, <5>2
      <4>5. closes' \in 0 .. config.closes
        BY <1>0, <1>b, <4>1, Deployed DEF RowsTyped
      <4> QED
        BY <1>0, <1>7, <2>1, <4>1, <4>2, <4>3, <4>4, <4>5 DEF RowsTyped, Closing
    <3>2. ASSUME Time(i) PROVE RowsTyped' /\ Armed' = Armed
      <4>1. setups' = setups /\ closes' = closes /\ Armed' = Armed
        BY <3>2 DEF Time, Armed
      <4>2. cool' \subseteq cool /\ ban' \subseteq ban /\ (old' = old \/ (old' = i /\ i \in Armed))
        BY <1>7, <3>2 DEF Time, Pass15, Pass60, PassDay
      <4>3. Armed = 1 .. Len(setups) /\ Len(setups) \in Nat
        BY ArmedRows
      <4> QED
        BY <1>0, <1>7, <2>1, <4>1, <4>2, <4>3 DEF RowsTyped
    <3> QED
      BY <1>7, <3>1, <3>2
  <2>3. TickTyped'
    BY <1>0, <1>7, <2>2 DEF TickTyped
  <2> QED
    BY <1>a, <2>2, <2>3
<1>8. ASSUME UNCHANGED vars PROVE Typed'
  BY <1>8 DEF vars, env, Typed, Armed, Rows, Cands
<1> QED
  BY <1>1, <1>2, <1>3, <1>4, <1>5, <1>6, <1>7, <1>8, Steps

LEMMA InitTyped == Init => Typed
<1> SUFFICES ASSUME Init PROVE Typed
  OBVIOUS
<1>1. config \in Configs /\ config.closes \in Nat /\ Len(config.order) \in Nat /\ MaxFaults \in Nat
  BY Deployed, AllocatorAssumption DEF Init
<1>2. setups = <<>> /\ setups \in Seq(Rows) /\ Len(setups) = 0
  BY DEF Init
<1> QED
  BY <1>1, <1>2 DEF Init, Typed

LEMMA TypedAlways == Spec => []Typed
BY InitTyped, TypedNext, PTL DEF Spec

\* Every variable keeps its type: the tick is at a candidate when it is anywhere, arms modes
\* the deployment has and retires rows that are there.
THEOREM TypeCorrect == Spec => []TypeOK
<1>1. Typed => TypeOK
  <2> SUFFICES ASSUME Typed PROVE TypeOK
    OBVIOUS
  <2>1. \A i \in Armed : setups[i] \in Rows
    BY ArmedRows
  <2>2. \A i \in Armed : /\ \E k \in DOMAIN config.order : setups[i].cand = config.order[k]
                         /\ setups[i].mode \in config.modes
                         /\ setups[i].state \in {"open", "superseded", "stopped", "closed"}
    BY <2>1 DEF Rows, Cands
  <2>3. cool \cup ban \subseteq {i \in Armed : setups[i].state = "stopped"}
    BY DEF Typed
  <2> QED
    BY <2>2, <2>3 DEF Typed, TypeOK
<1> QED
  BY <1>1, TypedAlways, PTL

---------------------------------------------------------------------------
(* One per slot.                                                           *)

LEMMA SubCard ==
  ASSUME Typed, NEW T \in SUBSET Armed, NEW S \in SUBSET T
  PROVE  Cardinality(S) <= Cardinality(T) /\ Cardinality(S) \in Nat /\ Cardinality(T) \in Nat
BY ArmedRows, FS_Subset

LEMMA PlusOne ==
  ASSUME Typed, NEW T \in SUBSET Armed, NEW e, NEW S \in SUBSET (T \cup {e})
  PROVE  Cardinality(S) <= Cardinality(T) + 1 /\ Cardinality(S) \in Nat /\ Cardinality(T) \in Nat
<1>1. IsFiniteSet(T) /\ Cardinality(T) \in Nat
  BY ArmedRows
<1>2. /\ IsFiniteSet(T \cup {e}) /\ Cardinality(T \cup {e}) \in Nat
      /\ Cardinality(T \cup {e}) <= Cardinality(T) + 1
  BY <1>1, FS_AddElement, FS_CardinalityType
<1>3. IsFiniteSet(S) /\ Cardinality(S) <= Cardinality(T \cup {e}) /\ Cardinality(S) \in Nat
  BY <1>2, FS_Subset, FS_CardinalityType
<1> QED
  BY <1>1, <1>2, <1>3

LEMMA LiveSets ==
  ASSUME Typed
  PROVE  /\ Live \in SUBSET Armed
         /\ \A c, m : In(c, m) \in SUBSET Armed /\ In(c, m) \ doomed \in SUBSET Armed
         /\ \A c : Sided(c) \in SUBSET Armed /\ Cooled(c) \in SUBSET Armed
BY DEF Live, In, Sided, Cooled, Typed

LEMMA Fewer ==
  ASSUME Typed, Closing
  PROVE  /\ Live' \subseteq Live
         /\ \A c, m : In(c, m)' \subseteq In(c, m)
         /\ \A c : Sided(c)' \subseteq Sided(c)
<1>1. Live' \subseteq Live
  BY DEF Closing, Live, Open
<1>2. \A i \in Live' : setups'[i].cand = setups[i].cand /\ setups'[i].mode = setups[i].mode
  BY DEF Closing, Live, Open
<1> QED
  BY <1>1, <1>2 DEF In, Sided, SameSide

\* The watchers and the clock close rows, and do nothing else to them.
LEMMA ClosingWorld ==
  ASSUME Typed, NEW i \in Armed, Time(i) \/ Close(i, "stopped") \/ Close(i, "closed")
  PROVE  Closing
<1>1. ASSUME NEW how \in {"stopped", "closed"}, Close(i, how) PROVE Closing
  <2>1. setups[i].state = "open" /\ setups' = [setups EXCEPT ![i].state = how]
    BY <1>1 DEF Close, Open
  <2> QED
    BY <2>1, ClosedRow
<1>2. ASSUME Time(i) PROVE Closing
  BY <1>2, KeptRows DEF Time
<1> QED
  BY <1>1, <1>2

\* Cand in the next state, as the rigid k it equals.
LEMMA InCand ==
  ASSUME NEW k, Cand' = k
  PROVE  \A m : In(Cand, m)' = In(k, m)'
BY DEF In, SameSide

LEMMA SlottedNext == Typed /\ Slotted /\ [Next]_vars => Slotted'
<1> SUFFICES ASSUME Typed, Slotted, [Next]_vars PROVE Slotted'
  OBVIOUS
<1>0. config' = config /\ Cands' = Cands /\ faults \in Nat
  <2>1. config' = config
    BY Steps, DedupSteps, GateSteps DEF Arm, Retire, env, vars
  <2> QED
    BY <2>1, Deployed DEF Typed, Cands
\* The candidate is left, or none is at hand, and nothing is armed.
<1>1. ASSUME Closing, arm' = {}, doomed' = {}, at' # "retire", faults' \in Nat,
             \/ at # "retire" /\ faults' >= faults
             \/ faults' > faults
             \/ \A c \in Cands, m \in config.modes : In(c, m)' \subseteq In(c, m) \ doomed
                 /\ faults' >= faults
      PROVE  Slotted'
  <2> SUFFICES ASSUME NEW c \in Cands, NEW m \in config.modes
               PROVE  Cardinality(In(c, m)') <= 1 + faults'
    BY <1>0, <1>1 DEF Slotted
  <2>1. /\ In(c, m)' \subseteq In(c, m) /\ In(c, m) \in SUBSET Armed
        /\ In(c, m) \ doomed \in SUBSET Armed
    BY <1>1, Fewer, LiveSets
  <2>2. /\ Cardinality(In(c, m)) <= 1 + faults + (IF at = "retire" THEN 1 ELSE 0)
        /\ Cardinality(In(c, m) \ doomed) <= 1 + faults
    BY DEF Slotted
  <2>3. Cardinality(In(c, m)') <= Cardinality(In(c, m)) /\ Cardinality(In(c, m)') \in Nat
        /\ Cardinality(In(c, m)) \in Nat
    BY <2>1, SubCard
  <2>4. CASE at # "retire" /\ faults' >= faults
    BY <1>0, <1>1, <2>2, <2>3, <2>4
  <2>5. CASE faults' > faults
    BY <1>0, <1>1, <2>2, <2>3, <2>5
  <2>6. CASE In(c, m)' \subseteq In(c, m) \ doomed /\ faults' >= faults
    <3>1. /\ Cardinality(In(c, m)') <= Cardinality(In(c, m) \ doomed)
          /\ Cardinality(In(c, m) \ doomed) \in Nat
      BY <2>1, <2>6, SubCard
    <3> QED
      BY <1>0, <1>1, <2>2, <2>3, <2>6, <3>1
  <2> QED
    BY <1>1, <2>4, <2>5, <2>6
\* The candidate is still at hand, and nothing more is to be armed.
<1>2. ASSUME Closing, UNCHANGED <<next, doomed>>, arm' \subseteq arm, faults' \in Nat, faults' >= faults,
             at # "idle" \/ at' = "idle", at' = "retire" => at = "retire",
             \/ at = "retire" => at' = "retire"
             \/ faults' > faults
             \/ \A c \in Cands, m \in config.modes : In(c, m)' \subseteq In(c, m) \ doomed
      PROVE  Slotted'
  <2>1. Cand' = Cand
    BY <1>0, <1>2 DEF Cand
  <2>2. ASSUME NEW c, NEW m
        PROVE  /\ Cardinality(In(c, m)') <= Cardinality(In(c, m)) /\ Cardinality(In(c, m)') \in Nat
               /\ Cardinality(In(c, m)) \in Nat
               /\ Cardinality(In(c, m)' \ doomed) <= Cardinality(In(c, m) \ doomed)
               /\ Cardinality(In(c, m)' \ doomed) \in Nat
               /\ Cardinality(In(c, m) \ doomed) \in Nat
    <3>1. /\ In(c, m)' \subseteq In(c, m) /\ In(c, m) \in SUBSET Armed
          /\ In(c, m) \ doomed \in SUBSET Armed /\ In(c, m)' \ doomed \subseteq In(c, m) \ doomed
      BY <1>2, Fewer, LiveSets
    <3> QED
      BY <3>1, SubCard
  <2>3. ASSUME NEW c \in Cands, NEW m \in config.modes
        PROVE  /\ Cardinality(In(c, m)') <= 1 + faults' + (IF at' = "retire" THEN 1 ELSE 0)
               /\ Cardinality(In(c, m)' \ doomed) <= 1 + faults'
    <3>1. /\ Cardinality(In(c, m)) <= 1 + faults + (IF at = "retire" THEN 1 ELSE 0)
          /\ Cardinality(In(c, m) \ doomed) <= 1 + faults
      BY DEF Slotted
    <3>2. Cardinality(In(c, m)' \ doomed) <= 1 + faults'
      BY <1>0, <1>2, <2>2, <3>1
    <3>3. CASE (at = "retire" => at' = "retire") \/ faults' > faults
      BY <1>0, <1>2, <2>2, <3>1, <3>2, <3>3
    <3>4. CASE In(c, m)' \subseteq In(c, m) \ doomed
      <4>1. Cardinality(In(c, m)') <= Cardinality(In(c, m) \ doomed)
        BY <3>4, LiveSets, SubCard
      <4> QED
        BY <1>0, <1>2, <2>2, <3>1, <3>2, <4>1
    <3> QED
      BY <1>2, <3>3, <3>4
  <2>4. ASSUME NEW m \in arm', at' # "idle"
        PROVE  Cardinality(In(Cand, m)' \ doomed) <= faults'
    <3>1. m \in arm /\ at # "idle" /\ m \in config.modes /\ Cands # {}
      BY <1>2, <2>4, CandIn DEF Typed
    <3>2. Cardinality(In(Cand, m) \ doomed) <= faults
      BY <3>1 DEF Slotted
    <3>3. /\ Cardinality(In(Cand, m)' \ doomed) <= Cardinality(In(Cand, m) \ doomed)
          /\ Cardinality(In(Cand, m)' \ doomed) \in Nat /\ Cardinality(In(Cand, m) \ doomed) \in Nat
      <4>1. PICK k : k = Cand
        OBVIOUS
      <4>2. In(Cand, m)' = In(k, m)'
        BY <2>1, <4>1, InCand
      <4>3. In(Cand, m) = In(k, m)
        BY <4>1
      <4>4. /\ Cardinality(In(k, m)' \ doomed) <= Cardinality(In(k, m) \ doomed)
            /\ Cardinality(In(k, m)' \ doomed) \in Nat /\ Cardinality(In(k, m) \ doomed) \in Nat
        BY <2>2
      <4> QED
        BY <4>2, <4>3, <4>4
    <3> QED
      BY <1>0, <1>2, <3>2, <3>3
  <2> QED
    BY <1>0, <1>2, <2>1, <2>3, <2>4 DEF Slotted

\* Dedup: whatever is in a mode that is to be armed is to be replaced, if it was read.
<1>3. ASSUME setups' = setups, at = "dedup", at' = "opposing", next' = next,
             NEW blind \in SUBSET config.modes,
             IF blind = {} THEN faults' = faults ELSE faults' = faults + 1 /\ faults < MaxFaults,
             arm' \in SUBSET config.modes, \A m \in arm' \ blind : In(Cand, m) \subseteq doomed'
      PROVE  Slotted'
  <2>1. PICK k : k = Cand /\ k \in Cands
    BY <1>3, CandIn DEF Typed
  <2>2. Cand' = k
    BY <1>0, <1>3, <2>1 DEF Cand
  <2>3. \A c, m : In(c, m)' = In(c, m)
    BY <1>3 DEF In, SameSide, Live, Open, Armed
  <2>4. faults' >= faults /\ faults' \in Nat /\ (blind # {} => faults' = faults + 1)
    BY <1>0, <1>3
  <2>5. ASSUME NEW c \in Cands, NEW m \in config.modes
        PROVE  /\ Cardinality(In(c, m)) <= 1 + faults /\ Cardinality(In(c, m)) \in Nat
               /\ Cardinality(In(c, m) \ doomed') <= 1 + faults'
    <3>1. Cardinality(In(c, m)) <= 1 + faults
      <4>1. Cardinality(In(c, m)) <= 1 + faults + (IF at = "retire" THEN 1 ELSE 0)
        BY DEF Slotted
      <4>2. (IF at = "retire" THEN 1 ELSE 0) = 0
        BY <1>3
      <4> QED
        BY <1>0, <4>1, <4>2
    <3>2. /\ Cardinality(In(c, m) \ doomed') <= Cardinality(In(c, m))
          /\ Cardinality(In(c, m) \ doomed') \in Nat /\ Cardinality(In(c, m)) \in Nat
      BY LiveSets, SubCard
    <3> QED
      BY <1>0, <2>4, <3>1, <3>2
  <2>6. ASSUME NEW m \in arm'
        PROVE  Cardinality(In(k, m) \ doomed') <= faults'
    <3>1. CASE m \in blind
      <4>1. Cardinality(In(k, m)) <= 1 + faults /\ Cardinality(In(k, m)) \in Nat
        BY <1>3, <2>1, <2>5
      <4>2. Cardinality(In(k, m) \ doomed') <= Cardinality(In(k, m)) /\ Cardinality(In(k, m) \ doomed') \in Nat
        BY LiveSets, SubCard
      <4> QED
        BY <1>0, <2>4, <3>1, <4>1, <4>2
    <3>2. CASE m \notin blind
      <4>1. In(k, m) \ doomed' = {}
        BY <1>3, <2>1, <3>2
      <4> QED
        BY <2>4, <4>1, FS_EmptySet
    <3> QED
      BY <3>1, <3>2
  <2>7. \A m : In(Cand, m)' = In(k, m)
    BY <2>2, <2>3, InCand
  <2>8. \A c \in Cands, m \in config.modes :
          /\ Cardinality(In(c, m)) <= 1 + faults' + 0
          /\ Cardinality(In(c, m) \ doomed') <= 1 + faults'
    BY <1>0, <2>4, <2>5
  <2>9. at' # "retire"
    BY <1>3
  <2> QED
    BY <1>0, <2>3, <2>6, <2>7, <2>8, <2>9 DEF Slotted
\* Arm: the slot gets the row its mode was short of.
<1>4. ASSUME NEW m0 \in arm, at = "arm",
             setups' = Append(setups, [cand |-> Cand, mode |-> m0, state |-> "open"]),
             arm' = arm \ {m0}, at' = "retire", UNCHANGED <<next, doomed, faults>>
      PROVE  Slotted'
  <2> DEFINE e == Len(setups) + 1
  <2>1. PICK k : k = Cand /\ k \in Cands
    BY <1>4, CandIn DEF Typed
  <2>2. Cand' = k /\ m0 \in config.modes /\ next > 0
    BY <1>0, <1>4, <2>1 DEF Cand, Typed
  <2>3. /\ Armed' = Armed \cup {e} /\ e \notin Armed
        /\ \A i \in Armed : setups'[i] = setups[i]
        /\ setups'[e] = [cand |-> k, mode |-> m0, state |-> "open"]
    BY <1>4, <2>1, <2>2, ArmedOne
  <2> HIDE DEF e
  <2>4. ASSUME NEW c, NEW m
        PROVE  /\ In(c, m)' \subseteq In(c, m) \cup {e}
               /\ e \in In(c, m)' => m = m0 /\ In(c, m) = In(k, m)
    BY <2>3 DEF In, SameSide, Live, Open
  <2>5. ASSUME NEW c \in Cands, NEW m \in config.modes
        PROVE  /\ Cardinality(In(c, m)') <= 1 + faults + 1
               /\ Cardinality(In(c, m)' \ doomed) <= 1 + faults
    <3>1. Cardinality(In(c, m)) <= 1 + faults /\ Cardinality(In(c, m) \ doomed) <= 1 + faults
      <4>1. /\ Cardinality(In(c, m)) <= 1 + faults + (IF at = "retire" THEN 1 ELSE 0)
            /\ Cardinality(In(c, m) \ doomed) <= 1 + faults
        BY DEF Slotted
      <4>2. (IF at = "retire" THEN 1 ELSE 0) = 0
        BY <1>4
      <4> QED
        BY <1>0, <4>1, <4>2
    <3>2. /\ In(c, m) \in SUBSET Armed /\ In(c, m) \ doomed \in SUBSET Armed
          /\ In(c, m)' \subseteq In(c, m) \cup {e}
          /\ In(c, m)' \ doomed \subseteq (In(c, m) \ doomed) \cup {e}
      BY <2>4, LiveSets
    <3>3. /\ Cardinality(In(c, m)') <= Cardinality(In(c, m)) + 1 /\ Cardinality(In(c, m)') \in Nat
          /\ Cardinality(In(c, m)) \in Nat
          /\ Cardinality(In(c, m)' \ doomed) <= Cardinality(In(c, m) \ doomed) + 1
          /\ Cardinality(In(c, m)' \ doomed) \in Nat /\ Cardinality(In(c, m) \ doomed) \in Nat
      BY <3>2, PlusOne
    <3>4. CASE e \in In(c, m)'
      <4>1. m = m0 /\ In(c, m) = In(k, m0)
        BY <2>4, <3>4
      <4>2. Cardinality(In(Cand, m0) \ doomed) <= faults
        BY <1>4, <2>1, <2>2 DEF Slotted
      <4>3. Cardinality(In(c, m) \ doomed) <= faults
        BY <2>1, <4>1, <4>2
      <4> QED
        BY <1>0, <3>1, <3>3, <4>3
    <3>5. CASE e \notin In(c, m)'
      <4>1. In(c, m)' \ doomed \subseteq In(c, m) \ doomed
        BY <3>2, <3>5
      <4>2. Cardinality(In(c, m)' \ doomed) <= Cardinality(In(c, m) \ doomed)
        BY <3>2, <4>1, SubCard
      <4> QED
        BY <1>0, <3>1, <3>3, <4>2
    <3> QED
      BY <3>4, <3>5
  <2>6. ASSUME NEW m \in arm' PROVE Cardinality(In(Cand, m)' \ doomed) <= faults
    <3>1. m # m0 /\ m \in arm /\ m \in config.modes
      BY <1>4, <2>6 DEF Typed
    <3>2. In(Cand, m)' = In(k, m)'
      BY <2>2, InCand
    <3>3. In(k, m)' \subseteq In(k, m)
      BY <2>4, <3>1
    <3>4. Cardinality(In(Cand, m) \ doomed) <= faults
      BY <1>4, <2>1, <3>1 DEF Slotted
    <3>5. /\ Cardinality(In(k, m)' \ doomed) <= Cardinality(In(k, m) \ doomed)
          /\ Cardinality(In(k, m)' \ doomed) \in Nat /\ Cardinality(In(k, m) \ doomed) \in Nat
      <4>1. In(k, m)' \ doomed \subseteq In(k, m) \ doomed /\ In(k, m) \ doomed \in SUBSET Armed
        BY <3>3, LiveSets
      <4> QED
        BY <4>1, SubCard
    <3>6. Cardinality(In(k, m) \ doomed) <= faults
      BY <2>1, <3>4
    <3> QED
      BY <1>0, <3>2, <3>5, <3>6
  <2> QED
    BY <1>0, <1>4, <2>5, <2>6 DEF Slotted
\* Retire: what is retired leaves its slot.
<1>5. ASSUME NEW lost, setups' = Retired(lost), faults' = faults, lost = {}
      PROVE  Closing /\ \A c, m : In(c, m)' \subseteq In(c, m) \ doomed
  <2>1. /\ Closing
        /\ \A i \in Armed : setups'[i].state = IF i \in doomed \ lost /\ Open(i) THEN "superseded"
                                               ELSE setups[i].state
    BY <1>5, RetiredRows
  <2>2. \A i \in Live' : i \in Live /\ i \notin doomed
    BY <1>5, <2>1 DEF Live, Open, Closing
  <2>3. \A c, m : In(c, m)' \subseteq In(c, m) /\ In(c, m)' \subseteq Live'
    BY <2>1, Fewer DEF In
  <2> QED
    BY <2>1, <2>2, <2>3
<1>6. ASSUME Retire PROVE Slotted'
  <2>1. at = "retire" /\ faults' \in Nat
    <3>1. faults' = faults \/ faults' = faults + 1
      BY <1>6 DEF Retire, Fine, Fault
    <3> QED
      BY <1>0, <1>6, <3>1 DEF Retire
  <2>2. /\ Closing /\ faults' >= faults
        /\ \/ faults' > faults
           \/ \A c \in Cands, m \in config.modes : In(c, m)' \subseteq In(c, m) \ doomed
    <3>1. CASE setups' = Retired({}) /\ Fine
      <4>1. Closing /\ \A c, m : In(c, m)' \subseteq In(c, m) \ doomed
        BY <1>5, <3>1 DEF Fine
      <4> QED
        BY <1>0, <3>1, <4>1 DEF Fine
    <3>2. CASE \E i \in doomed : setups' = Retired({i}) /\ Fault("retire")
      BY <1>0, <3>2, RetiredRows DEF Fault
    <3> QED
      BY <1>6, <3>1, <3>2 DEF Retire
  <2>3. CASE at' = "arm" /\ UNCHANGED <<next, arm, doomed>>
    BY <1>2, <2>1, <2>2, <2>3
  <2>4. CASE Continue(armed)
    <3>1. arm' = {} /\ doomed' = {} /\ at' # "retire"
      BY <2>1, <2>4, Continues
    <3> QED
      BY <1>1, <2>1, <2>2, <3>1
  <2> QED
    BY <1>6, <2>3, <2>4 DEF Retire
<1>7. ASSUME NEW i \in Armed, Time(i) \/ Close(i, "stopped") \/ Close(i, "closed"),
             UNCHANGED <<config, at, next, arm, doomed, armed, faults>>
      PROVE  Slotted'
  <2>1. Closing
    BY <1>7, ClosingWorld
  <2> QED
    BY <1>0, <1>2, <1>7, <2>1
<1>8. CASE UNCHANGED vars
  <2>1. Closing
    BY <1>8, KeptRows DEF vars
  <2> QED
    BY <1>0, <1>2, <1>8, <2>1 DEF vars
<1>9. CASE Dedup
  <2>1. setups' = setups /\ at = "dedup" /\ Closing
    BY <1>9, DedupSteps, KeptRows
  <2>2. CASE Continue(armed) /\ (faults' = faults \/ (faults' = faults + 1 /\ faults < MaxFaults))
    <3>1. arm' = {} /\ doomed' = {} /\ at' # "retire"
      BY <2>1, <2>2, Continues
    <3> QED
      BY <1>0, <1>1, <2>1, <2>2, <3>1
  <2> QED
    BY <1>3, <1>9, <2>1, <2>2, DedupSteps
<1>10. CASE Opposing \/ Cooldown \/ LossStreak \/ Cluster \/ Daily \/ Approval
  <2>1. setups' = setups /\ at \in Gates /\ at # "idle" /\ at # "retire" /\ Closing
    BY <1>10, GateSteps, KeptRows DEF Gates
  <2>2. CASE Left
    <3>1. arm' = {} /\ doomed' = {} /\ at' # "retire" /\ faults' = faults
      BY <2>1, <2>2, Continues DEF Left
    <3> QED
      BY <1>0, <1>1, <2>1, <3>1
  <2>3. ASSUME NEW to \in {"cooldown", "streak", "cluster", "daily", "approval", "arm"}, On(to),
               faults' = faults \/ (faults' = faults + 1 /\ faults < MaxFaults)
        PROVE  Slotted'
    <3>1. UNCHANGED <<next, doomed>> /\ arm' = arm /\ at' # "retire"
          /\ faults' \in Nat /\ faults' >= faults
      BY <1>0, <2>3 DEF On
    <3> QED
      BY <1>2, <2>1, <3>1
  <2> QED
    BY <1>10, <2>2, <2>3, GateSteps
<1>11. CASE Arm
  <2>1. CASE /\ faults < MaxFaults /\ faults' = faults + 1
             /\ at' = "idle" /\ next' = 0 /\ arm' = {} /\ doomed' = {}
             /\ UNCHANGED <<env, setups, armed>>
    <3>1. Closing /\ faults' \in Nat /\ faults' > faults
      BY <1>0, <2>1, KeptRows
    <3> QED
      BY <1>1, <2>1, <3>1
  <2> QED
    BY <1>4, <1>11, <2>1 DEF Arm, Fault, Fine
<1>12. CASE /\ at' = "idle" /\ next' = 0 /\ arm' = {} /\ doomed' = {} /\ armed' = armed
            /\ setups' = setups /\ UNCHANGED env /\ faults' = faults + 1 /\ faults < MaxFaults
  <2>1. Closing /\ faults' \in Nat /\ faults' > faults
    BY <1>0, <1>12, KeptRows
  <2> QED
    BY <1>1, <1>12, <2>1
<1>13. CASE /\ at = "idle" /\ at' = "dedup" /\ setups' = setups /\ UNCHANGED <<env, arm, doomed, faults>>
  <2>1. Closing /\ arm' = {} /\ doomed' = {}
    BY <1>13, KeptRows DEF Typed
  <2> QED
    BY <1>0, <1>1, <1>13, <2>1
<1> QED
  BY <1>6, <1>7, <1>8, <1>9, <1>10, <1>11, <1>12, <1>13, Steps

---------------------------------------------------------------------------
(* As long as nothing fails.                                               *)

\* The steps of a behaviour in which nothing has failed yet.
Away == /\ arm' = {} /\ doomed' = {} /\ at' \in {"idle", "dedup"} /\ UNCHANGED env
        /\ armed' \in {0, armed} /\ (at' = "dedup" => armed' < config.tick)
Turns == /\ Away /\ setups' = setups /\ at \notin {"arm", "retire"}
Takes == /\ at = "dedup" /\ at' = "opposing" /\ next' = next /\ armed' = armed /\ setups' = setups
         /\ UNCHANGED env
         /\ arm' \in SUBSET config.modes /\ doomed' \in SUBSET Live
         /\ \A i \in doomed' : SameSide(i, Cand) /\ ~Holds(i, Cand) /\ setups[i].mode \in config.modes
         /\ \A m \in config.modes \ arm' : \E i \in In(Cand, m) : Holds(i, Cand)
Passes(here, there) == at = here /\ On(there) /\ setups' = setups /\ UNCHANGED env
Arms(m) == /\ at = "arm" /\ m \in arm /\ at' = "retire"
           /\ setups' = Append(setups, [cand |-> Cand, mode |-> m, state |-> "open"])
           /\ arm' = arm \ {m} /\ armed' = armed + 1 /\ UNCHANGED <<env, next, doomed>>
Retires == /\ at = "retire" /\ setups' = Retired({}) /\ armed' = armed /\ UNCHANGED env
           /\ \/ at' = "arm" /\ UNCHANGED <<next, arm, doomed>>
              \/ Away /\ arm = {}
World(i) == /\ UNCHANGED <<config, at, next, arm, doomed, armed>>
            /\ Time(i) \/ Close(i, "stopped") \/ Close(i, "closed")

LEMMA CleanSteps ==
  ASSUME Typed, [Next]_vars, faults' = 0
  PROVE  /\ faults = 0 /\ config' = config
         /\ \/ Turns
            \/ Takes
            \/ Passes("opposing", "cooldown") /\ ~Opposed(Cand)
            \/ Passes("cooldown", "streak") /\ ~Cooling(Cand)
            \/ Passes("streak", "cluster")
            \/ Passes("cluster", "daily") /\ ~Clustered(Cand)
            \/ Passes("daily", "approval") /\ ~ArmedToday
            \/ Passes("approval", "arm")
            \/ \E m \in config.modes : Arms(m)
            \/ Retires
            \/ \E i \in Armed : World(i)
            \/ UNCHANGED vars
<1>0. faults \in Nat /\ ~(faults' = faults + 1)
  <2>1. faults \in Nat
    BY AllocatorAssumption DEF Typed
  <2> QED
    BY <2>1
<1>t. config.tick \in Nat /\ config.tick > 0 /\ armed \in Nat
  BY Deployed DEF Typed
<1>c. ASSUME Continue(armed), at # "idle", armed' = armed
      PROVE  /\ arm' = {} /\ doomed' = {} /\ at' \in {"idle", "dedup"}
             /\ armed' \in {0, armed} /\ (at' = "dedup" => armed' < config.tick)
  <2>1. /\ arm' = {} /\ doomed' = {} /\ at' \in {"idle", "dedup"}
        /\ at' = "dedup" => ~TickFull(armed)
    BY <1>c, Continues
  <2>2. ~TickFull(armed) => armed < config.tick
    BY <1>t DEF TickFull
  <2> QED
    BY <1>c, <2>1, <2>2
<1>1. CASE /\ at = "idle" /\ at' = "dedup" /\ next' = 1 /\ armed' = 0 /\ setups' = setups
           /\ UNCHANGED <<env, arm, doomed, faults>>
  <2>1. armed' < config.tick
    BY <1>1, <1>t
  <2> QED
    BY <1>1, <2>1 DEF Turns, Away, Typed, env
<1>2. CASE Dedup
  <2>1. at = "dedup" /\ setups' = setups /\ UNCHANGED env /\ config' = config
    BY <1>2, DedupSteps DEF env
  <2>2. CASE Continue(armed) /\ armed' = armed /\ faults' = faults
    BY <1>c, <2>1, <2>2 DEF Turns, Away
  <2>3. ASSUME NEW blind \in SUBSET config.modes,
               at' = "opposing", next' = next, armed' = armed, arm' \in SUBSET config.modes,
               IF blind = {} THEN faults' = faults ELSE faults' = faults + 1 /\ faults < MaxFaults,
               doomed' \in SUBSET Live,
               \A i \in doomed' : /\ SameSide(i, Cand) /\ ~Holds(i, Cand)
                                  /\ setups[i].mode \in config.modes \ blind,
               \A m \in config.modes \ arm' : \E i \in In(Cand, m) : Holds(i, Cand)
        PROVE  Takes /\ faults' = faults
    <3>1. blind = {} /\ faults' = faults
      BY <1>0, <2>3
    <3>2. \A i \in doomed' : SameSide(i, Cand) /\ ~Holds(i, Cand) /\ setups[i].mode \in config.modes
      BY <2>3
    <3> QED
      BY <2>1, <2>3, <3>1, <3>2 DEF Takes
  <2> QED
    BY <1>0, <1>2, <2>1, <2>2, <2>3, DedupSteps
<1>3. CASE Opposing \/ Cooldown \/ LossStreak \/ Cluster \/ Daily \/ Approval
  <2>1. setups' = setups /\ UNCHANGED env /\ at \in Gates /\ config' = config
    BY <1>3, GateSteps DEF env
  <2>2. CASE Left
    BY <1>c, <2>1, <2>2 DEF Turns, Away, Left, Gates
  <2> QED
    BY <1>0, <1>3, <2>1, <2>2, GateSteps DEF Passes, Left
<1>4. CASE Arm
  <2>1. PICK m \in arm : Arms(m) /\ faults' = faults
    BY <1>0, <1>4 DEF Arm, Arms, Fault, Fine
  <2>2. m \in config.modes /\ config' = config
    BY <2>1 DEF Typed, Arms, env
  <2> QED
    BY <2>1, <2>2
<1>5. CASE Retire
  <2>1. setups' = Retired({}) /\ faults' = faults
    BY <1>0, <1>5 DEF Retire, Fault, Fine
  <2>2. at = "retire" /\ UNCHANGED <<env, armed>> /\ config' = config
    BY <1>5 DEF Retire, env
  <2>3. CASE at' = "arm" /\ UNCHANGED <<next, arm, doomed>>
    BY <2>1, <2>2, <2>3 DEF Retires
  <2>4. CASE arm = {} /\ Continue(armed)
    BY <1>c, <2>1, <2>2, <2>4 DEF Retires, Away
  <2> QED
    BY <1>5, <2>1, <2>2, <2>3, <2>4 DEF Retire
<1>6. CASE /\ UNCHANGED <<config, at, next, arm, doomed, armed, faults>>
           /\ \E i \in Armed : Time(i) \/ Close(i, "stopped") \/ Close(i, "closed")
  BY <1>6 DEF World
<1>7. CASE UNCHANGED vars
  BY <1>7 DEF vars, env
<1> QED
  BY <1>0, <1>1, <1>2, <1>3, <1>4, <1>5, <1>6, <1>7, Steps

\* The tick's hands do not touch the rows, or close some, but for an insert.
LEMMA CleanCloses ==
  ASSUME Typed, Turns \/ Takes \/ (\E h, t : Passes(h, t)) \/ Retires
                \/ (\E i \in Armed : World(i)) \/ UNCHANGED vars
  PROVE  Closing
<1>1. CASE setups' = setups
  BY <1>1, KeptRows
<1>2. CASE Retires
  BY <1>2, RetiredRows DEF Retires
<1>3. ASSUME NEW i \in Armed, World(i) PROVE Closing
  BY <1>3, ClosingWorld DEF World
<1> QED
  BY <1>1, <1>2, <1>3 DEF Turns, Takes, Passes, vars

LEMMA OpposedLater ==
  ASSUME Typed, Closing, NEW k
  PROVE  Opposed(k)' => Opposed(k)
<1>1. Live' \subseteq Live /\ \A i \in Live' : setups'[i].cand = setups[i].cand
  BY Fewer DEF Closing, Live
<1> QED
  BY <1>1 DEF Opposed, SameSide

LEMMA OpposedCand ==
  ASSUME NEW k, Cand' = k
  PROVE  Opposed(Cand)' = Opposed(k)'
BY DEF Opposed, SameSide

LEMMA OneSidedNext == Typed /\ OneSided /\ [Next]_vars => OneSided'
<1> SUFFICES ASSUME Typed, OneSided, [Next]_vars, faults' = 0
             PROVE  /\ \A i, j \in Live' : setups'[i].cand.symbol = setups'[j].cand.symbol
                                             => SameSide(i, setups[j].cand)'
                    /\ PastOpposing' => ~Opposed(Cand)'
  BY DEF OneSided
<1> DEFINE Even == \A i, j \in Live' : setups'[i].cand.symbol = setups'[j].cand.symbol
                                         => SameSide(i, setups[j].cand)'
<1>1. /\ faults = 0 /\ config' = config
      /\ \A i, j \in Live : setups[i].cand.symbol = setups[j].cand.symbol => SameSide(i, setups[j].cand)
      /\ PastOpposing => ~Opposed(Cand)
  BY CleanSteps DEF OneSided
<1>2. ASSUME Closing PROVE Even
  <2>1. Live' \subseteq Live /\ \A i \in Live' : setups'[i].cand = setups[i].cand
    BY <1>2, Fewer DEF Closing, Live
  <2> QED
    BY <1>1, <2>1 DEF SameSide
<1>3. ASSUME Closing, Cand' = Cand, ~Opposed(Cand) PROVE ~Opposed(Cand)'
  <2>1. PICK k : k = Cand
    OBVIOUS
  <2>2. Opposed(k)' => Opposed(k)
    BY <1>3, OpposedLater
  <2>3. Opposed(Cand)' = Opposed(k)'
    BY <1>3, <2>1, OpposedCand
  <2> QED
    BY <1>3, <2>1, <2>2, <2>3
<1>4. ASSUME NEW m \in config.modes, Arms(m) PROVE Even /\ ~Opposed(Cand)'
  <2> DEFINE e == Len(setups) + 1
  <2>1. PICK k : k = Cand
    OBVIOUS
  <2>2. Cand' = k /\ next > 0 /\ ~Opposed(k) /\ Armed = 1 .. Len(setups)
    BY <1>1, <1>4, <2>1, ArmedRows DEF Cand, Typed, Arms, PastOpposing
  <2>3. /\ Armed' = Armed \cup {e} /\ \A i \in Armed : setups'[i] = setups[i]
        /\ setups'[e] = [cand |-> k, mode |-> m, state |-> "open"]
    BY <1>4, <2>1, <2>2, ArmedOne DEF Arms
  <2> HIDE DEF e
  <2>4. \A i \in Live' : (i \in Live /\ setups'[i] = setups[i]) \/ setups'[i].cand = k
    BY <2>3 DEF Live, Open
  <2>5. \A i \in Live : setups[i].cand.symbol = k.symbol => setups[i].cand.direction = k.direction
    BY <2>2 DEF Opposed, SameSide
  <2>6. Even
    BY <1>1, <2>4, <2>5 DEF SameSide
  <2>7. ~Opposed(k)'
    BY <2>4, <2>5 DEF Opposed, SameSide
  <2> QED
    BY <2>2, <2>6, <2>7, OpposedCand
<1> HIDE DEF Even
<1>5. CASE Turns \/ Takes
  <2>1. ~PastOpposing'
    BY <1>5 DEF Turns, Away, Takes, PastOpposing
  <2> QED
    BY <1>2, <1>5, <2>1, CleanCloses DEF Even
<1>6. ASSUME NEW h, NEW t, Passes(h, t), ~Opposed(Cand) \/ (PastOpposing' => PastOpposing)
      PROVE  Even /\ (PastOpposing' => ~Opposed(Cand)')
  <2>1. Closing /\ Cand' = Cand
    BY <1>1, <1>6, CleanCloses DEF Passes, On, Cand
  <2> QED
    BY <1>1, <1>2, <1>3, <1>6, <2>1
<1>7. CASE Retires
  <2>1. Closing /\ PastOpposing
    BY <1>7, CleanCloses DEF Retires, PastOpposing
  <2>2. ASSUME PastOpposing' PROVE Cand' = Cand
    BY <1>1, <1>7, <2>2 DEF Retires, Away, PastOpposing, Cand
  <2> QED
    BY <1>1, <1>2, <1>3, <2>1, <2>2 DEF Even
<1>8. CASE (\E i \in Armed : World(i)) \/ UNCHANGED vars
  <2>1. Closing
    BY <1>8, CleanCloses
  <2>2. Cand' = Cand /\ at' = at
    BY <1>1, <1>8 DEF World, vars, Cand
  <2>3. PastOpposing' => PastOpposing
    BY <2>2 DEF PastOpposing
  <2> QED
    BY <1>1, <1>2, <1>3, <2>1, <2>2, <2>3 DEF Even
<1> QED
  <2>1. CASE Passes("opposing", "cooldown") /\ ~Opposed(Cand)
    BY <1>6, <2>1 DEF Even
  <2>2. CASE Passes("cooldown", "streak") \/ Passes("streak", "cluster") \/ Passes("cluster", "daily")
             \/ Passes("daily", "approval") \/ Passes("approval", "arm")
    <3>1. PastOpposing
      BY <2>2 DEF Passes, PastOpposing
    <3> QED
      BY <1>6, <2>2, <3>1 DEF Even
  <2> QED
    BY <1>4, <1>5, <1>7, <1>8, <2>1, <2>2, CleanSteps DEF Even

\* One open setup per symbol, side and mode, and one more per failure; and as long as nothing
\* fails no symbol has both sides.
THEOREM OnePerSlotHolds == Spec => []OnePerSlot
<1>1. Init => Slotted /\ OneSided
  <2> SUFFICES ASSUME Init PROVE Slotted /\ OneSided
    OBVIOUS
  <2>1. Live = {} /\ at = "idle" /\ faults = 0
    BY DEF Init, Live, Armed, Open
  <2>2. \A c, m : In(c, m) = {} /\ In(c, m) \ doomed = {}
    BY <2>1 DEF In
  <2>3. \A c, m : Cardinality(In(c, m)) = 0 /\ Cardinality(In(c, m) \ doomed) = 0
    BY <2>2, FS_EmptySet
  <2>4. (IF at = "retire" THEN 1 ELSE 0) = 0
    BY <2>1
  <2> QED
    BY <2>1, <2>3, <2>4 DEF Slotted, OneSided, PastOpposing
<1>2. Typed /\ Slotted /\ OneSided => OnePerSlot
  <2> SUFFICES ASSUME Typed, Slotted, OneSided PROVE OnePerSlot
    OBVIOUS
  <2>1. ASSUME NEW i \in Standing
        PROVE  Cardinality({j \in Standing : Slot(j, i)}) <= 1 + faults
    <3>1. i \in Armed /\ setups[i].cand \in Cands /\ setups[i].mode \in config.modes
      BY <2>1, ArmedRows DEF Standing, Live, Rows
    <3>2. {j \in Standing : Slot(j, i)} = In(setups[i].cand, setups[i].mode) \ doomed
      BY DEF Standing, Slot, In, SameSide
    <3> QED
      BY <3>1, <3>2 DEF Slotted
  <2> QED
    BY <2>1 DEF OnePerSlot, OneSided
<1> QED
  BY <1>1, <1>2, SlottedNext, OneSidedNext, InitTyped, TypedNext, PTL DEF Spec

---------------------------------------------------------------------------
(* Supersede-on-success.                                                   *)

LEMMA OneAtMost ==
  ASSUME NEW S, IsFiniteSet(S), Cardinality(S) <= 1, NEW i \in S, NEW j \in S
  PROVE  i = j
<1> SUFFICES ASSUME i # j PROVE FALSE
  OBVIOUS
<1>1. IsFiniteSet(S \ {i}) /\ Cardinality(S \ {i}) = Cardinality(S) - 1 /\ Cardinality(S) \in Nat
  BY FS_RemoveElement, FS_CardinalityType
<1>2. Cardinality(S \ {i}) \in Nat
  BY <1>1, FS_CardinalityType
<1>3. Cardinality(S \ {i}) = 0
  BY <1>1, <1>2
<1>4. S \ {i} = {}
  BY <1>1, <1>3, FS_EmptySet
<1> QED
  BY <1>4

\* Two open setups in a slot are one, where nothing has failed and none is being replaced.
LEMMA Alone ==
  ASSUME Typed, Slotted, faults = 0, at # "retire", NEW i \in Live, NEW j \in Live, Slot(i, j)
  PROVE  i = j
<1>1. setups[j].cand \in Cands /\ setups[j].mode \in config.modes
  BY ArmedRows DEF Live, Rows
<1> DEFINE S == In(setups[j].cand, setups[j].mode)
<1>2. Cardinality(S) <= 1 + faults + (IF at = "retire" THEN 1 ELSE 0)
  BY <1>1 DEF Slotted
<1>3. (IF at = "retire" THEN 1 ELSE 0) = 0
  OBVIOUS
<1>4. IsFiniteSet(S) /\ Cardinality(S) \in Nat
  BY LiveSets, ArmedRows
<1>5. i \in S /\ j \in S
  BY DEF In, Slot, SameSide
<1> HIDE DEF S
<1>6. Cardinality(S) <= 1
  BY <1>2, <1>3, <1>4
<1> QED
  BY <1>4, <1>5, <1>6, OneAtMost

\* What has been replaced stays so.
LEMMA ReplacedStays ==
  ASSUME Typed, Armed \subseteq Armed',
         \A i \in Armed : setups'[i].cand = setups[i].cand /\ setups'[i].mode = setups[i].mode,
         NEW i \in Armed, Replaced(i)
  PROVE  Replaced(i)'
BY DEF Replaced, Slot, SameSide

LEMMA ReplacingNext == Typed /\ Slotted /\ Replacing /\ [Next]_vars => Replacing'
<1> DEFINE Lower(i) == /\ setups'[i].cand.symbol = Cand'.symbol /\ setups'[i].cand.direction = Cand'.direction
                       /\ setups'[i].cand.tf < Cand'.tf
                       /\ setups'[i].mode \in arm' \/ Replaced(i)'
           Good == /\ \A i \in doomed' : Lower(i)
                   /\ \A i \in Armed' : setups'[i].state = "superseded" => i \in doomed' \/ Replaced(i)'
                   /\ \A i, j \in doomed' : Slot(i, j)' => i = j
                   /\ at' \notin {"arm", "retire"} => \A i \in doomed' : setups'[i].state # "superseded"
<1>a. Good => Replacing'
  BY DEF Replacing, SameSide
<1> SUFFICES ASSUME Typed, Slotted, Replacing, [Next]_vars, faults' = 0
             PROVE  Good
  BY <1>a DEF Replacing
<1>1. /\ faults = 0 /\ config' = config
      /\ \A i \in doomed : /\ SameSide(i, Cand) /\ setups[i].cand.tf < Cand.tf
                           /\ setups[i].mode \in arm \/ Replaced(i)
      /\ \A i \in Armed : setups[i].state = "superseded" => i \in doomed \/ Replaced(i)
      /\ \A i, j \in doomed : Slot(i, j) => i = j
      /\ at \notin {"arm", "retire"} => \A i \in doomed : setups[i].state # "superseded"
      /\ doomed \in SUBSET Armed
  BY CleanSteps DEF Replacing, Typed
<1>2. ASSUME Closing
      PROVE  /\ Armed' = Armed
             /\ \A i \in Armed : setups'[i].cand = setups[i].cand /\ setups'[i].mode = setups[i].mode
             /\ \A i \in Armed : Replaced(i) => Replaced(i)'
  BY <1>2, ReplacedStays DEF Closing
\* The candidate is left: everything it was to replace and did retire has been replaced.
<1>3. ASSUME Closing, doomed' = {},
             \A i \in Armed : setups'[i].state = "superseded" => Replaced(i)
      PROVE  Good
  BY <1>2, <1>3
<1>4. ASSUME Closing, Cand' = Cand, UNCHANGED <<doomed, arm>>,
             \A i \in Armed : setups'[i].state = "superseded" => setups[i].state = "superseded" \/ i \in doomed,
             at' \notin {"arm", "retire"} => at \notin {"arm", "retire"}
                                             /\ \A i \in Armed : setups'[i].state = "superseded"
                                                                   => setups[i].state = "superseded"
      PROVE  Good
  <2>1. \A i \in doomed' : Lower(i)
    BY <1>1, <1>2, <1>4 DEF SameSide
  <2>2. \A i \in Armed' : setups'[i].state = "superseded" => i \in doomed' \/ Replaced(i)'
    BY <1>1, <1>2, <1>4
  <2>3. \A i, j \in doomed' : Slot(i, j)' => i = j
    BY <1>1, <1>2, <1>4 DEF Slot, SameSide
  <2>4. at' \notin {"arm", "retire"} => \A i \in doomed' : setups'[i].state # "superseded"
    BY <1>1, <1>4
  <2> QED
    BY <2>1, <2>2, <2>3, <2>4
<1>5. CASE Turns
  <2>1. Closing /\ setups' = setups /\ doomed' = {} /\ at \notin {"arm", "retire"}
    BY <1>5, CleanCloses DEF Turns, Away
  <2> HIDE DEF Good
  <2> QED
    BY <1>1, <1>3, <2>1
<1>6. CASE Takes
  <2>1. Closing /\ Cand' = Cand /\ next > 0 /\ at = "dedup" /\ doomed = {}
    BY <1>1, <1>6, CleanCloses DEF Takes, Cand, Typed
  <2>2. \A i \in doomed' : i \in Live /\ i \in Armed /\ setups[i].state = "open"
    BY <1>6 DEF Takes, Live, Open
  <2>3. ASSUME NEW i \in doomed' PROVE Lower(i)
    <3>1. SameSide(i, Cand) /\ ~Holds(i, Cand) /\ setups[i].mode \in config.modes
      BY <1>6 DEF Takes
    <3>2. setups[i].cand.tf \in Nat /\ Cand.tf \in Nat
      BY <2>1, <2>2, ArmedRows, CandIn, Deployed DEF Typed, Rows
    <3>3. setups[i].cand.tf < Cand.tf
      BY <3>1, <3>2 DEF Holds
    <3>4. setups[i].mode \in arm'
      <4> SUFFICES ASSUME setups[i].mode \notin arm' PROVE FALSE
        OBVIOUS
      <4>1. PICK j \in In(Cand, setups[i].mode) : Holds(j, Cand)
        BY <1>6, <3>1 DEF Takes
      <4>2. j \in Live /\ Slot(j, i)
        BY <3>1, <4>1 DEF In, Slot, SameSide
      <4>3. j = i
        BY <1>1, <2>1, <2>2, <4>2, Alone
      <4> QED
        BY <3>1, <4>1, <4>3
    <3> QED
      BY <1>2, <2>1, <2>2, <3>1, <3>3, <3>4 DEF SameSide
  <2>4. \A i \in Armed' : setups'[i].state = "superseded" => i \in doomed' \/ Replaced(i)'
    BY <1>1, <1>2, <1>6, <2>1 DEF Takes
  <2>5. ASSUME NEW i \in doomed', NEW j \in doomed', Slot(i, j)' PROVE i = j
    <3>1. Slot(i, j)
      BY <1>2, <2>1, <2>2, <2>5 DEF Slot, SameSide
    <3> QED
      BY <1>1, <2>1, <2>2, <3>1, Alone
  <2>6. \A i \in doomed' : setups'[i].state # "superseded"
    BY <1>6, <2>2 DEF Takes
  <2> HIDE DEF Lower
  <2> QED
    BY <2>3, <2>4, <2>5, <2>6
<1>7. ASSUME NEW h, NEW t, Passes(h, t), at \notin {"arm", "retire"} PROVE Good
  <2>1. Closing /\ Cand' = Cand /\ UNCHANGED <<doomed, arm>> /\ setups' = setups
    BY <1>1, <1>7, CleanCloses DEF Passes, On, Cand
  <2> HIDE DEF Good
  <2> QED
    BY <1>4, <1>7, <2>1
\* Arm: the new row replaces what is to be retired in its mode.
<1>8. ASSUME NEW m \in config.modes, Arms(m) PROVE Good
  <2>0. PICK e \in Nat : e = Len(setups) + 1
    BY ArmedRows
  <2>1. /\ Cand' = Cand /\ next > 0 /\ Armed = 1 .. Len(setups) /\ Len(setups) \in Nat
        /\ doomed' = doomed /\ arm' = arm \ {m} /\ at' = "retire"
    BY <1>1, <1>8, ArmedRows DEF Cand, Typed, Arms
  <2>2. /\ Armed' = Armed \cup {e} /\ \A i \in Armed : setups'[i] = setups[i]
        /\ setups'[e] = [cand |-> Cand, mode |-> m, state |-> "open"]
    BY <1>8, <2>0, <2>1, ArmedOne DEF Arms
  <2>3. \A i \in Armed : i < e
    BY <2>0, <2>1
  <2>4. \A i \in Armed : Replaced(i) => Replaced(i)'
    BY <2>2, ReplacedStays
  <2>5. ASSUME NEW i \in doomed' PROVE Lower(i)
    <3>1. /\ i \in Armed /\ SameSide(i, Cand) /\ setups[i].cand.tf < Cand.tf
          /\ setups[i].mode \in arm \/ Replaced(i)
      BY <1>1, <2>1, <2>5
    <3>2. CASE setups[i].mode = m
      <4>1. e \in Armed' /\ e > i /\ Slot(e, i)' /\ setups'[e].cand.tf > setups'[i].cand.tf
        <5>1. e \in Armed' /\ i < e /\ setups'[i] = setups[i] /\ setups'[e].cand = Cand /\ setups'[e].mode = m
          BY <2>2, <2>3, <3>1
        <5>2. setups'[i].cand.tf < Cand.tf /\ Cand.tf \in Nat /\ setups'[i].cand.tf \in Nat /\ e \in Nat /\ i \in Nat
          <6>1. Cand.tf \in Nat /\ setups[i].cand.tf \in Nat
            BY <2>1, <3>1, ArmedRows, CandIn, Deployed DEF Typed, Rows
          <6> QED
            BY <2>0, <2>1, <3>1, <5>1, <6>1
        <5>3. Slot(e, i)'
          BY <3>1, <3>2, <5>1 DEF Slot, SameSide
        <5> QED
          BY <5>1, <5>2, <5>3
      <4>2. Replaced(i)'
        BY <4>1 DEF Replaced
      <4> QED
        BY <2>1, <2>2, <3>1, <4>2 DEF SameSide
    <3>3. CASE setups[i].mode # m
      BY <2>1, <2>2, <2>4, <3>1, <3>3 DEF SameSide
    <3> QED
      BY <3>2, <3>3
  <2>6. \A i \in Armed' : setups'[i].state = "superseded" => i \in doomed' \/ Replaced(i)'
    BY <1>1, <2>1, <2>2, <2>4
  <2>7. \A i, j \in doomed' : Slot(i, j)' => i = j
    BY <1>1, <2>1, <2>2 DEF Slot, SameSide
  <2>8. at' = "retire"
    BY <2>1
  <2> HIDE DEF Lower
  <2> QED
    BY <2>5, <2>6, <2>7, <2>8
<1>9. CASE Retires
  <2>1. /\ Closing
        /\ \A i \in Armed : setups'[i].state = IF i \in doomed \ {} /\ Open(i) THEN "superseded"
                                               ELSE setups[i].state
    BY <1>9, RetiredRows DEF Retires
  <2>2. \A i \in Armed : setups'[i].state = "superseded" => setups[i].state = "superseded" \/ i \in doomed
    BY <2>1
  <2>3. CASE at' = "arm" /\ UNCHANGED <<next, arm, doomed>>
    <3>1. Cand' = Cand
      BY <1>1, <2>3 DEF Cand
    <3> HIDE DEF Good
    <3> QED
      BY <1>4, <2>1, <2>2, <2>3, <3>1
  <2>4. CASE Away /\ arm = {}
    <3>1. \A i \in Armed : setups'[i].state = "superseded" => Replaced(i)
      BY <1>1, <2>2, <2>4
    <3> HIDE DEF Good
    <3> QED
      BY <1>3, <2>1, <2>4, <3>1 DEF Away
  <2> HIDE DEF Good
  <2> QED
    BY <1>9, <2>3, <2>4 DEF Retires
<1>10. ASSUME NEW i \in Armed, World(i) PROVE Good
  <2>1. Closing /\ Cand' = Cand /\ UNCHANGED <<doomed, arm, at>>
    BY <1>1, <1>10, CleanCloses DEF World, Cand
  <2>2. \A j \in Armed : setups'[j].state = "superseded" => setups[j].state = "superseded"
    <3>1. ASSUME NEW how \in {"stopped", "closed"}, Close(i, how)
          PROVE  \A j \in Armed : setups'[j].state = "superseded" => setups[j].state = "superseded"
      <4>1. setups[i].state = "open" /\ setups' = [setups EXCEPT ![i].state = how]
        BY <3>1 DEF Close, Open
      <4>2. setups'[i].state = how /\ \A j \in Armed : j # i => setups'[j] = setups[j]
        BY <1>10, <4>1, ClosedRow
      <4> QED
        BY <4>2
    <3>2. CASE Time(i)
      BY <3>2 DEF Time
    <3> QED
      BY <1>10, <3>1, <3>2 DEF World
  <2> HIDE DEF Good
  <2> QED
    BY <1>4, <2>1, <2>2
<1>11. CASE UNCHANGED vars
  <2>1. Closing /\ Cand' = Cand /\ UNCHANGED <<doomed, arm, at, setups>>
    BY <1>11, CleanCloses DEF vars, env, Cand
  <2> HIDE DEF Good
  <2> QED
    BY <1>4, <2>1
<1> HIDE DEF Good
<1> QED
  <2>1. CASE Passes("opposing", "cooldown") \/ Passes("cooldown", "streak") \/ Passes("streak", "cluster")
             \/ Passes("cluster", "daily") \/ Passes("daily", "approval") \/ Passes("approval", "arm")
    <3>1. at \notin {"arm", "retire"}
      BY <2>1 DEF Passes
    <3> QED
      BY <1>7, <2>1, <3>1
  <2> QED
    BY <1>5, <1>6, <1>8, <1>9, <1>10, <1>11, <2>1, CleanSteps

\* Between two ticks, a setup that was retired for a higher timeframe has been replaced by
\* one of a higher timeframe in its own mode.
THEOREM RetiredWasReplacedHolds == Spec => []RetiredWasReplaced
<1>1. Init => Slotted /\ Replacing
  <2> SUFFICES ASSUME Init PROVE Slotted /\ Replacing
    OBVIOUS
  <2>1. Live = {} /\ Armed = {} /\ doomed = {} /\ at = "idle" /\ faults = 0
    BY DEF Init, Live, Armed, Open
  <2>2. \A c, m : In(c, m) = {} /\ In(c, m) \ doomed = {}
    BY <2>1 DEF In
  <2>3. \A c, m : Cardinality(In(c, m)) = 0 /\ Cardinality(In(c, m) \ doomed) = 0
    BY <2>2, FS_EmptySet
  <2>4. (IF at = "retire" THEN 1 ELSE 0) = 0
    BY <2>1
  <2>5. Slotted
    BY <2>1, <2>3, <2>4 DEF Slotted
  <2>6. Replacing
    BY <2>1 DEF Replacing
  <2> QED
    BY <2>5, <2>6
<1>2. Typed /\ Replacing => RetiredWasReplaced
  <2> SUFFICES ASSUME Typed, Replacing, at = "idle", faults = 0, NEW i \in Armed,
                      setups[i].state = "superseded"
               PROVE  Replaced(i)
    BY DEF RetiredWasReplaced, Replaced
  <2>1. doomed = {}
    BY DEF Typed
  <2> QED
    BY <2>1 DEF Replacing
<1> QED
  BY <1>1, <1>2, SlottedNext, ReplacingNext, InitTyped, TypedNext, PTL DEF Spec

---------------------------------------------------------------------------
(* The caps.                                                               *)

LEMMA ModesFinite ==
  ASSUME Typed
  PROVE  /\ IsFiniteSet(arm) /\ Cardinality(arm) \in Nat
         /\ Cardinality(arm) <= Cardinality(config.modes) /\ Cardinality(config.modes) \in Nat
         /\ \A m \in arm : /\ Cardinality(arm \ {m}) = Cardinality(arm) - 1
                           /\ Cardinality(arm) >= 1
<1>1. IsFiniteSet(config.modes) /\ Cardinality(config.modes) \in Nat /\ arm \in SUBSET config.modes
  BY Deployed DEF Typed
<1>2. IsFiniteSet(arm) /\ Cardinality(arm) \in Nat /\ Cardinality(arm) <= Cardinality(config.modes)
  BY <1>1, FS_Subset, FS_CardinalityType
<1>3. ASSUME NEW m \in arm
      PROVE  Cardinality(arm \ {m}) = Cardinality(arm) - 1 /\ Cardinality(arm) >= 1
  <2>1. /\ IsFiniteSet(arm \ {m}) /\ Cardinality(arm \ {m}) = Cardinality(arm) - 1
    BY <1>2, FS_RemoveElement
  <2>2. Cardinality(arm \ {m}) \in Nat
    BY <2>1, FS_CardinalityType
  <2> QED
    BY <1>2, <2>1, <2>2
<1> QED
  BY <1>1, <1>2, <1>3

\* A set of rows that a step which only closes rows can only make smaller.
LEMMA FacingFewer ==
  ASSUME Typed, Closing, old' >= old, old \in Int, old' \in Int
  PROVE  /\ \A d : /\ Cardinality(Facing(d)') <= Cardinality(Facing(d))
                   /\ Cardinality(Facing(d)') \in Nat /\ Cardinality(Facing(d)) \in Nat
         /\ Cardinality(Recent') <= Cardinality(Recent)
         /\ Cardinality(Recent') \in Nat /\ Cardinality(Recent) \in Nat
<1>1. /\ Live' \subseteq Live /\ \A i \in Live' : setups'[i].cand = setups[i].cand
      /\ Live \in SUBSET Armed /\ \A i \in Armed : i \in Int
  BY Fewer, ArmedRows DEF Closing, Live
<1>2. ASSUME NEW d
      PROVE  /\ Cardinality(Facing(d)') <= Cardinality(Facing(d))
             /\ Cardinality(Facing(d)') \in Nat /\ Cardinality(Facing(d)) \in Nat
  <2>1. Facing(d)' \subseteq Facing(d) /\ Facing(d) \in SUBSET Armed
    BY <1>1 DEF Facing
  <2> QED
    BY <2>1, SubCard
<1>3. Recent' \subseteq Recent /\ Recent \in SUBSET Armed
  <2>1. ASSUME NEW i \in Recent' PROVE i \in Recent
    <3>1. i \in Live' /\ i > old'
      BY <2>1 DEF Recent
    <3>2. i \in Live /\ i \in Int
      BY <1>1, <3>1
    <3>3. i > old
      BY <3>1, <3>2
    <3> QED
      BY <3>2, <3>3 DEF Recent
  <2> QED
    BY <1>1, <2>1 DEF Recent
<1>4. /\ Cardinality(Recent') <= Cardinality(Recent)
      /\ Cardinality(Recent') \in Nat /\ Cardinality(Recent) \in Nat
  BY <1>3, SubCard
<1> QED
  BY <1>2, <1>4

LEMMA OldGrows ==
  ASSUME Typed, [Next]_vars
  PROVE  old \in Int /\ old' \in Int /\ old' >= old
<1>1. old \in Int /\ old' \in Int
  <2>1. Typed'
    BY TypedNext
  <2>2. Len(setups) \in Nat /\ Len(setups') \in Nat /\ old \in 0 .. Len(setups) /\ old' \in 0 .. Len(setups')
    BY <2>1 DEF Typed
  <2> QED
    BY <2>2
<1>2. old' = old \/ old' = old + 1
  <2>1. \/ UNCHANGED env
        \/ \E i \in Armed : Time(i) \/ Close(i, "stopped") \/ Close(i, "closed")
        \/ UNCHANGED vars
    BY Steps, DedupSteps, GateSteps DEF Arm, Retire
  <2> QED
    BY <2>1 DEF env, vars, Time, Close, Pass15, Pass60, PassDay
<1> QED
  BY <1>1, <1>2

LEMMA CappedNext == Typed /\ Capped /\ [Next]_vars => Capped'
<1> DEFINE Good == /\ at' \in Gates => armed' < config'.tick
                   /\ armed' + Cardinality(arm') <= Over(config.tick)'
                   /\ \A d \in Directions : Cardinality(Facing(d)') <= Over(config.cluster)'
                   /\ Cardinality(Recent') <= Over(config.daily)'
                   /\ PastCluster' => Cardinality(Facing(Cand.direction)') + Cardinality(arm') <= Over(config.cluster)'
                   /\ PastDaily' => Cardinality(Recent') + Cardinality(arm') <= Over(config.daily)'
<1> SUFFICES ASSUME Typed, Capped, [Next]_vars, faults' = 0 PROVE Good
  BY DEF Capped
<1>t. Typed'
  BY TypedNext
<1>1. /\ faults = 0 /\ config' = config
      /\ at \in Gates => armed < config.tick
      /\ armed + Cardinality(arm) <= Over(config.tick)
      /\ \A d \in Directions : Cardinality(Facing(d)) <= Over(config.cluster)
      /\ Cardinality(Recent) <= Over(config.daily)
      /\ PastCluster => Cardinality(Facing(Cand.direction)) + Cardinality(arm) <= Over(config.cluster)
      /\ PastDaily => Cardinality(Recent) + Cardinality(arm) <= Over(config.daily)
  BY CleanSteps DEF Capped
<1> DEFINE M == Cardinality(config.modes)
           a == Cardinality(arm)
           aa == Cardinality(arm')
<1>2. /\ M \in Nat /\ a \in Nat /\ aa \in Nat /\ a <= M /\ aa <= M
      /\ armed \in Nat /\ armed' \in Nat
      /\ config.tick \in Nat \ {0} /\ config.cluster \in Nat \ {0} /\ config.daily \in Nat \ {0}
      /\ Over(config.tick) = config.tick + M - 1 /\ Over(config.cluster) = config.cluster + M - 1
      /\ Over(config.daily) = config.daily + M - 1
      /\ Over(config.tick)' = Over(config.tick) /\ Over(config.cluster)' = Over(config.cluster)
      /\ Over(config.daily)' = Over(config.daily)
  <2>1. arm' \in SUBSET config.modes /\ armed' \in Nat
    BY <1>1, <1>t DEF Typed
  <2>2. IsFiniteSet(config.modes) /\ M \in Nat
    BY Deployed DEF Typed
  <2>3. aa \in Nat /\ aa <= M
    BY <2>1, <2>2, FS_Subset, FS_CardinalityType
  <2> QED
    BY <1>1, <2>1, <2>2, <2>3, ModesFinite, Deployed DEF Typed, Over
<1>3. PICK d0 : d0 = Cand.direction
  OBVIOUS
<1>4. ASSUME Cand' = Cand PROVE Facing(Cand.direction)' = Facing(d0)'
  BY <1>3, <1>4 DEF Facing
\* Rows are closed at most, and the candidate stays.
<1>5. ASSUME Closing, arm' = arm, armed' = armed, Cand' = Cand, at' \in Gates => at \in Gates,
             PastCluster' => PastCluster \/ Cardinality(Facing(Cand.direction)) + a <= Over(config.cluster),
             PastDaily' => PastDaily \/ Cardinality(Recent) + a <= Over(config.daily)
      PROVE  Good
  <2>1. /\ \A d : /\ Cardinality(Facing(d)') <= Cardinality(Facing(d))
                  /\ Cardinality(Facing(d)') \in Nat /\ Cardinality(Facing(d)) \in Nat
        /\ Cardinality(Recent') <= Cardinality(Recent)
        /\ Cardinality(Recent') \in Nat /\ Cardinality(Recent) \in Nat
    BY <1>5, FacingFewer, OldGrows
  <2>2. \A d \in Directions : Cardinality(Facing(d)') <= Over(config.cluster)'
    BY <1>1, <1>2, <2>1
  <2>3. Cardinality(Recent') <= Over(config.daily)'
    BY <1>1, <1>2, <2>1
  <2>4. PastCluster' => Cardinality(Facing(Cand.direction)') + aa <= Over(config.cluster)'
    <3>1. PastCluster' => Cardinality(Facing(d0)) + a <= Over(config.cluster)
      BY <1>1, <1>3, <1>5
    <3>2. PastCluster' => Cardinality(Facing(d0)') + a <= Over(config.cluster)
      BY <1>2, <2>1, <3>1
    <3> QED
      BY <1>2, <1>4, <1>5, <3>2
  <2>5. PastDaily' => Cardinality(Recent') + aa <= Over(config.daily)'
    <3>1. PastDaily' => Cardinality(Recent) + a <= Over(config.daily)
      BY <1>1, <1>5
    <3> QED
      BY <1>2, <1>5, <2>1, <3>1
  <2>6. (at' \in Gates => armed' < config'.tick) /\ armed' + aa <= Over(config.tick)'
    BY <1>1, <1>2, <1>5
  <2> QED
    BY <2>2, <2>3, <2>4, <2>5, <2>6
\* Nothing is to be armed any more, or not yet.
<1>6. ASSUME Closing, ~PastCluster', ~PastDaily', at' \in Gates => armed' < config.tick,
             armed' + aa <= Over(config.tick)
      PROVE  Good
  <2>1. /\ \A d : /\ Cardinality(Facing(d)') <= Cardinality(Facing(d))
                  /\ Cardinality(Facing(d)') \in Nat /\ Cardinality(Facing(d)) \in Nat
        /\ Cardinality(Recent') <= Cardinality(Recent)
        /\ Cardinality(Recent') \in Nat /\ Cardinality(Recent) \in Nat
    BY <1>6, FacingFewer, OldGrows
  <2>2. \A d \in Directions : Cardinality(Facing(d)') <= Over(config.cluster)'
    BY <1>1, <1>2, <2>1
  <2>3. Cardinality(Recent') <= Over(config.daily)'
    BY <1>1, <1>2, <2>1
  <2>4. (at' \in Gates => armed' < config'.tick) /\ armed' + aa <= Over(config.tick)'
    BY <1>1, <1>2, <1>6
  <2> QED
    BY <1>6, <2>2, <2>3, <2>4
<1>7. ASSUME Away, Closing PROVE Good
  <2>1. ~PastCluster' /\ ~PastDaily' /\ (at' \in Gates => armed' < config.tick)
    BY <1>7 DEF Away, PastCluster, PastDaily, Arming, Gates
  <2>2. arm' = {} /\ armed' \in {0, armed}
    BY <1>7 DEF Away
  <2>3. aa = 0
    BY <2>2, FS_EmptySet
  <2>4. armed' + aa <= Over(config.tick)
    <3>1. armed + a <= Over(config.tick) /\ Over(config.tick) \in Int /\ a \in Nat /\ armed \in Nat
      BY <1>1, <1>2
    <3> HIDE DEF a, aa, M
    <3>2. armed <= Over(config.tick) /\ 0 <= Over(config.tick)
      BY <3>1
    <3>3. armed' <= Over(config.tick) /\ armed' \in Nat
      BY <2>2, <3>1, <3>2
    <3> QED
      BY <2>3, <3>1, <3>3
  <2> HIDE DEF Good, aa
  <2> QED
    BY <1>6, <1>7, <2>1, <2>4
<1>8. CASE Takes
  <2>1. /\ Closing /\ ~PastCluster' /\ ~PastDaily' /\ armed' = armed /\ at \in Gates
    BY <1>8, CleanCloses DEF Takes, PastCluster, PastDaily, Arming, Gates
  <2>2. armed < config.tick
    BY <1>1, <2>1
  <2>3. armed' + aa <= Over(config.tick)
    <3> HIDE DEF a, aa, M
    <3> QED
      BY <1>2, <2>1, <2>2
  <2> HIDE DEF Good, aa
  <2> QED
    BY <1>6, <2>1, <2>2, <2>3
<1>9. ASSUME NEW h \in Gates, NEW t, Passes(h, t),
             PastCluster' => PastCluster \/ ~Clustered(Cand),
             PastDaily' => PastDaily \/ ~ArmedToday
      PROVE  Good
  <2>1. /\ Closing /\ arm' = arm /\ armed' = armed /\ Cand' = Cand /\ at \in Gates
    BY <1>1, <1>9, CleanCloses DEF Passes, On, Cand
  <2>2. Cardinality(Facing(Cand.direction)) \in Nat /\ Cardinality(Recent) \in Nat
    <3>1. Facing(Cand.direction) \in SUBSET Armed /\ Recent \in SUBSET Armed
      BY DEF Facing, Recent, Live
    <3> QED
      BY <3>1, ArmedRows
  <2>3. ~Clustered(Cand) => Cardinality(Facing(Cand.direction)) + a <= Over(config.cluster)
    <3>1. ~Clustered(Cand) => Cardinality(Facing(Cand.direction)) < config.cluster
      BY <1>2, <2>2 DEF Clustered, Facing
    <3> HIDE DEF a, M
    <3> QED
      BY <1>2, <2>2, <3>1
  <2>4. ~ArmedToday => Cardinality(Recent) + a <= Over(config.daily)
    <3>1. ~ArmedToday => Cardinality(Recent) < config.daily
      BY <1>2, <2>2 DEF ArmedToday, Recent
    <3> HIDE DEF a, M
    <3> QED
      BY <1>2, <2>2, <3>1
  <2> HIDE DEF Good, a
  <2> QED
    BY <1>5, <1>9, <2>1, <2>3, <2>4
\* Arm: there is one more, and one less to come.
<1>10. ASSUME NEW m \in config.modes, Arms(m) PROVE Good
  <2>0. PICK e \in Nat : e = Len(setups) + 1
    BY ArmedRows
  <2>1. /\ Cand' = Cand /\ next > 0 /\ PastCluster /\ PastDaily /\ at' \notin Gates
        /\ armed' = armed + 1 /\ arm' = arm \ {m} /\ m \in arm /\ old' = old
    BY <1>1, <1>10 DEF Cand, Typed, Arms, PastCluster, PastDaily, Arming, Gates, env
  <2>2. /\ Armed' = Armed \cup {e} /\ \A i \in Armed : setups'[i] = setups[i]
        /\ setups'[e] = [cand |-> Cand, mode |-> m, state |-> "open"]
    BY <1>10, <2>0, <2>1, ArmedOne DEF Arms
  <2>3. aa = a - 1
    BY <2>1, ModesFinite
  <2>4. Live' \subseteq Live \cup {e}
    BY <2>2 DEF Live, Open
  <2>5. ASSUME NEW d
        PROVE  /\ Cardinality(Facing(d)') \in Nat /\ Cardinality(Facing(d)) \in Nat
               /\ Cardinality(Facing(d)') <= Cardinality(Facing(d)) + 1
               /\ d # d0 => Cardinality(Facing(d)') <= Cardinality(Facing(d))
    <3>1. /\ Facing(d) \in SUBSET Armed /\ Facing(d)' \subseteq Facing(d) \cup {e}
          /\ d # d0 => Facing(d)' \subseteq Facing(d)
      BY <1>3, <2>2, <2>4 DEF Facing, Live, Open
    <3> QED
      BY <3>1, PlusOne, SubCard
  <2>6. /\ Cardinality(Recent') \in Nat /\ Cardinality(Recent) \in Nat
        /\ Cardinality(Recent') <= Cardinality(Recent) + 1
    <3>1. Recent \in SUBSET Armed /\ Recent' \subseteq Recent \cup {e}
      BY <2>1, <2>4 DEF Recent, Live
    <3> QED
      BY <3>1, PlusOne
  <2>7. /\ Cardinality(Facing(d0)) + a <= Over(config.cluster)
        /\ Cardinality(Recent) + a <= Over(config.daily)
    BY <1>1, <1>3, <2>1
  <2>8. /\ Cardinality(Facing(d0)') + aa <= Over(config.cluster)
        /\ Cardinality(Recent') + aa <= Over(config.daily)
        /\ Cardinality(Recent') <= Over(config.daily)
        /\ Cardinality(Facing(d0)') <= Over(config.cluster)
        /\ armed' + aa <= Over(config.tick)
    <3>1. Cardinality(Facing(d0)') \in Nat /\ Cardinality(Facing(d0)) \in Nat
          /\ Cardinality(Facing(d0)') <= Cardinality(Facing(d0)) + 1
      BY <2>5
    <3>2. /\ Over(config.tick) \in Int /\ Over(config.cluster) \in Int /\ Over(config.daily) \in Int
          /\ a \in Nat /\ aa \in Nat /\ armed \in Nat
      BY <1>2
    <3>3. armed + a <= Over(config.tick)
      BY <1>1
    <3> HIDE DEF a, aa, M
    <3>4. Cardinality(Facing(d0)') + aa <= Over(config.cluster)
      BY <2>3, <2>7, <3>1, <3>2
    <3>5. Cardinality(Recent') + aa <= Over(config.daily)
      BY <2>3, <2>6, <2>7, <3>2
    <3>6. armed' + aa <= Over(config.tick)
      BY <2>1, <2>3, <3>2, <3>3
    <3> QED
      BY <2>6, <3>1, <3>2, <3>4, <3>5, <3>6
  <2>9. \A d \in Directions : Cardinality(Facing(d)') <= Over(config.cluster)
    <3> SUFFICES ASSUME NEW d \in Directions PROVE Cardinality(Facing(d)') <= Over(config.cluster)
      OBVIOUS
    <3>1. CASE d = d0
      BY <2>8, <3>1
    <3>2. CASE d # d0
      <4>1. /\ Cardinality(Facing(d)') \in Nat /\ Cardinality(Facing(d)) \in Nat
            /\ Cardinality(Facing(d)') <= Cardinality(Facing(d))
        BY <2>5, <3>2
      <4>2. Cardinality(Facing(d)) <= Over(config.cluster)
        BY <1>1
      <4> HIDE DEF a, aa, M
      <4> QED
        BY <1>2, <4>1, <4>2
    <3> QED
      BY <3>1, <3>2
  <2>10. Facing(Cand.direction)' = Facing(d0)'
    BY <1>4, <2>1
  <2> QED
    BY <1>2, <2>1, <2>8, <2>9, <2>10
<1>11. CASE Retires
  <2>1. Closing /\ PastCluster /\ PastDaily /\ armed' = armed
    BY <1>11, CleanCloses DEF Retires, PastCluster, PastDaily, Arming
  <2>2. CASE at' = "arm" /\ UNCHANGED <<next, arm, doomed>>
    <3>1. Cand' = Cand /\ at' \notin Gates
      BY <1>1, <2>2 DEF Cand, Gates
    <3> HIDE DEF Good
    <3> QED
      BY <1>5, <2>1, <2>2, <3>1
  <2> HIDE DEF Good
  <2> QED
    BY <1>7, <1>11, <2>1, <2>2 DEF Retires
<1>12. CASE (\E i \in Armed : World(i)) \/ UNCHANGED vars
  <2>1. Closing
    BY <1>12, CleanCloses
  <2>2. Cand' = Cand /\ at' = at /\ arm' = arm /\ armed' = armed
    BY <1>1, <1>12 DEF World, vars, Cand
  <2>3. (PastCluster' => PastCluster) /\ (PastDaily' => PastDaily)
    BY <2>2 DEF PastCluster, PastDaily, Arming
  <2> HIDE DEF Good
  <2> QED
    BY <1>5, <2>1, <2>2, <2>3
<1> HIDE DEF Good
<1>13. ASSUME Passes("opposing", "cooldown") \/ Passes("cooldown", "streak") \/ Passes("streak", "cluster")
              \/ (Passes("cluster", "daily") /\ ~Clustered(Cand))
              \/ (Passes("daily", "approval") /\ ~ArmedToday) \/ Passes("approval", "arm")
       PROVE  Good
  <2>1. ASSUME Passes("opposing", "cooldown") \/ Passes("cooldown", "streak") \/ Passes("streak", "cluster")
        PROVE  ~PastCluster' /\ ~PastDaily'
    BY <2>1 DEF Passes, On, PastCluster, PastDaily, Arming
  <2>2. ASSUME Passes("cluster", "daily") PROVE ~PastDaily'
    BY <2>2 DEF Passes, On, PastDaily, Arming
  <2>3. ASSUME Passes("daily", "approval") PROVE PastCluster
    BY <2>3 DEF Passes, PastCluster
  <2>4. ASSUME Passes("approval", "arm") PROVE PastCluster /\ PastDaily
    BY <2>4 DEF Passes, PastCluster, PastDaily
  <2> QED
    BY <1>9, <1>13, <2>1, <2>2, <2>3, <2>4 DEF Gates
<1> QED
  <2>1. Turns => Away /\ Closing
    BY CleanCloses DEF Turns
  <2> QED
    BY <1>7, <1>8, <1>10, <1>11, <1>12, <1>13, <2>1, CleanSteps

---------------------------------------------------------------------------
(* The whipsaw.                                                            *)

\* A set of rows with a mode of its own each has no more of them than there are modes.
LEMMA ByMode ==
  ASSUME Typed, NEW S \in SUBSET Armed, NEW T \in SUBSET config.modes,
         \A i \in S : setups[i].mode \in T,
         \A i, j \in S : setups[i].mode = setups[j].mode => i = j
  PROVE  /\ Cardinality(S) <= Cardinality(T)
         /\ Cardinality(S) \in Nat /\ Cardinality(T) \in Nat /\ IsFiniteSet(T)
<1>1. IsFiniteSet(T)
  BY Deployed, FS_Subset DEF Typed
<1> DEFINE f == [i \in S |-> setups[i].mode]
<1>2. f \in Injection(S, T)
  <2>1. f \in [S -> T]
    OBVIOUS
  <2>2. \A i, j \in DOMAIN f : f[i] = f[j] => i = j
    OBVIOUS
  <2> HIDE DEF f
  <2> QED
    BY <2>1, <2>2 DEF Injection, IsInjective
<1> HIDE DEF f
<1> QED
  BY <1>1, <1>2, FS_Injection, FS_CardinalityType, ArmedRows

\* While nothing fails, a side has two setups per mode at most, the one that is to be
\* replaced and the one that stands or is still to come.
LEMMA SidedBound ==
  ASSUME Typed, Slotted, Replacing, faults = 0, NEW c \in Cands
  PROVE  /\ Cardinality(Sided(c)) + Pending(c) <= 2 * Cardinality(config.modes)
         /\ Cardinality(Sided(c)) \in Nat /\ Pending(c) \in Nat /\ Cardinality(config.modes) \in Nat
<1> DEFINE S == Sided(c) \ doomed
           D == Sided(c) \cap doomed
           M == Cardinality(config.modes)
<1>1. /\ S \in SUBSET Armed /\ D \in SUBSET Armed /\ Sided(c) = S \cup D /\ S \cap D = {}
      /\ \A i \in Sided(c) : setups[i].mode \in config.modes /\ SameSide(i, c) /\ i \in Live
  BY ArmedRows DEF Sided, Live, Rows
<1>2. Cardinality(Sided(c)) = Cardinality(S) + Cardinality(D)
      /\ Cardinality(S) \in Nat /\ Cardinality(D) \in Nat
  <2>1. IsFiniteSet(S) /\ IsFiniteSet(D) /\ Cardinality(S) \in Nat /\ Cardinality(D) \in Nat
    BY <1>1, ArmedRows
  <2>2. Cardinality(S \cup D) = Cardinality(S) + Cardinality(D) - Cardinality(S \cap D)
    BY <2>1, FS_Union
  <2>3. Cardinality(S \cap D) = 0
    BY <1>1, FS_EmptySet
  <2> HIDE DEF S, D
  <2> QED
    BY <1>1, <2>1, <2>2, <2>3
<1>3. Cardinality(D) <= M /\ M \in Nat
  <2>1. \A i, j \in D : setups[i].mode = setups[j].mode => i = j
    BY <1>1 DEF Replacing, Slot, SameSide
  <2>2. \A i \in D : setups[i].mode \in config.modes
    BY <1>1
  <2> HIDE DEF D
  <2> QED
    BY <1>1, <2>1, <2>2, ByMode
<1>4. \A i, j \in S : setups[i].mode = setups[j].mode => i = j
  <2> SUFFICES ASSUME NEW i \in S, NEW j \in S, setups[i].mode = setups[j].mode PROVE i = j
    OBVIOUS
  <2> DEFINE X == In(c, setups[i].mode) \ doomed
  <2>1. setups[i].mode \in config.modes /\ i \in X /\ j \in X
    BY <1>1 DEF In
  <2>2. Cardinality(X) <= 1 + faults
    BY <2>1 DEF Slotted
  <2>3. IsFiniteSet(X) /\ Cardinality(X) \in Nat
    BY LiveSets, ArmedRows
  <2> HIDE DEF X, S
  <2>4. Cardinality(X) <= 1
    BY <2>2, <2>3
  <2> QED
    BY <2>1, <2>3, <2>4, OneAtMost
<1>5. \A i \in S : setups[i].mode \in config.modes
  BY <1>1
<1>6. CASE PastCooldown /\ Cand.symbol = c.symbol /\ Cand.direction = c.direction
  <2>1. Pending(c) = Cardinality(arm) /\ arm \in SUBSET config.modes /\ at # "idle"
    BY <1>6 DEF Pending, Typed, PastCooldown, PastOpposing
  <2>2. ASSUME NEW i \in S PROVE setups[i].mode \notin arm
    <3> SUFFICES ASSUME setups[i].mode \in arm PROVE FALSE
      OBVIOUS
    <3> DEFINE X == In(Cand, setups[i].mode) \ doomed
    <3>1. setups[i].mode \in config.modes /\ i \in X
      BY <1>1, <1>6, <2>2 DEF In, SameSide
    <3>2. Cardinality(X) <= faults
      BY <2>1, <3>1 DEF Slotted
    <3>3. IsFiniteSet(X) /\ Cardinality(X) \in Nat
      BY LiveSets, ArmedRows
    <3> HIDE DEF X
    <3>4. X = {}
      BY <3>2, <3>3, FS_EmptySet
    <3> QED
      BY <3>1, <3>4
  <2>3. Cardinality(S) <= Cardinality(config.modes \ arm)
    <3>1. \A i \in S : setups[i].mode \in config.modes \ arm
      BY <1>5, <2>2
    <3> HIDE DEF S
    <3> QED
      BY <1>1, <1>4, <3>1, ByMode
  <2>4. Cardinality(config.modes \ arm) = M - Cardinality(arm) /\ Cardinality(arm) \in Nat
    <3>1. IsFiniteSet(config.modes)
      BY Deployed DEF Typed
    <3>2. config.modes \cap arm = arm
      BY <2>1
    <3>3. Cardinality(config.modes \ arm) = Cardinality(config.modes) - Cardinality(config.modes \cap arm)
      BY <3>1, FS_Difference
    <3> QED
      BY <3>2, <3>3, ModesFinite
  <2>5. Cardinality(S) <= M - Cardinality(arm)
    BY <2>3, <2>4
  <2>6. Pending(c) \in Nat
    BY <2>1, <2>4
  <2> HIDE DEF S, D, M
  <2>7. Cardinality(Sided(c)) + Pending(c) <= 2 * M /\ Cardinality(Sided(c)) \in Nat
    BY <1>2, <1>3, <2>1, <2>4, <2>5
  <2> QED
    BY <1>3, <2>6, <2>7 DEF M
<1>7. CASE ~(PastCooldown /\ Cand.symbol = c.symbol /\ Cand.direction = c.direction)
  <2>1. Pending(c) = 0
    BY <1>7 DEF Pending
  <2>2. Cardinality(S) <= M
    <3> HIDE DEF S
    <3> QED
      BY <1>1, <1>4, <1>5, ByMode
  <2> HIDE DEF S, D, M
  <2>3. Cardinality(Sided(c)) + Pending(c) <= 2 * M /\ Cardinality(Sided(c)) \in Nat
    BY <1>2, <1>3, <2>1, <2>2
  <2> QED
    BY <1>3, <2>1, <2>3 DEF M
<1> QED
  BY <1>6, <1>7

\* Whatever a step does to the pending rows of c, with the candidate rigid.
LEMMA PendingCand ==
  ASSUME NEW k, Cand' = k
  PROVE  \A c : Pending(c)' = (IF PastCooldown' /\ k.symbol = c.symbol /\ k.direction = c.direction
                               THEN Cardinality(arm') ELSE 0)
BY DEF Pending

LEMMA CutNext == Typed /\ Slotted /\ Replacing /\ Cut /\ [Next]_vars => Cut'
<1> DEFINE Fits(c) == Cooled(c)' # {} => Cardinality(Cooled(c)') + Cardinality(Sided(c)') + Pending(c)'
                                           <= 2 * Cardinality(config.modes)
<1> SUFFICES ASSUME Typed, Slotted, Replacing, Cut, [Next]_vars, faults' = 0, NEW c \in Cands
             PROVE  Fits(c)
  <2>1. faults' = 0 /\ Typed /\ [Next]_vars => config' = config
    BY CleanSteps
  <2> QED
    BY <2>1 DEF Cut, Cands
<1>1. /\ faults = 0 /\ config' = config
      /\ Cooled(c) # {} => Cardinality(Cooled(c)) + Cardinality(Sided(c)) + Pending(c)
                             <= 2 * Cardinality(config.modes)
  BY CleanSteps DEF Cut
<1> DEFINE M == Cardinality(config.modes)
           n == Cardinality(Cooled(c))
           s == Cardinality(Sided(c))
           p == Pending(c)
           nn == Cardinality(Cooled(c)')
           ss == Cardinality(Sided(c)')
           pp == Pending(c)'
<1>2. /\ s + p <= 2 * M /\ s \in Nat /\ p \in Nat /\ M \in Nat
      /\ n \in Nat /\ Cooled(c) \in SUBSET Armed /\ Sided(c) \in SUBSET Armed
  BY <1>1, SidedBound, LiveSets, ArmedRows
\* Fewer cooling, fewer open, fewer to come.
<1>3. ASSUME Closing, cool' \subseteq cool, pp \in Nat, pp <= p PROVE Fits(c)
  <2>1. Cooled(c)' \subseteq Cooled(c)
    BY <1>3 DEF Cooled, SameSide, Closing, Typed
  <2>2. nn <= n /\ nn \in Nat
    BY <1>2, <2>1, SubCard
  <2>3. ss <= s /\ ss \in Nat
    BY <1>2, <1>3, Fewer, SubCard
  <2>4. Cooled(c)' # {} => n + s + p <= 2 * M
    BY <1>1, <2>1
  <2> HIDE DEF n, s, p, nn, ss, pp, M
  <2>5. Cooled(c)' # {} => nn + ss + pp <= 2 * M
    BY <1>2, <1>3, <2>2, <2>3, <2>4
  <2> QED
    BY <2>5 DEF n, s, p, nn, ss, pp, M
<1>4. ASSUME arm' = {} \/ ~PastCooldown' PROVE pp = 0
  BY <1>4, FS_EmptySet DEF Pending
<1>5. CASE Turns \/ Takes
  <2>1. Closing /\ cool' = cool /\ ~PastCooldown'
    BY <1>5, CleanCloses DEF Turns, Takes, Away, env, PastCooldown, PastOpposing
  <2>2. pp = 0
    BY <1>4, <2>1
  <2> HIDE DEF Fits, pp, p
  <2> QED
    BY <1>2, <1>3, <2>1, <2>2
<1>6. ASSUME Cand' = Cand, arm' = arm, PastCooldown' => PastCooldown PROVE pp \in Nat /\ pp <= p
  <2>1. PICK k : k = Cand
    OBVIOUS
  <2>2. pp = (IF PastCooldown' /\ k.symbol = c.symbol /\ k.direction = c.direction
              THEN Cardinality(arm') ELSE 0)
    BY <1>6, <2>1, PendingCand
  <2>3. p = (IF PastCooldown /\ k.symbol = c.symbol /\ k.direction = c.direction
             THEN Cardinality(arm) ELSE 0)
    BY <2>1 DEF Pending
  <2>4. Cardinality(arm) \in Nat
    BY ModesFinite
  <2> HIDE DEF p, pp
  <2> QED
    BY <1>6, <2>2, <2>3, <2>4
<1>7. ASSUME NEW h, NEW t, Passes(h, t), PastCooldown' => PastCooldown PROVE Fits(c)
  <2>1. Closing /\ cool' = cool /\ Cand' = Cand /\ arm' = arm
    BY <1>1, <1>7, CleanCloses DEF Passes, On, env, Cand
  <2> HIDE DEF Fits, p, pp
  <2> QED
    BY <1>3, <1>6, <1>7, <2>1
\* The cooldown gate: nothing is cooling on the candidate's side.
<1>8. ASSUME Passes("cooldown", "streak"), ~Cooling(Cand) PROVE Fits(c)
  <2>1. Closing /\ cool' = cool /\ Cand' = Cand /\ setups' = setups
    BY <1>1, <1>8, CleanCloses DEF Passes, On, env, Cand
  <2>2. CASE Cand.symbol = c.symbol /\ Cand.direction = c.direction
    <3>1. Cooled(c)' = {}
      BY <1>8, <2>1, <2>2 DEF Cooled, Cooling, SameSide
    <3> QED
      BY <3>1
  <2>3. CASE ~(Cand.symbol = c.symbol /\ Cand.direction = c.direction)
    <3>1. PICK k : k = Cand
      OBVIOUS
    <3>2. pp = 0
      BY <2>1, <2>3, <3>1, PendingCand
    <3> HIDE DEF Fits, pp, p
    <3> QED
      BY <1>2, <1>3, <2>1, <3>2
  <2> QED
    BY <2>2, <2>3
\* Arm: one more is open, and one less to come.
<1>9. ASSUME NEW m \in config.modes, Arms(m) PROVE Fits(c)
  <2>0. PICK e \in Nat : e = Len(setups) + 1
    BY ArmedRows
  <2>k. PICK k : k = Cand
    OBVIOUS
  <2>1. /\ Cand' = k /\ next > 0 /\ PastCooldown /\ PastCooldown'
        /\ arm' = arm \ {m} /\ m \in arm /\ cool' = cool
    BY <1>1, <1>9, <2>k DEF Cand, Typed, Arms, PastCooldown, PastOpposing, env
  <2>2. /\ Armed' = Armed \cup {e} /\ \A i \in Armed : setups'[i] = setups[i]
        /\ setups'[e] = [cand |-> k, mode |-> m, state |-> "open"]
    BY <1>9, <2>0, <2>k, <2>1, ArmedOne DEF Arms
  <2>3. Cooled(c)' = Cooled(c)
    BY <2>1, <2>2 DEF Cooled, SameSide, Typed
  <2>4. Sided(c)' \subseteq Sided(c) \cup {e}
    BY <2>2 DEF Sided, SameSide, Live, Open
  <2>5. CASE k.symbol = c.symbol /\ k.direction = c.direction
    <3>1. pp = Cardinality(arm') /\ p = Cardinality(arm)
      BY <2>k, <2>1, <2>5, PendingCand DEF Pending
    <3>2. pp = p - 1 /\ p >= 1 /\ pp \in Nat
      <4>1. Cardinality(arm \ {m}) = Cardinality(arm) - 1 /\ Cardinality(arm) >= 1 /\ Cardinality(arm) \in Nat
        BY <2>1, ModesFinite
      <4> HIDE DEF p, pp
      <4> QED
        BY <2>1, <3>1, <4>1
    <3>3. ss <= s + 1 /\ ss \in Nat
      BY <1>2, <2>4, PlusOne
    <3>4. nn = n
      BY <2>3
    <3>5. Cooled(c)' # {} => n + s + p <= 2 * M
      BY <1>1, <2>3
    <3> HIDE DEF n, s, p, nn, ss, pp, M
    <3>6. Cooled(c)' # {} => nn + ss + pp <= 2 * M
      BY <1>2, <3>2, <3>3, <3>4, <3>5
    <3> QED
      BY <3>6 DEF nn, ss, pp, M
  <2>6. CASE ~(k.symbol = c.symbol /\ k.direction = c.direction)
    <3>1. pp = 0
      BY <2>1, <2>6, PendingCand
    <3>2. Sided(c)' \subseteq Sided(c)
      BY <2>2, <2>6 DEF Sided, SameSide, Live, Open
    <3>3. ss <= s /\ ss \in Nat
      BY <1>2, <3>2, SubCard
    <3>4. nn = n
      BY <2>3
    <3>5. Cooled(c)' # {} => n + s + p <= 2 * M
      BY <1>1, <2>3
    <3> HIDE DEF n, s, p, nn, ss, pp, M
    <3>6. Cooled(c)' # {} => nn + ss + pp <= 2 * M
      BY <1>2, <3>1, <3>3, <3>4, <3>5
    <3> QED
      BY <3>6 DEF nn, ss, pp, M
  <2> QED
    BY <2>5, <2>6
<1>10. CASE Retires
  <2>1. Closing /\ cool' = cool
    BY <1>10, CleanCloses DEF Retires, env
  <2>2. pp \in Nat /\ pp <= p
    <3>1. CASE at' = "arm" /\ UNCHANGED <<next, arm, doomed>>
      <4>1. Cand' = Cand /\ PastCooldown
        BY <1>1, <1>10, <3>1 DEF Cand, Retires, PastCooldown, PastOpposing
      <4> QED
        BY <1>6, <3>1, <4>1
    <3>2. CASE Away
      <4>1. pp = 0
        BY <1>4, <3>2 DEF Away
      <4> HIDE DEF p, pp
      <4> QED
        BY <1>2, <4>1
    <3> QED
      BY <1>10, <3>1, <3>2 DEF Retires
  <2> HIDE DEF Fits, p, pp
  <2> QED
    BY <1>3, <2>1, <2>2
<1>11. ASSUME UNCHANGED <<config, at, next, arm>> PROVE pp \in Nat /\ pp <= p
  <2>1. Cand' = Cand /\ (PastCooldown' => PastCooldown)
    BY <1>11 DEF Cand, PastCooldown, PastOpposing
  <2> QED
    BY <1>6, <1>11, <2>1
\* A stop: a setup that was open cools.
<1>12. ASSUME NEW i \in Armed, Close(i, "stopped"), UNCHANGED <<config, at, next, arm>> PROVE Fits(c)
  <2>1. /\ i \in Live /\ cool' = cool \cup {i} /\ setups' = [setups EXCEPT ![i].state = "stopped"]
        /\ setups[i].state = "open"
    BY <1>12 DEF Close, Open, Live
  <2>2. Closing /\ setups'[i].state = "stopped"
    BY <2>1, ClosedRow
  <2>3. pp \in Nat /\ pp <= p
    BY <1>11, <1>12
  <2>4. Sided(c)' \subseteq Sided(c) \ {i}
    <3>1. i \notin Live'
      BY <2>2 DEF Live, Open
    <3> QED
      BY <2>2, <3>1, Fewer DEF Sided
  <2>5. CASE SameSide(i, c)
    <3>1. Cooled(c)' \subseteq Cooled(c) \cup {i}
      BY <2>1, <2>2 DEF Cooled, SameSide, Closing, Typed
    <3>2. nn <= n + 1 /\ nn \in Nat
      BY <1>2, <3>1, PlusOne
    <3>3. ss <= s - 1 /\ ss \in Nat
      <4>1. i \in Sided(c) /\ IsFiniteSet(Sided(c))
        BY <1>2, <2>1, <2>5, ArmedRows DEF Sided
      <4>2. Cardinality(Sided(c) \ {i}) = s - 1
        BY <4>1, FS_RemoveElement
      <4>3. ss <= Cardinality(Sided(c) \ {i}) /\ ss \in Nat
        <5>1. Sided(c) \ {i} \in SUBSET Armed
          BY <1>2
        <5> QED
          BY <2>4, <5>1, SubCard
      <4> HIDE DEF s, ss
      <4> QED
        BY <1>2, <4>2, <4>3
    <3>4. n = 0 \/ n + s + p <= 2 * M
      <4>1. CASE Cooled(c) = {}
        BY <4>1, FS_EmptySet
      <4> QED
        BY <1>1, <4>1
    <3> HIDE DEF n, s, p, nn, ss, pp, M
    <3>5. nn + ss + pp <= 2 * M
      BY <1>2, <2>3, <3>2, <3>3, <3>4
    <3> QED
      BY <3>5 DEF nn, ss, pp, M
  <2>6. CASE ~SameSide(i, c)
    <3>1. Cooled(c)' \subseteq Cooled(c)
      BY <2>1, <2>2, <2>6 DEF Cooled, SameSide, Closing, Typed
    <3>2. nn <= n /\ nn \in Nat
      BY <1>2, <3>1, SubCard
    <3>3. ss <= s /\ ss \in Nat
      <4>1. Sided(c)' \subseteq Sided(c)
        BY <2>4
      <4> QED
        BY <1>2, <4>1, SubCard
    <3>4. Cooled(c)' # {} => n + s + p <= 2 * M
      BY <1>1, <3>1
    <3> HIDE DEF n, s, p, nn, ss, pp, M
    <3>5. Cooled(c)' # {} => nn + ss + pp <= 2 * M
      BY <1>2, <2>3, <3>2, <3>3, <3>4
    <3> QED
      BY <3>5 DEF nn, ss, pp, M
  <2> QED
    BY <2>5, <2>6
<1>13. ASSUME NEW i \in Armed, World(i) PROVE Fits(c)
  <2>1. UNCHANGED <<config, at, next, arm>>
    BY <1>13 DEF World
  <2>2. ASSUME Time(i) \/ Close(i, "closed") PROVE Fits(c)
    <3>1. Closing /\ cool' \subseteq cool
      <4>1. cool' \subseteq cool
        BY <2>2 DEF Time, Pass15, Pass60, PassDay, Close
      <4> QED
        BY <1>13, <4>1, CleanCloses
    <3>2. pp \in Nat /\ pp <= p
      BY <1>11, <2>1
    <3> HIDE DEF Fits, p, pp
    <3> QED
      BY <1>3, <3>1, <3>2
  <2> HIDE DEF Fits
  <2> QED
    BY <1>12, <1>13, <2>1, <2>2 DEF World
<1>14. CASE UNCHANGED vars
  <2>1. Closing /\ cool' \subseteq cool /\ UNCHANGED <<config, at, next, arm>>
    BY <1>14, CleanCloses DEF vars, env
  <2>2. pp \in Nat /\ pp <= p
    BY <1>11, <2>1
  <2> HIDE DEF Fits, p, pp
  <2> QED
    BY <1>3, <2>1, <2>2
<1> HIDE DEF Fits
<1>15. ASSUME Passes("opposing", "cooldown") PROVE Fits(c)
  <2>1. ~PastCooldown'
    BY <1>15 DEF Passes, On, PastCooldown
  <2> QED
    BY <1>7, <1>15, <2>1
<1>16. ASSUME Passes("streak", "cluster") \/ Passes("cluster", "daily") \/ Passes("daily", "approval")
              \/ Passes("approval", "arm")
       PROVE  Fits(c)
  <2>1. PastCooldown
    BY <1>16 DEF Passes, PastCooldown, PastOpposing
  <2> QED
    BY <1>7, <1>16, <2>1
<1> QED
  BY <1>5, <1>8, <1>9, <1>10, <1>13, <1>14, <1>15, <1>16, CleanSteps

\* The tick, the cluster and the day run over their caps by the modes but one at most, and
\* what cools on a side is what was open there at the first stop or past the gate by then.
THEOREM CapsHoldAlways == Spec => []CapsHold
<1>1. Init => Slotted /\ Replacing /\ Capped /\ Cut
  <2> SUFFICES ASSUME Init PROVE Slotted /\ Replacing /\ Capped /\ Cut
    OBVIOUS
  <2>1. /\ Live = {} /\ Armed = {} /\ doomed = {} /\ arm = {} /\ cool = {} /\ at = "idle" /\ faults = 0
        /\ armed = 0
    BY DEF Init, Live, Armed, Open
  <2>2. Cardinality({}) = 0
    BY FS_EmptySet
  <2>3. \A c, m : Cardinality(In(c, m)) = 0 /\ Cardinality(In(c, m) \ doomed) = 0
    <3>1. \A c, m : In(c, m) = {} /\ In(c, m) \ doomed = {}
      BY <2>1 DEF In
    <3> QED
      BY <3>1, FS_EmptySet
  <2>4. (IF at = "retire" THEN 1 ELSE 0) = 0
    BY <2>1
  <2>5. Slotted
    BY <2>1, <2>3, <2>4 DEF Slotted
  <2>6. Replacing /\ Cut
    BY <2>1 DEF Replacing, Cut, Cooled
  <2>7. Capped
    <3>1. \A d : Facing(d) = {}
      BY <2>1 DEF Facing
    <3>2. Recent = {}
      BY <2>1 DEF Recent
    <3>3. /\ Over(config.tick) >= 0 /\ Over(config.cluster) >= 0 /\ Over(config.daily) >= 0
      BY Deployed DEF Init, Over
    <3>4. at \notin Gates /\ ~PastCluster /\ ~PastDaily
      BY <2>1 DEF Gates, PastCluster, PastDaily, Arming
    <3> QED
      BY <2>1, <2>2, <3>1, <3>2, <3>3, <3>4 DEF Capped
  <2> QED
    BY <2>5, <2>6, <2>7
<1>2. Typed /\ Capped /\ Cut => CapsHold
  <2> SUFFICES ASSUME Typed, Capped, Cut, faults = 0 PROVE CapsHold
    BY DEF CapsHold, CapsKept, WhipsawIsCut
  <2>0. \A cap \in {config.tick, config.cluster, config.daily} : Over(cap) \in Int
    <3>1. config \in Configs
      BY DEF Typed
    <3> QED
      BY <3>1, Deployed DEF Over
  <2>1. armed <= Over(config.tick)
    <3>1. armed + Cardinality(arm) <= Over(config.tick)
      BY DEF Capped
    <3>2. Cardinality(arm) \in Nat /\ armed \in Nat
      BY ModesFinite DEF Typed
    <3> QED
      BY <2>0, <3>1, <3>2
  <2>2. ASSUME NEW d \in Directions
        PROVE  Cardinality({i \in Standing : setups[i].cand.direction = d}) <= Over(config.cluster)
    <3>1. /\ {i \in Standing : setups[i].cand.direction = d} \subseteq Facing(d)
          /\ Facing(d) \in SUBSET Armed
      BY DEF Standing, Facing, Live
    <3>2. Cardinality(Facing(d)) <= Over(config.cluster) /\ Over(config.cluster) \in Int
      BY <2>0 DEF Capped
    <3>3. /\ Cardinality({i \in Standing : setups[i].cand.direction = d}) <= Cardinality(Facing(d))
          /\ Cardinality({i \in Standing : setups[i].cand.direction = d}) \in Nat
          /\ Cardinality(Facing(d)) \in Nat
      BY <3>1, SubCard
    <3> QED
      BY <3>2, <3>3
  <2>3. Cardinality({i \in Standing : i > old}) <= Over(config.daily)
    <3>1. {i \in Standing : i > old} \subseteq Recent /\ Recent \in SUBSET Armed
      BY DEF Standing, Recent, Live
    <3>2. Cardinality(Recent) <= Over(config.daily) /\ Over(config.daily) \in Int
      BY <2>0 DEF Capped
    <3>3. /\ Cardinality({i \in Standing : i > old}) <= Cardinality(Recent)
          /\ Cardinality({i \in Standing : i > old}) \in Nat /\ Cardinality(Recent) \in Nat
      BY <3>1, SubCard
    <3> QED
      BY <3>2, <3>3
  <2>4. ASSUME NEW c \in Cands
        PROVE  Cardinality({i \in cool : SameSide(i, c)}) <= 2 * Cardinality(config.modes)
    <3>1. {i \in cool : SameSide(i, c)} = Cooled(c)
      BY DEF Cooled
    <3>2. /\ Cardinality(Cooled(c)) \in Nat /\ Cardinality(Sided(c)) \in Nat /\ Pending(c) \in Nat
          /\ Cardinality(config.modes) \in Nat
      BY LiveSets, ArmedRows, ModesFinite DEF Pending
    <3>3. CASE Cooled(c) = {}
      <4>1. Cardinality(Cooled(c)) = 0
        BY <3>3, FS_EmptySet
      <4>2. Cardinality(Cooled(c)) <= 2 * Cardinality(config.modes)
        BY <3>2, <4>1
      <4> QED
        BY <3>1, <4>2
    <3>4. CASE Cooled(c) # {}
      <4>1. Cardinality(Cooled(c)) + Cardinality(Sided(c)) + Pending(c) <= 2 * Cardinality(config.modes)
        BY <3>4 DEF Cut
      <4>2. Cardinality(Cooled(c)) <= 2 * Cardinality(config.modes)
        BY <3>2, <4>1
      <4> QED
        BY <3>1, <4>2
    <3> QED
      BY <3>3, <3>4
  <2>5. CapsKept
    BY <2>1, <2>2, <2>3 DEF CapsKept
  <2>6. WhipsawIsCut
    BY <2>4 DEF WhipsawIsCut, Cands
  <2> QED
    BY <2>5, <2>6 DEF CapsHold
<1> QED
  BY <1>1, <1>2, SlottedNext, ReplacingNext, CappedNext, CutNext, InitTyped, TypedNext, PTL DEF Spec
=============================================================================
