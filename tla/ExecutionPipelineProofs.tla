----------------------- MODULE ExecutionPipelineProofs -----------------------
(* What holds of ExecutionPipeline for every number of setups and bridges.   *)
EXTENDS ExecutionPipeline, Sums, FiniteSetTheorems, TLAPS

(* A candidate is in the hands of at most one bridge: in its batch, or the    *)
(* row it dispatches.  A row in hand has status claimed until it is settled.  *)
Hands ==
  /\ \A w \in Workers : pc[w] = "idle" => batch[w] = {}
  /\ \A w \in Workers : cur[w] = NoCand <=> pc[w] \in {"idle", "next"}
  /\ \A w \in Workers : cur[w] # NoCand =>
       cand[cur[w]] = IF pc[w] = "reject" THEN "errored" ELSE "claimed"

\* Nothing was done for this candidate yet.
Fresh(c) == inserted[c] = 0 /\ (c[2] = "live" => venue[c[1]] = 0 /\ orders[c[1]] = 0)

\* What is still undone while a row waits, and at each point of its dispatch.
Undone ==
  /\ \A c \in Cands : cand[c] \in {"absent", "pending"} => Fresh(c)
  /\ \A w \in Workers : \A c \in batch[w] : Fresh(c)
  /\ \A w \in Workers :
       /\ pc[w] \in {"gates", "dedup", "cap", "venue"} => Fresh(cur[w])
       /\ pc[w] \in {"venue", "order"} => cur[w][2] = "live"
       /\ pc[w] = "order" => orders[cur[w][1]] = 0
       /\ pc[w] \in {"order", "insert"} => inserted[cur[w]] = 0

Core == RowsHeldOnce /\ Hands /\ Undone /\ AtMostOnce

Acked(s) == orders[s] >= 1 /\ venue[s] >= 1

\* What a live dispatch has achieved by the time it reaches a label.
DoneAt(w) ==
  /\ pc[w] = "order" => venue[cur[w][1]] >= 1
  /\ pc[w] = "insert" /\ cur[w][2] = "live" => Acked(cur[w][1])
  /\ pc[w] = "mark" /\ cur[w][2] = "live" /\ outcome[w] # "err" => Acked(cur[w][1])

Backed == (\A w \in Workers : DoneAt(w)) /\ LiveRowsBacked /\ PlacedAfterAck

---------------------------------------------------------------------------
(* Types.                                                                 *)

\* Modes and candidates are finite, and so is what is asked for on one key.
LEMMA CandsFinite ==
  /\ IsFiniteSet(Cands) /\ \A c \in Cands : IsFiniteSet(SameKey(c))
  /\ IsFiniteSet(Setups) /\ IsFiniteSet(Workers) /\ Cardinality(Workers) \in Nat
<1>1. IsFiniteSet(Modes)
  <2>1. IsFiniteSet({"dry"})
    BY FS_Singleton
  <2>2. IsFiniteSet({"dry"} \cup {"live"})
    BY <2>1, FS_AddElement
  <2>3. Modes = {"dry"} \cup {"live"}
    BY DEF Modes
  <2> QED
    BY <2>2, <2>3
<1>2. IsFiniteSet(Cands)
  BY <1>1, SetupsAssumption, FS_Product DEF Cands
<1>3. \A c \in Cands : SameKey(c) \subseteq Cands
  BY DEF SameKey
<1> QED
  BY <1>2, <1>3, SetupsAssumption, FS_Subset, FS_CardinalityType

\* The creation counters are numbers.
LEMMA CountersAreNats == NextSetupNo \in Nat /\ NextCandNo \in Nat
<1>1. IsFiniteSet({s \in Setups : setup[s] # "none"})
  BY SetupsAssumption, FS_Subset
<1>2. IsFiniteSet({c \in Cands : cand[c] # "absent"})
  BY CandsFinite, FS_Subset
<1> QED
  BY <1>1, <1>2, FS_CardinalityType DEF NextSetupNo, NextCandNo

\* No tick, no flags.
LEMMA OffIsFlags == Off \in Flags
BY DEF Off, Flags

\* The empty tables and idle loops are of their types.
LEMMA TypeInit == Init => TypeOK
BY OffIsFlags DEF Init, TypeOK, SetupStates, CandStates, Pcs

\* The setup writers keep the types.
LEMMA TypeSetupStep ==
  ASSUME TypeOK, SetupStep
  PROVE  TypeOK'
<1>1. ASSUME NEW s \in Setups, NEW state \in {"armed", "rejected"}, Arm(s, state)
      PROVE  TypeOK'
  BY <1>1, CountersAreNats DEF TypeOK, Arm, SetupStates, candVars, bridgeVars, tradeVars
<1>2. ASSUME NEW s \in Setups, CloseSetup(s) PROVE TypeOK'
  BY <1>2 DEF TypeOK, CloseSetup, Stamp, SetupStates, candVars, bridgeVars, tradeVars
<1>3. ASSUME NEW r \in Retirers, RetireRead(r) PROVE TypeOK'
  BY <1>3 DEF TypeOK, RetireRead, setupVars, candVars, bridgeVars, tradeVars
<1>4. ASSUME NEW r \in Retirers, NEW s \in Setups, RetireSetup(r, s) PROVE TypeOK'
  BY <1>4 DEF TypeOK, RetireSetup, Stamp, Fail, SetupStates, candVars, bridgeVars, tradeVars
<1>5. ASSUME NEW r \in Retirers, NEW s \in Setups, RetirePositions(r, s) PROVE TypeOK'
  BY <1>5, SMTT(30) DEF TypeOK, RetirePositions, Fail, setupVars, candVars, bridgeVars
<1> QED
  BY <1>1, <1>2, <1>3, <1>4, <1>5 DEF SetupStep

\* The selector, the live queue and the tick dispatcher keep the types.
LEMMA TypeQueueStep ==
  ASSUME TypeOK,
         \/ SelectorStep
         \/ \E s \in Setups : EnqueueLive(s)
         \/ \E c \in Cands : ClosePosition(c)
  PROVE  TypeOK'
<1>1. ASSUME SelectorRead PROVE TypeOK'
  BY <1>1 DEF TypeOK, SelectorRead, Newest, setupVars, candVars, bridgeVars, tradeVars
<1>2. ASSUME SelectorFail PROVE TypeOK'
  BY <1>2 DEF TypeOK, SelectorFail, Fail, setupVars, candVars, bridgeVars, tradeVars
<1>3. ASSUME NEW s \in Setups, SelectorInsert(s) PROVE TypeOK'
  BY <1>3, CountersAreNats, ZenonT(60) DEF TypeOK, SelectorInsert, CandStates, setupVars, candVars, bridgeVars, tradeVars
<1>4. ASSUME NEW s \in Setups, EnqueueLive(s) PROVE TypeOK'
  BY <1>4, CountersAreNats DEF TypeOK, EnqueueLive, CandStates, setupVars, bridgeVars, tradeVars
<1>5. ASSUME NEW c \in Cands, ClosePosition(c) PROVE TypeOK'
  BY <1>5 DEF TypeOK, ClosePosition, setupVars, candVars, bridgeVars
<1> QED
  BY <1>1, <1>2, <1>3, <1>4, <1>5 DEF SelectorStep

\* A bridge keeps the types, also when it dies.
LEMMA TypeBridgeStep ==
  ASSUME TypeOK,
         NEW w \in Workers, BridgeStep(w) \/ EmptyTick(w) \/ Crash(w)
  PROVE  TypeOK'
<1>1. ASSUME Claim(w) PROVE TypeOK'
  BY <1>1, DeploymentsAssumption DEF TypeOK, Claim, Oldest, Pending, CandStates, Goto, Pcs, setupVars, tradeVars
<1>2. ASSUME Gates(w) PROVE TypeOK'
  BY <1>2 DEF TypeOK, Gates, NotBuilt, Return, Goto, Pcs, setupVars, candVars, tradeVars
<1>3. ASSUME Dedup(w) PROVE TypeOK'
  BY <1>3 DEF TypeOK, Dedup, Fail, NotBuilt, Return, Goto, Pcs, setupVars, candVars, tradeVars
<1>4. ASSUME Cap(w) PROVE TypeOK'
  BY <1>4 DEF TypeOK, Cap, Built, Fail, NotBuilt, Return, Goto, Pcs, setupVars, candVars, tradeVars
<1>5. ASSUME PlaceVenue(w) PROVE TypeOK'
  BY <1>5 DEF TypeOK, PlaceVenue, Fail, Return, Goto, Pcs, setupVars, candVars
<1>6. ASSUME InsertOrder(w) PROVE TypeOK'
  BY <1>6 DEF TypeOK, InsertOrder, Fail, Return, Goto, Pcs, setupVars, candVars
<1>7. ASSUME InsertPosition(w) PROVE TypeOK'
  <2>1. cur[w] \in Cands \cup {NoCand} /\ UNCHANGED <<dep, setup, setupNo, cand, candNo>>
    BY <1>7 DEF TypeOK, InsertPosition, setupVars, candVars
  <2>2. inserted' \in [Cands -> Nat] /\ open' \in [Cands -> Nat] /\ faults' \in Nat
    BY <1>7 DEF TypeOK, InsertPosition, Fail
  <2>3. pc' \in [Workers -> Pcs] /\ outcome' \in [Workers -> {"none", "ok", "gated", "err"}]
    BY <1>7 DEF TypeOK, InsertPosition, Return, Goto, Pcs
  <2> QED
    BY <1>7, <2>1, <2>2, <2>3 DEF TypeOK, InsertPosition
<1>8. ASSUME Mark(w) PROVE TypeOK'
  <2>1. cand' \in [Cands -> CandStates]
    <3>1. Settled(w) \in CandStates
      BY DEF Settled, CandStates
    <3> QED
      BY <1>8, <3>1 DEF TypeOK, Mark
  <2>2. /\ pc' \in [Workers -> Pcs]
        /\ batch' \in [Workers -> SUBSET Cands]
        /\ cur' \in [Workers -> Cands \cup {NoCand}]
        /\ outcome' \in [Workers -> {"none", "ok", "gated", "err"}]
        /\ conf' \in [Workers -> Flags]
        /\ faults' \in Nat
    BY <1>8, OffIsFlags, SMTT(30) DEF TypeOK, Mark, Abandon, Fail, Goto, Pcs
  <2> QED
    BY <1>8, <2>1, <2>2 DEF TypeOK, Mark, setupVars, tradeVars
<1>9. ASSUME RejectSetup(w) PROVE TypeOK'
  BY <1>9 DEF TypeOK, RejectSetup, Stamp, SetupStates, Fail, Goto, Pcs, candVars, tradeVars
<1>10. ASSUME EndTick(w) PROVE TypeOK'
  BY <1>10, OffIsFlags DEF TypeOK, EndTick, Goto, Pcs, setupVars, candVars, tradeVars
<1>11. ASSUME Crash(w) PROVE TypeOK'
  BY <1>11, OffIsFlags DEF TypeOK, Crash, Abandon, Fail, Goto, Pcs, setupVars, candVars, tradeVars
<1>12. ASSUME EmptyTick(w) PROVE TypeOK'
  BY <1>12 DEF TypeOK, EmptyTick, vars, setupVars, candVars, bridgeVars, tradeVars
<1>13. ASSUME NEW c \in Cands, Dispatch(w, c) PROVE TypeOK'
  BY <1>13 DEF TypeOK, Dispatch, Return, Goto, Pcs, setupVars, candVars, tradeVars
<1> QED
  BY <1>1, <1>2, <1>3, <1>4, <1>5, <1>6, <1>7, <1>8, <1>9, <1>10, <1>11, <1>12, <1>13 DEF BridgeStep

\* Types are inductive.
LEMMA TypeNext == TypeOK /\ [Next]_vars => TypeOK'
<1> SUFFICES ASSUME TypeOK, [Next]_vars PROVE TypeOK'
  OBVIOUS
<1>1. CASE UNCHANGED vars
  BY <1>1 DEF TypeOK, vars, setupVars, candVars, bridgeVars, tradeVars
<1>2. CASE Next
  BY <1>2, TypeSetupStep, TypeQueueStep, TypeBridgeStep DEF Next
<1> QED
  BY <1>1, <1>2

\* Every table, work list and program counter keeps its type, for any number of
\* setups, bridges and failures (execution_bridge.rs, selector_loop.rs).
THEOREM TypeCorrect == Spec => []TypeOK
<1>1. Init => TypeOK
  BY TypeInit
<1>2. TypeOK /\ [Next]_vars => TypeOK'
  BY TypeNext
<1> QED
  BY <1>1, <1>2, PTL DEF Spec

---------------------------------------------------------------------------
(* A closed setup never changes.                                          *)

\* UPDATE qtss_setups ... WHERE closed_at IS NULL leaves a closed row alone.
LEMMA StampKeepsClosed ==
  ASSUME TypeOK, NEW s \in Setups, NEW state, Stamp(s, state),
         NEW t \in Setups, Closed(t)
  PROVE  setup'[t] = setup[t]
BY DEF TypeOK, Stamp, Open, Closed

\* Whoever closes a setup first - watcher, time stop, allocator or bridge - has
\* the last word: every UPDATE carries closed_at IS NULL or its equivalent.
THEOREM FirstCloserWins == Spec => ClosedIsFinal
<1> DEFINE Kept == \A s \in Setups : Closed(s) => setup'[s] = setup[s]
<1>1. TypeOK /\ [Next]_vars => [Kept]_vars
  <2> SUFFICES ASSUME TypeOK, [Next]_vars PROVE [Kept]_vars
    OBVIOUS
  <2>1. ASSUME NEW s \in Setups, NEW state \in {"armed", "rejected"}, Arm(s, state)
        PROVE  Kept
    BY <2>1 DEF Arm, Closed, TypeOK
  <2>2. ASSUME NEW s \in Setups, CloseSetup(s) PROVE Kept
    BY <2>2, StampKeepsClosed DEF CloseSetup
  <2>3. ASSUME NEW r \in Retirers, NEW s \in Setups, RetireSetup(r, s) PROVE Kept
    BY <2>3, StampKeepsClosed DEF RetireSetup
  <2>4. ASSUME NEW w \in Workers, RejectSetup(w) PROVE Kept
    <3>1. CASE UNCHANGED setup
      BY <3>1
    <3>2. CASE cur[w] \in Cands /\ Stamp(cur[w][1], "rejected")
      BY <3>2, StampKeepsClosed DEF Cands
    <3>3. CASE cur[w] \notin Cands /\ Stamp(cur[w][1], "rejected")
      BY <3>3 DEF Stamp, Open, Closed, TypeOK
    <3> QED
      BY <2>4, <3>1, <3>2, <3>3 DEF RejectSetup
  <2>5. CASE UNCHANGED setup
    BY <2>5
  <2> QED
    BY <2>1, <2>2, <2>3, <2>4, <2>5, ZenonT(60)
    DEF Next, SetupStep, SelectorStep, BridgeStep, vars, setupVars, RetireRead,
        RetirePositions, SelectorRead, SelectorFail, SelectorInsert, EnqueueLive,
        ClosePosition, Claim, Dispatch, Gates, Dedup, Cap, PlaceVenue, InsertOrder,
        InsertPosition, Mark, EndTick, EmptyTick, Crash
<1> QED
  BY <1>1, TypeCorrect, PTL DEF Spec, ClosedIsFinal

---------------------------------------------------------------------------
(* A candidate is dispatched at most once.                                *)

CoreVars == <<cand, pc, batch, cur, venue, orders, inserted>>
\* At first no row is queued and none is in hand.
LEMMA CoreInit == Init => Core
<1> SUFFICES ASSUME Init PROVE Core
  OBVIOUS
<1>1. RowsHeldOnce
  BY NoCandAssumption DEF Init, RowsHeldOnce, Holding
<1>2. Hands
  BY DEF Init, Hands
<1>3. Undone
  BY DEF Init, Undone, Fresh, Cands
<1>4. AtMostOnce
  BY DEF Init, AtMostOnce
<1> QED
  BY <1>1, <1>2, <1>3, <1>4 DEF Core

\* Core reads nothing but CoreVars.
LEMMA CoreFrame ==
  ASSUME Core, UNCHANGED CoreVars
  PROVE  Core'
BY DEF Core, CoreVars, RowsHeldOnce, Holding, Hands, Undone, Fresh, AtMostOnce

\* A row that no bridge can have seen is queued.
LEMMA CoreEnqueue ==
  ASSUME TypeOK, Core, NEW c \in Cands, cand[c] = "absent",
         cand' = [cand EXCEPT ![c] = "pending"],
         UNCHANGED <<pc, batch, cur, venue, orders, inserted>>
  PROVE  Core'
<1>1. RowsHeldOnce'
  BY DEF TypeOK, Core, RowsHeldOnce, Holding
<1>2. Hands'
  BY DEF TypeOK, Core, Hands
<1>3. Undone'
  BY DEF TypeOK, Core, Undone, Fresh
<1>4. AtMostOnce'
  BY DEF Core, AtMostOnce
<1> QED
  BY <1>1, <1>2, <1>3, <1>4 DEF Core

\* claim_pending takes rows nobody has.
LEMMA CoreClaim ==
  ASSUME TypeOK, Core, NEW w \in Workers, Claim(w)
  PROVE  Core'
<1>1. /\ Oldest \subseteq Cands
      /\ \A c \in Oldest : cand[c] = "pending"
  BY DEF Oldest, Pending
<1>2. /\ pc[w] = "idle" /\ cur[w] = NoCand /\ batch[w] = {}
      /\ cand' = [c \in Cands |-> IF c \in Oldest THEN "claimed" ELSE cand[c]]
      /\ batch' = [batch EXCEPT ![w] = Oldest]
      /\ pc' = [pc EXCEPT ![w] = "next"]
      /\ UNCHANGED <<cur, venue, orders, inserted>>
  BY DEF Claim, Goto, Core, Hands, tradeVars
<1>3. \A v \in Workers : Holding(v) \cap Oldest = {}
  BY <1>1, NoCandAssumption DEF TypeOK, Core, RowsHeldOnce, Holding, Hands
<1>4. RowsHeldOnce'
  BY <1>1, <1>2, <1>3, NoCandAssumption DEF TypeOK, Core, RowsHeldOnce, Holding
<1>5. Hands'
  BY <1>1, <1>2, <1>3 DEF TypeOK, Core, Hands, Holding
<1>6. Undone'
  BY <1>1, <1>2 DEF TypeOK, Core, Undone, Fresh, Hands
<1>7. AtMostOnce'
  BY <1>2 DEF Core, AtMostOnce
<1> QED
  BY <1>4, <1>5, <1>6, <1>7 DEF Core

\* The row moves from the batch into the hand.
LEMMA CoreDispatch ==
  ASSUME TypeOK, Core, NEW w \in Workers, NEW c \in Cands, Dispatch(w, c)
  PROVE  Core'
<1>1. /\ pc[w] = "next" /\ c \in batch[w] /\ cur[w] = NoCand /\ c # NoCand
      /\ batch' = [batch EXCEPT ![w] = @ \ {c}]
      /\ cur' = [cur EXCEPT ![w] = c]
      /\ \E l \in {"gates", "mark"} : pc' = [pc EXCEPT ![w] = l]
      /\ UNCHANGED <<cand, venue, orders, inserted>>
  BY NoCandAssumption DEF Dispatch, Return, Goto, Core, Hands, candVars, tradeVars
<1>2. RowsHeldOnce'
  BY <1>1 DEF TypeOK, Core, RowsHeldOnce, Holding
<1>3. Hands'
  BY <1>1 DEF TypeOK, Core, Hands, RowsHeldOnce
<1>4. Undone'
  BY <1>1 DEF TypeOK, Core, Undone, Fresh
<1>5. AtMostOnce'
  BY <1>1 DEF Core, AtMostOnce
<1> QED
  BY <1>2, <1>3, <1>4, <1>5 DEF Core

\* The dispatch of the row in hand moves on, up to the label before which
\* nothing more was done.
LEMMA CoreMove ==
  ASSUME TypeOK, Core, NEW w \in Workers, NEW l \in Pcs,
         \/ pc[w] \in {"gates", "dedup", "cap"} /\ l \in {"dedup", "cap", "insert", "mark"}
         \/ pc[w] = "cap" /\ l = "venue" /\ cur[w][2] = "live"
         \/ pc[w] \in {"venue", "order", "insert"} /\ l = "mark",
         pc' = [pc EXCEPT ![w] = l],
         UNCHANGED <<cand, batch, cur, venue, orders, inserted>>
  PROVE  Core'
<1>1. RowsHeldOnce'
  BY DEF Core, RowsHeldOnce, Holding
<1>2. Hands'
  BY DEF TypeOK, Core, Hands
<1>3. Undone'
  BY DEF TypeOK, Core, Undone, Fresh
<1>4. AtMostOnce'
  BY DEF Core, AtMostOnce
<1> QED
  BY <1>1, <1>2, <1>3, <1>4 DEF Core

\* The gates read, and never trade.
LEMMA CoreGates ==
  ASSUME TypeOK, Core, NEW w \in Workers, Gates(w) \/ Dedup(w) \/ Cap(w)
  PROVE  Core'
<1>1. cur[w] \in Cands
  BY DEF Gates, Dedup, Cap, TypeOK, Core, Hands
<1>2. CASE Gates(w)
  BY <1>2, CoreMove DEF Gates, NotBuilt, Return, Goto, Pcs, candVars, tradeVars
<1>3. CASE Dedup(w)
  BY <1>3, CoreMove DEF Dedup, NotBuilt, Return, Goto, Pcs, candVars, tradeVars
<1>4. CASE Cap(w)
  BY <1>1, <1>4, CoreMove DEF Cap, Built, NotBuilt, Return, Goto, Pcs, Cands, Modes, candVars, tradeVars
<1> QED
  BY <1>2, <1>3, <1>4

\* No other row in anyone's hands, and no row still waiting, is the one in hand.
LEMMA InHandIsAlone ==
  ASSUME TypeOK, Core, NEW w \in Workers, cur[w] # NoCand, pc[w] # "reject"
  PROVE  /\ cur[w] \in Cands /\ cand[cur[w]] = "claimed"
         /\ \A v \in Workers : cur[w] \notin batch[v]
         /\ \A v \in Workers : v # w => cur[v] # cur[w]
BY DEF TypeOK, Core, RowsHeldOnce, Holding, Hands

\* The market order of the row in hand is its first.
LEMMA CorePlaceVenue ==
  ASSUME TypeOK, Core, NEW w \in Workers, PlaceVenue(w)
  PROVE  Core'
<1>1. CASE Return(w, "err") /\ UNCHANGED venue
  BY <1>1, CoreMove DEF PlaceVenue, Return, Goto, Pcs, candVars
<1>2. CASE venue' = [venue EXCEPT ![cur[w][1]] = @ + 1]
  <2>1. /\ pc[w] = "venue" /\ cur[w] # NoCand
        /\ \E l \in {"order", "mark"} : pc' = [pc EXCEPT ![w] = l]
        /\ UNCHANGED <<cand, batch, cur, orders, inserted>>
    BY <1>2 DEF PlaceVenue, Return, Goto, candVars, Core, Hands
  <2>2. /\ cur[w] \in Cands /\ cur[w][2] = "live" /\ Fresh(cur[w])
        /\ cand[cur[w]] = "claimed"
        /\ \A v \in Workers : cur[w] \notin batch[v]
        /\ \A v \in Workers : v # w => cur[v] # cur[w]
    BY <2>1, InHandIsAlone DEF Core, Undone
  <2>3. PICK s \in Setups : cur[w] = <<s, "live">>
    BY <2>2 DEF Cands
  <2>4. \A c \in Cands : c[1] = s /\ c[2] = "live" => c = cur[w]
    BY <2>3 DEF Cands
  <2>5. RowsHeldOnce'
    BY <2>1 DEF Core, RowsHeldOnce, Holding
  <2>6. Hands'
    BY <2>1 DEF TypeOK, Core, Hands
  <2>7. \A c \in Cands : Fresh(c) /\ c # cur[w] => Fresh(c)'
    BY <1>2, <2>1, <2>3, <2>4 DEF TypeOK, Fresh, Cands
  <2>8. Undone'
    <3>1. \A c \in Cands : cand'[c] \in {"absent", "pending"} => Fresh(c)'
      BY <2>1, <2>2, <2>7 DEF Core, Undone
    <3>2. \A v \in Workers : \A c \in batch'[v] : Fresh(c)'
      BY <2>1, <2>2, <2>7 DEF TypeOK, Core, Undone
    <3>3. \A v \in Workers : pc'[v] \in {"gates", "dedup", "cap", "venue"} => Fresh(cur[v])'
      <4> SUFFICES ASSUME NEW v \in Workers, pc'[v] \in {"gates", "dedup", "cap", "venue"}
                   PROVE  Fresh(cur[v])'
        OBVIOUS
      <4>1. v # w /\ pc[v] = pc'[v]
        BY <2>1 DEF TypeOK
      <4>2. cur[v] \in Cands /\ Fresh(cur[v]) /\ cur[v] # cur[w]
        BY <2>2, <4>1 DEF TypeOK, Core, Undone, Hands
      <4> QED
        BY <2>1, <2>7, <4>2 DEF Fresh
    <3>4. \A v \in Workers :
            /\ pc'[v] \in {"venue", "order"} => cur'[v][2] = "live"
            /\ pc'[v] = "order" => orders'[cur'[v][1]] = 0
            /\ pc'[v] \in {"order", "insert"} => inserted'[cur'[v]] = 0
      BY <2>1, <2>2 DEF TypeOK, Core, Undone, Fresh
    <3> QED
      BY <2>1, <3>1, <3>2, <3>3, <3>4 DEF Undone, Fresh
  <2>9. AtMostOnce'
    BY <1>2, <2>1, <2>2, <2>3 DEF TypeOK, Core, AtMostOnce, Fresh
  <2> QED
    BY <2>5, <2>6, <2>8, <2>9 DEF Core
<1> QED
  BY <1>1, <1>2 DEF PlaceVenue

\* The exchange_orders row of the row in hand is its first.
LEMMA CoreInsertOrder ==
  ASSUME TypeOK, Core, NEW w \in Workers, InsertOrder(w)
  PROVE  Core'
<1>1. CASE Return(w, "err") /\ UNCHANGED orders
  BY <1>1, CoreMove DEF InsertOrder, Return, Goto, Pcs, candVars
<1>2. CASE orders' = [orders EXCEPT ![cur[w][1]] = @ + 1] /\ Goto(w, "insert")
  <2>1. /\ pc[w] = "order" /\ cur[w] # NoCand
        /\ pc' = [pc EXCEPT ![w] = "insert"]
        /\ UNCHANGED <<cand, batch, cur, venue, inserted>>
    BY <1>2 DEF InsertOrder, Goto, candVars, Core, Hands
  <2>2. /\ cur[w] \in Cands /\ cur[w][2] = "live"
        /\ orders[cur[w][1]] = 0 /\ inserted[cur[w]] = 0
        /\ cand[cur[w]] = "claimed"
        /\ \A v \in Workers : cur[w] \notin batch[v]
        /\ \A v \in Workers : v # w => cur[v] # cur[w]
    BY <2>1, InHandIsAlone DEF Core, Undone
  <2>3. PICK s \in Setups : cur[w] = <<s, "live">>
    BY <2>2 DEF Cands
  <2>4. \A c \in Cands : c[1] = s /\ c[2] = "live" => c = cur[w]
    BY <2>3 DEF Cands
  <2>5. RowsHeldOnce'
    BY <2>1 DEF Core, RowsHeldOnce, Holding
  <2>6. Hands'
    BY <2>1 DEF TypeOK, Core, Hands
  <2>7. \A c \in Cands : Fresh(c) /\ c # cur[w] => Fresh(c)'
    BY <1>2, <2>1, <2>3, <2>4 DEF TypeOK, Fresh, Cands
  <2>8. Undone'
    <3>1. \A c \in Cands : cand'[c] \in {"absent", "pending"} => Fresh(c)'
      BY <2>1, <2>2, <2>7 DEF Core, Undone
    <3>2. \A v \in Workers : \A c \in batch'[v] : Fresh(c)'
      BY <2>1, <2>2, <2>7 DEF TypeOK, Core, Undone
    <3>3. ASSUME NEW v \in Workers
          PROVE  /\ pc'[v] \in {"gates", "dedup", "cap", "venue"} => Fresh(cur[v])'
                 /\ pc'[v] \in {"venue", "order"} => cur'[v][2] = "live"
                 /\ pc'[v] = "order" => orders'[cur'[v][1]] = 0
                 /\ pc'[v] \in {"order", "insert"} => inserted'[cur'[v]] = 0
      <4>1. CASE v = w
        BY <2>1, <2>2, <4>1 DEF TypeOK
      <4>2. CASE v # w
        <5>1. pc'[v] = pc[v] /\ cur'[v] = cur[v]
          BY <2>1, <4>2 DEF TypeOK
        <5>2. pc[v] \in {"gates", "dedup", "cap", "venue", "order", "insert"} =>
                cur[v] \in Cands /\ cur[v] # cur[w]
          BY <2>2, <4>2 DEF TypeOK, Core, Hands
        <5>3. pc[v] = "order" => cur[v] = <<cur[v][1], "live">> /\ cur[v][1] # s
          BY <2>3, <5>2 DEF TypeOK, Core, Undone, Cands
        <5> QED
          BY <1>2, <2>1, <2>3, <2>7, <5>1, <5>2, <5>3 DEF TypeOK, Core, Undone, Fresh, Cands
      <4> QED
        BY <4>1, <4>2
    <3> QED
      BY <2>1, <3>1, <3>2, <3>3 DEF Undone, Fresh
  <2>9. AtMostOnce'
    BY <1>2, <2>1, <2>2, <2>3 DEF TypeOK, Core, AtMostOnce
  <2> QED
    BY <2>5, <2>6, <2>8, <2>9 DEF Core
<1> QED
  BY <1>1, <1>2 DEF InsertOrder

\* The live_positions row of the row in hand is its first.
LEMMA CoreInsertPosition ==
  ASSUME TypeOK, Core, NEW w \in Workers, InsertPosition(w)
  PROVE  Core'
<1>1. CASE UNCHANGED <<inserted, open>>
  BY <1>1, CoreMove DEF InsertPosition, Return, Goto, Pcs, candVars
<1>2. CASE inserted' = [inserted EXCEPT ![cur[w]] = @ + 1]
  <2>1. /\ pc[w] = "insert" /\ cur[w] # NoCand
        /\ pc' = [pc EXCEPT ![w] = "mark"]
        /\ UNCHANGED <<cand, batch, cur, venue, orders>>
    BY DEF InsertPosition, Return, Goto, candVars, Core, Hands
  <2>2. /\ cur[w] \in Cands /\ inserted[cur[w]] = 0
        /\ cand[cur[w]] = "claimed"
        /\ \A v \in Workers : cur[w] \notin batch[v]
        /\ \A v \in Workers : v # w => cur[v] # cur[w]
    BY <2>1, InHandIsAlone DEF Core, Undone
  <2>3. \A c \in Cands : c # cur[w] => inserted'[c] = inserted[c]
    BY <1>2 DEF TypeOK
  <2>4. RowsHeldOnce'
    BY <2>1 DEF Core, RowsHeldOnce, Holding
  <2>5. Hands'
    BY <2>1 DEF TypeOK, Core, Hands
  <2>6. Undone'
    <3>1. \A c \in Cands : cand'[c] \in {"absent", "pending"} => Fresh(c)'
      BY <2>1, <2>2, <2>3 DEF Core, Undone, Fresh
    <3>2. \A v \in Workers : \A c \in batch'[v] : Fresh(c)'
      BY <2>1, <2>2, <2>3 DEF TypeOK, Core, Undone, Fresh
    <3>3. ASSUME NEW v \in Workers
          PROVE  /\ pc'[v] \in {"gates", "dedup", "cap", "venue"} => Fresh(cur[v])'
                 /\ pc'[v] \in {"venue", "order"} => cur'[v][2] = "live"
                 /\ pc'[v] = "order" => orders'[cur'[v][1]] = 0
                 /\ pc'[v] \in {"order", "insert"} => inserted'[cur'[v]] = 0
      <4>1. CASE v = w
        BY <2>1, <4>1 DEF TypeOK
      <4>2. CASE v # w
        <5>1. pc'[v] = pc[v] /\ cur'[v] = cur[v]
          BY <2>1, <4>2 DEF TypeOK
        <5>2. pc[v] \in {"gates", "dedup", "cap", "venue", "order", "insert"} =>
                cur[v] \in Cands /\ cur[v] # cur[w]
          BY <2>2, <4>2 DEF TypeOK, Core, Hands
        <5> QED
          BY <2>1, <2>3, <5>1, <5>2 DEF Core, Undone, Fresh
      <4> QED
        BY <4>1, <4>2
    <3> QED
      BY <2>1, <3>1, <3>2, <3>3 DEF Undone, Fresh
  <2>7. AtMostOnce'
    BY <1>2, <2>1, <2>2 DEF TypeOK, Core, AtMostOnce
  <2> QED
    BY <2>4, <2>5, <2>6, <2>7 DEF Core
<1> QED
  BY <1>1, <1>2 DEF InsertPosition

\* The row in hand is put down: settled, abandoned or passed to the reject step.
LEMMA CorePutDown ==
  ASSUME TypeOK, Core, NEW w \in Workers,
         Mark(w) \/ RejectSetup(w) \/ EndTick(w) \/ Crash(w)
  PROVE  Core'
<1>1. UNCHANGED <<venue, orders, inserted>>
  BY DEF Mark, RejectSetup, EndTick, Crash, tradeVars
<1>2. /\ batch' = batch \/ batch' = [batch EXCEPT ![w] = {}]
      /\ cur' = cur \/ cur' = [cur EXCEPT ![w] = NoCand]
      /\ \E l \in {"idle", "next", "reject"} :
           /\ pc' = [pc EXCEPT ![w] = l]
           /\ l = "idle" => batch'[w] = {}
           /\ IF l = "reject" THEN cur' = cur /\ cur[w] # NoCand ELSE cur'[w] = NoCand
      /\ \/ cand' = cand /\ pc'[w] # "reject"
         \/ /\ pc[w] = "mark"
            /\ \E res \in {"placed", "errored"} :
                 /\ cand' = [cand EXCEPT ![cur[w]] = res]
                 /\ pc'[w] = "reject" => res = "errored"
  <2>1. CASE Mark(w)
    BY <2>1 DEF Mark, Settled, NeedsReject, Abandon, Goto, TypeOK, Core, Hands
  <2>2. CASE RejectSetup(w)
    BY <2>2 DEF RejectSetup, Goto, TypeOK, candVars
  <2>3. CASE EndTick(w)
    BY <2>3 DEF EndTick, Goto, TypeOK, candVars, Core, Hands
  <2>4. CASE Crash(w)
    BY <2>4 DEF Crash, Abandon, Goto, TypeOK, candVars
  <2> QED
    BY <2>1, <2>2, <2>3, <2>4
<1>3. pc[w] = "mark" => /\ cur[w] \in Cands /\ cand[cur[w]] = "claimed"
                        /\ \A v \in Workers : cur[w] \notin batch[v]
                        /\ \A v \in Workers : v # w => cur[v] # cur[w]
  BY InHandIsAlone DEF Core, Hands
<1>4. RowsHeldOnce'
  BY <1>2, <1>3, NoCandAssumption DEF TypeOK, Core, RowsHeldOnce, Holding
<1>5. Hands'
  BY <1>2, <1>3 DEF TypeOK, Core, Hands
<1>6. Undone'
  BY <1>1, <1>2 DEF TypeOK, Core, Undone, Fresh
<1>7. AtMostOnce'
  BY <1>1 DEF Core, AtMostOnce
<1> QED
  BY <1>4, <1>5, <1>6, <1>7 DEF Core

\* Core is inductive relative to the types.
LEMMA CoreNext == TypeOK /\ Core /\ [Next]_vars => Core'
<1> SUFFICES ASSUME TypeOK, Core, [Next]_vars PROVE Core'
  OBVIOUS
<1>1. CASE SetupStep \/ SelectorRead \/ SelectorFail \/ UNCHANGED vars
  <2>1. UNCHANGED CoreVars
    BY <1>1 DEF CoreVars, SetupStep, Arm, CloseSetup, RetireRead, RetireSetup, RetirePositions,
                SelectorRead, SelectorFail, vars, candVars, bridgeVars, tradeVars
  <2> QED
    BY <2>1, CoreFrame
<1>2. ASSUME NEW c \in Cands, ClosePosition(c) PROVE Core'
  BY <1>2, CoreFrame DEF ClosePosition, CoreVars, candVars, bridgeVars
<1>3. ASSUME NEW s \in Setups, SelectorInsert(s) PROVE Core'
  <2>1. <<s, "dry">> \in Cands
    BY DEF Cands, Modes
  <2>2. CASE cand[<<s, "dry">>] = "absent"
    BY <1>3, <2>1, <2>2, CoreEnqueue DEF SelectorInsert, bridgeVars, tradeVars
  <2>3. CASE cand[<<s, "dry">>] # "absent"
    BY <1>3, <2>3, CoreFrame DEF SelectorInsert, CoreVars, candVars, bridgeVars, tradeVars
  <2> QED
    BY <2>2, <2>3
<1>4. ASSUME NEW s \in Setups, EnqueueLive(s) PROVE Core'
  <2>1. <<s, "live">> \in Cands
    BY DEF Cands, Modes
  <2> QED
    BY <1>4, <2>1, CoreEnqueue DEF EnqueueLive, bridgeVars, tradeVars
<1>5. ASSUME NEW w \in Workers, BridgeStep(w) \/ EmptyTick(w) \/ Crash(w) PROVE Core'
  <2>1. CASE EmptyTick(w)
    BY <2>1, <1>1 DEF EmptyTick
  <2> QED
    BY <1>5, <2>1, CoreClaim, CoreDispatch, CoreGates, CorePlaceVenue, CoreInsertOrder,
       CoreInsertPosition, CorePutDown DEF BridgeStep
<1> QED
  BY <1>1, <1>2, <1>3, <1>4, <1>5 DEF Next, SelectorStep

\* At every moment a row is in one bridge's hands at most, and what its dispatch
\* has yet to do (order, order row, position) is not done (run_tick, dispatch_live).
THEOREM CoreHolds == Spec => []Core
<1>1. Init => Core
  BY CoreInit
<1>2. TypeOK /\ Core /\ [Next]_vars => Core'
  BY CoreNext
<1> QED
  BY <1>1, <1>2, TypeCorrect, PTL DEF Spec

\* claim_pending hands every row to one bridge only (selected_candidates.rs).
THEOREM ClaimsAreExclusive == Spec => []RowsHeldOnce
<1>1. Core => RowsHeldOnce
  BY DEF Core
<1> QED
  BY <1>1, CoreHolds, PTL

\* Whatever fails and however many bridges run or die, a candidate is sent to the
\* venue at most once and opens at most one position (execution_bridge.rs).
THEOREM PlacedAtMostOnce == Spec => []AtMostOnce
<1>1. Core => AtMostOnce
  BY DEF Core
<1> QED
  BY <1>1, CoreHolds, PTL

---------------------------------------------------------------------------
(* A live row is only what the venue has acknowledged.                    *)

\* At first nothing is open and nothing is placed.
LEMMA BackedInit == Init => Backed
BY DEF Init, Backed, DoneAt, LiveRowsBacked, PlacedAfterAck, Acked, Cands, Modes

\* The row in hand is a candidate from its first gate to its last statement.
LEMMA InHandIsCandidate ==
  ASSUME TypeOK, Core, NEW w \in Workers, pc[w] \notin {"idle", "next"}
  PROVE  cur[w] \in Cands /\ cur[w][1] \in Setups /\ cur[w] = <<cur[w][1], cur[w][2]>>
BY DEF TypeOK, Core, Hands, Cands

\* Nothing acknowledged is taken back, so other bridges do not disturb what this
\* one has achieved.
LEMMA DoneAtStays ==
  ASSUME TypeOK, Core, NEW v \in Workers, DoneAt(v),
         pc'[v] = pc[v], cur'[v] = cur[v], outcome'[v] = outcome[v],
         \A s \in Setups : Acked(s) => Acked(s)',
         \A s \in Setups : venue[s] >= 1 => venue'[s] >= 1
  PROVE  DoneAt(v)'
<1>1. pc[v] \in {"order", "insert", "mark"} => cur[v][1] \in Setups
  BY InHandIsCandidate
<1> QED
  BY <1>1 DEF DoneAt, Acked

\* A step that neither trades nor marks a row placed.
LEMMA BackedQuiet ==
  ASSUME TypeOK, Core, Backed, NEW w \in Workers, DoneAt(w)',
         \A v \in Workers : v # w => pc'[v] = pc[v] /\ cur'[v] = cur[v] /\ outcome'[v] = outcome[v],
         UNCHANGED <<venue, orders, inserted>>,
         \A c \in Cands : cand'[c] = "placed" => cand[c] = "placed"
  PROVE  Backed'
<1>1. \A v \in Workers : DoneAt(v)'
  BY DoneAtStays DEF Backed, Acked
<1>2. LiveRowsBacked'
  BY DEF Backed, LiveRowsBacked
<1>3. PlacedAfterAck'
  BY DEF Backed, PlacedAfterAck, Cands, Modes
<1> QED
  BY <1>1, <1>2, <1>3 DEF Backed

\* The three counts of a live row are numbers.
LEMMA LiveRowCounts ==
  ASSUME TypeOK, NEW s \in Setups
  PROVE  /\ <<s, "live">> \in Cands
         /\ inserted[<<s, "live">>] \in Nat /\ orders[s] \in Nat /\ venue[s] \in Nat
<1>1. <<s, "live">> \in Cands
  BY DEF Cands, Modes
<1> QED
  BY <1>1 DEF TypeOK

\* An accepted order only adds to what the venue acknowledged.
LEMMA BackedPlaceVenue ==
  ASSUME TypeOK, Core, Backed, NEW w \in Workers, PlaceVenue(w)
  PROVE  Backed'
<1>1. CASE Return(w, "err") /\ UNCHANGED venue
  <2>1. DoneAt(w)'
    BY <1>1 DEF Return, Goto, DoneAt, TypeOK
  <2> QED
    BY <1>1, <2>1, BackedQuiet DEF PlaceVenue, Return, Goto, TypeOK, candVars
<1>2. CASE venue' = [venue EXCEPT ![cur[w][1]] = @ + 1]
  <2>1. /\ cur[w][1] \in Setups
        /\ \/ pc' = [pc EXCEPT ![w] = "order"] /\ outcome' = outcome
           \/ pc' = [pc EXCEPT ![w] = "mark"] /\ outcome' = [outcome EXCEPT ![w] = "err"]
        /\ UNCHANGED <<cand, cur, orders, inserted>>
    BY <1>2, InHandIsCandidate DEF PlaceVenue, Return, Goto, candVars
  <2>2. \A s \in Setups : venue[s] \in Nat /\ venue'[s] \in Nat /\ venue[s] <= venue'[s]
    BY <1>2, <2>1 DEF TypeOK
  <2>3. DoneAt(w)'
    BY <1>2, <2>1 DEF DoneAt, TypeOK
  <2>4. ASSUME NEW v \in Workers, v # w PROVE DoneAt(v)'
    BY <2>1, <2>2, <2>4, DoneAtStays DEF Backed, Acked, TypeOK
  <2>5. LiveRowsBacked'
    <3> SUFFICES ASSUME NEW s \in Setups
                 PROVE  inserted[<<s, "live">>] <= orders[s] /\ orders[s] <= venue'[s]
      BY <2>1 DEF LiveRowsBacked
    <3>1. inserted[<<s, "live">>] <= orders[s] /\ orders[s] <= venue[s]
      BY DEF Backed, LiveRowsBacked
    <3>2. orders[s] \in Nat /\ venue[s] \in Nat /\ venue'[s] \in Nat /\ venue[s] <= venue'[s]
      BY <2>2 DEF TypeOK
    <3> QED
      BY <3>1, <3>2
  <2>6. PlacedAfterAck'
    BY <2>1, <2>2 DEF Backed, PlacedAfterAck
  <2> QED
    BY <2>3, <2>4, <2>5, <2>6 DEF Backed
<1> QED
  BY <1>1, <1>2 DEF PlaceVenue

\* The order row follows its accepted order.
LEMMA BackedInsertOrder ==
  ASSUME TypeOK, Core, Backed, NEW w \in Workers, InsertOrder(w)
  PROVE  Backed'
<1>1. CASE Return(w, "err") /\ UNCHANGED orders
  <2>1. DoneAt(w)'
    BY <1>1 DEF Return, Goto, DoneAt, TypeOK
  <2> QED
    BY <1>1, <2>1, BackedQuiet DEF InsertOrder, Return, Goto, TypeOK, candVars
<1>2. CASE orders' = [orders EXCEPT ![cur[w][1]] = @ + 1] /\ Goto(w, "insert") /\ UNCHANGED outcome
  <2>1. /\ cur[w][1] \in Setups /\ pc[w] = "order"
        /\ orders[cur[w][1]] = 0 /\ venue[cur[w][1]] >= 1
        /\ UNCHANGED <<cand, cur, venue, inserted>>
    BY <1>2, InHandIsCandidate DEF InsertOrder, candVars, Core, Undone, Backed, DoneAt
  <2>2. \A s \in Setups : orders[s] \in Nat /\ orders'[s] \in Nat /\ orders[s] <= orders'[s]
    BY <1>2, <2>1 DEF TypeOK
  <2>3. DoneAt(w)'
    BY <1>2, <2>1 DEF DoneAt, Acked, Goto, TypeOK
  <2>4. ASSUME NEW v \in Workers, v # w PROVE DoneAt(v)'
    BY <1>2, <2>1, <2>2, <2>4, DoneAtStays DEF Backed, Acked, Goto, TypeOK
  <2>5. LiveRowsBacked'
    <3> SUFFICES ASSUME NEW s \in Setups
                 PROVE  inserted[<<s, "live">>] <= orders'[s] /\ orders'[s] <= venue[s]
      BY <2>1 DEF LiveRowsBacked
    <3>1. inserted[<<s, "live">>] <= orders[s] /\ orders[s] <= venue[s]
      BY DEF Backed, LiveRowsBacked
    <3>2. inserted[<<s, "live">>] \in Nat /\ orders[s] \in Nat /\ venue[s] \in Nat
      BY LiveRowCounts
    <3>3. orders'[s] = IF s = cur[w][1] THEN 1 ELSE orders[s]
      BY <1>2, <2>1 DEF TypeOK
    <3>4. s = cur[w][1] => orders[s] = 0 /\ venue[s] >= 1
      BY <2>1
    <3> QED
      BY <3>1, <3>2, <3>3, <3>4
  <2>6. PlacedAfterAck'
    BY <2>1, <2>2 DEF Backed, PlacedAfterAck
  <2> QED
    BY <2>3, <2>4, <2>5, <2>6 DEF Backed
<1> QED
  BY <1>1, <1>2 DEF InsertOrder

\* The position row follows its order row.
LEMMA BackedInsertPosition ==
  ASSUME TypeOK, Core, Backed, NEW w \in Workers, InsertPosition(w)
  PROVE  Backed'
<1>1. /\ cur[w] \in Cands /\ cur[w][1] \in Setups /\ cur[w] = <<cur[w][1], cur[w][2]>>
      /\ pc[w] = "insert" /\ inserted[cur[w]] = 0
      /\ cur[w][2] = "live" => Acked(cur[w][1])
      /\ pc' = [pc EXCEPT ![w] = "mark"] /\ outcome' = [outcome EXCEPT ![w] = "ok"]
      /\ UNCHANGED <<cand, cur, venue, orders>>
  BY InHandIsCandidate DEF InsertPosition, Return, Goto, candVars, Core, Undone, Backed, DoneAt
<1>2. inserted' = inserted \/ inserted' = [inserted EXCEPT ![cur[w]] = @ + 1]
  BY DEF InsertPosition
<1>3. DoneAt(w)'
  BY <1>1 DEF DoneAt, Acked, TypeOK
<1>4. ASSUME NEW v \in Workers, v # w PROVE DoneAt(v)'
  BY <1>1, <1>4, DoneAtStays DEF Backed, Acked, TypeOK
<1>5. LiveRowsBacked'
  <2> SUFFICES ASSUME NEW s \in Setups
               PROVE  inserted'[<<s, "live">>] <= orders[s] /\ orders[s] <= venue[s]
    BY <1>1 DEF LiveRowsBacked
  <2>1. CASE cur[w] = <<s, "live">>
    <3>1. Acked(s) /\ inserted[<<s, "live">>] = 0
      BY <1>1, <2>1
    <3>2. inserted'[<<s, "live">>] \in {0, 1}
      BY <1>2, <2>1, <3>1, LiveRowCounts DEF TypeOK
    <3> QED
      BY <3>1, <3>2, LiveRowCounts DEF Acked, Backed, LiveRowsBacked
  <2>2. CASE cur[w] # <<s, "live">>
    <3>1. inserted'[<<s, "live">>] = inserted[<<s, "live">>]
      BY <1>2, <2>2, LiveRowCounts DEF TypeOK
    <3> QED
      BY <3>1 DEF Backed, LiveRowsBacked
  <2> QED
    BY <2>1, <2>2
<1>6. PlacedAfterAck'
  BY <1>1 DEF Backed, PlacedAfterAck
<1> QED
  BY <1>3, <1>4, <1>5, <1>6 DEF Backed

\* Only an outcome other than an error marks a live row placed.
LEMMA BackedMark ==
  ASSUME TypeOK, Core, Backed, NEW w \in Workers, Mark(w)
  PROVE  Backed'
<1>1. /\ cur[w] \in Cands /\ pc[w] = "mark"
      /\ cur[w][2] = "live" /\ outcome[w] # "err" => Acked(cur[w][1])
      /\ UNCHANGED <<venue, orders, inserted>>
  BY InHandIsCandidate DEF Mark, tradeVars, Backed, DoneAt
<1>2. cand' = cand \/ cand' = [cand EXCEPT ![cur[w]] = Settled(w)]
  BY DEF Mark
<1>3. DoneAt(w)'
  BY DEF Mark, Goto, Abandon, DoneAt, TypeOK
<1>4. ASSUME NEW v \in Workers, v # w PROVE DoneAt(v)'
  <2>1. pc'[v] = pc[v] /\ cur'[v] = cur[v] /\ outcome'[v] = outcome[v]
    BY <1>4 DEF Mark, Goto, Abandon, TypeOK
  <2> QED
    BY <1>1, <2>1, DoneAtStays DEF Backed, Acked
<1>5. LiveRowsBacked'
  BY <1>1 DEF Backed, LiveRowsBacked
<1>6. PlacedAfterAck'
  <2> SUFFICES ASSUME NEW s \in Setups, cand'[<<s, "live">>] = "placed"
               PROVE  orders[s] >= 1 /\ venue[s] >= 1
    BY <1>1 DEF PlacedAfterAck
  <2>1. CASE cand[<<s, "live">>] = "placed"
    BY <2>1 DEF Backed, PlacedAfterAck
  <2>2. CASE cand[<<s, "live">>] # "placed"
    <3>1. cur[w] = <<s, "live">> /\ Settled(w) = "placed"
      BY <1>1, <1>2, <2>2, LiveRowCounts DEF TypeOK
    <3> QED
      BY <1>1, <3>1 DEF Settled, Acked
  <2> QED
    BY <2>1, <2>2
<1> QED
  BY <1>3, <1>4, <1>5, <1>6 DEF Backed

\* Backed is about the bridges, the venue and the rows marked placed.
LEMMA BackedFrame ==
  ASSUME TypeOK, Core, Backed,
         UNCHANGED <<pc, cur, outcome, venue, orders, inserted>>,
         \A c \in Cands : cand'[c] = "placed" => cand[c] = "placed"
  PROVE  Backed'
<1>1. \A w \in Workers : DoneAt(w)'
  BY DEF Backed, DoneAt, Acked
<1>2. LiveRowsBacked' /\ PlacedAfterAck'
  BY DEF Backed, LiveRowsBacked, PlacedAfterAck, Cands, Modes
<1> QED
  BY <1>1, <1>2 DEF Backed

\* The other loops neither trade nor mark rows placed.
LEMMA BackedOutside ==
  ASSUME TypeOK, Core, Backed,
         \/ SetupStep \/ SelectorStep \/ UNCHANGED vars
         \/ \E s \in Setups : EnqueueLive(s)
         \/ \E c \in Cands : ClosePosition(c)
  PROVE  Backed'
<1>1. UNCHANGED <<pc, cur, outcome, venue, orders, inserted>>
  BY DEF SetupStep, Arm, CloseSetup, RetireRead, RetireSetup, RetirePositions, SelectorStep,
         SelectorRead, SelectorFail, SelectorInsert, EnqueueLive, ClosePosition, vars,
         bridgeVars, tradeVars
<1>2. \A c \in Cands : cand'[c] = "placed" => cand[c] = "placed"
  BY DEF TypeOK, SetupStep, Arm, CloseSetup, RetireRead, RetireSetup, RetirePositions,
         SelectorStep, SelectorRead, SelectorFail, SelectorInsert, EnqueueLive,
         ClosePosition, vars, candVars
<1> QED
  BY <1>1, <1>2, BackedFrame

\* The steps of a bridge before and after its trade.
LEMMA BackedBridge ==
  ASSUME TypeOK, Core, Backed, NEW w \in Workers,
         \/ Claim(w) \/ (\E c \in Cands : Dispatch(w, c)) \/ Gates(w) \/ Dedup(w) \/ Cap(w)
         \/ RejectSetup(w) \/ EndTick(w) \/ Crash(w)
  PROVE  Backed'
<1>1. UNCHANGED <<venue, orders, inserted>>
  BY DEF Claim, Dispatch, Gates, Dedup, Cap, RejectSetup, EndTick, Crash, tradeVars
<1>2. \A v \in Workers : v # w => pc'[v] = pc[v] /\ cur'[v] = cur[v] /\ outcome'[v] = outcome[v]
  BY DEF TypeOK, Claim, Dispatch, Gates, Dedup, Cap, RejectSetup, EndTick, Crash, Abandon,
         Built, NotBuilt, Return, Goto
<1>3. \A c \in Cands : cand'[c] = "placed" => cand[c] = "placed"
  BY DEF TypeOK, Claim, Dispatch, Gates, Dedup, Cap, RejectSetup, EndTick, Crash, candVars
<1>4. /\ pc'[w] # "order"
      /\ pc'[w] = "insert" => cur'[w][2] # "live"
      /\ pc'[w] = "mark" => cur'[w][2] # "live" \/ outcome'[w] = "err"
  <2>1. CASE Claim(w) \/ RejectSetup(w) \/ EndTick(w) \/ Crash(w)
    BY <2>1 DEF TypeOK, Claim, RejectSetup, EndTick, Crash, Abandon, Goto
  <2>2. CASE \E c \in Cands : Dispatch(w, c)
    BY <2>2 DEF TypeOK, Dispatch, Return, Goto
  <2>3. CASE Gates(w) \/ Dedup(w) \/ Cap(w)
    <3>1. cur[w][2] \in {"dry", "live"} /\ cur' = cur
      BY <2>3, InHandIsCandidate DEF Gates, Dedup, Cap, Cands, Modes
    <3> QED
      BY <2>3, <3>1 DEF TypeOK, Gates, Dedup, Cap, Built, NotBuilt, Return, Goto
  <2> QED
    BY <2>1, <2>2, <2>3
<1>5. DoneAt(w)'
  BY <1>4 DEF DoneAt
<1> QED
  BY <1>1, <1>2, <1>3, <1>5, BackedQuiet

\* Backed is inductive relative to the types and Core.
LEMMA BackedNext == TypeOK /\ Core /\ Backed /\ [Next]_vars => Backed'
<1> SUFFICES ASSUME TypeOK, Core, Backed, [Next]_vars PROVE Backed'
  OBVIOUS
<1>1. ASSUME NEW w \in Workers, BridgeStep(w) \/ EmptyTick(w) \/ Crash(w) PROVE Backed'
  BY <1>1, BackedBridge, BackedPlaceVenue, BackedInsertOrder, BackedInsertPosition, BackedMark,
     BackedOutside DEF BridgeStep, EmptyTick
<1> QED
  BY <1>1, BackedOutside DEF Next

\* What dispatch_live has done by each of its statements, with the two properties
\* that follow.
THEOREM BackedHolds == Spec => []Backed
<1>1. Init => Backed
  BY BackedInit
<1>2. TypeOK /\ Core /\ Backed /\ [Next]_vars => Backed'
  BY BackedNext
<1> QED
  BY <1>1, <1>2, TypeCorrect, CoreHolds, PTL DEF Spec

\* A live position has its exchange_orders row, and that row an order the venue
\* accepted, whatever fails in between (dispatch_live); a live candidate is marked placed
\* only after the broker's answer was recorded (run_tick, mark_placed).
THEOREM LivePositionsAreBacked == Spec => []LiveAgrees
<1>1. Backed => LiveAgrees
  BY DEF Backed, LiveAgrees
<1> QED
  BY <1>1, BackedHolds, PTL

---------------------------------------------------------------------------
(* The queue and the bridges implement Placement.                         *)

\* Steps that leave queue, venue and positions alone are stutters.
LEMMA PlacingQuiet ==
  ASSUME UNCHANGED <<cand, venue, inserted>>
  PROVE  UNCHANGED Placing!vars
BY DEF Placing!vars, StageOf, SentOf

\* A new row is queued.
LEMMA PlacingQueue ==
  ASSUME TypeOK, NEW c \in Cands, cand[c] = "absent",
         cand' = [cand EXCEPT ![c] = "pending"], UNCHANGED <<venue, inserted>>
  PROVE  Placing!Queue(c)
BY DEF TypeOK, Placing!Queue, Placing!Move, StageOf, SentOf

\* The claim takes pending rows only.
LEMMA PlacingTake ==
  ASSUME TypeOK, NEW w \in Workers, Claim(w)
  PROVE  Placing!Take(Oldest) /\ Oldest \in SUBSET Cands
<1>1. Oldest \subseteq Cands /\ \A c \in Oldest : cand[c] = "pending"
  BY DEF Oldest, Pending
<1>2. /\ cand' = [c \in Cands |-> IF c \in Oldest THEN "claimed" ELSE cand[c]]
      /\ UNCHANGED <<venue, inserted>>
  BY DEF Claim, tradeVars
<1> HIDE DEF Oldest
<1>3. Placing!Take(Oldest)
  BY <1>1, <1>2 DEF Placing!Take, StageOf, SentOf
<1> QED
  BY <1>1, <1>3

\* The market order of a live row is the one act of a row in hand.
LEMMA PlacingAct ==
  ASSUME TypeOK, Core, NEW w \in Workers, PlaceVenue(w)
  PROVE  UNCHANGED Placing!vars \/ Placing!Act(cur[w])
<1>1. CASE UNCHANGED venue
  BY <1>1, PlacingQuiet DEF PlaceVenue, candVars
<1>2. CASE venue' = [venue EXCEPT ![cur[w][1]] = @ + 1]
  <2>1. pc[w] = "venue" /\ cur[w] # NoCand /\ UNCHANGED <<cand, cur, inserted>>
    BY DEF PlaceVenue, candVars, Core, Hands
  <2>2. /\ cur[w] \in Cands /\ cand[cur[w]] = "claimed"
        /\ cur[w][2] = "live" /\ Fresh(cur[w])
    BY <2>1, InHandIsAlone DEF Core, Undone
  <2>3. PICK s \in Setups : cur[w] = <<s, "live">>
    BY <2>2 DEF Cands
  <2>4. \A c \in Cands : (c[2] = "live" /\ c[1] = s) <=> c = cur[w]
    BY <2>3 DEF Cands
  <2>5. venue[s] = 0 /\ venue' = [venue EXCEPT ![s] = 1]
    BY <1>2, <2>2, <2>3 DEF Fresh, TypeOK
  <2>6. SentOf(cur[w]) = 0
    BY <2>3, <2>5 DEF SentOf
  <2>7. \A c \in Cands : SentOf(c)' = IF c = cur[w] THEN 1 ELSE SentOf(c)
    BY <2>1, <2>4, <2>5 DEF SentOf, TypeOK, Cands
  <2>8. [c \in Cands |-> SentOf(c)'] = [[c \in Cands |-> SentOf(c)] EXCEPT ![cur[w]] = 1]
    BY <2>7
  <2>9. \A c \in Cands : StageOf(c)' = StageOf(c)
    BY <2>1 DEF StageOf
  <2>10. StageOf(cur[w]) = "inhand"
    BY <2>2 DEF StageOf
  <2> QED
    BY <2>1, <2>2, <2>6, <2>8, <2>9, <2>10 DEF Placing!Act
<1> QED
  BY <1>1, <1>2 DEF PlaceVenue

\* The position row of a live candidate is recorded after its order; a dry one is
\* acted on and recorded in one.
LEMMA PlacingRecord ==
  ASSUME TypeOK, Core, NEW w \in Workers, InsertPosition(w),
         cur[w][2] = "live" => venue[cur[w][1]] = 1
  PROVE  UNCHANGED Placing!vars \/ Placing!Act(cur[w]) \/ Placing!Record(cur[w])
<1>1. CASE UNCHANGED inserted
  BY <1>1, PlacingQuiet DEF InsertPosition, candVars
<1>2. CASE inserted' = [inserted EXCEPT ![cur[w]] = @ + 1]
  <2>1. pc[w] = "insert" /\ cur[w] # NoCand /\ UNCHANGED <<cand, cur, venue>>
    BY DEF InsertPosition, candVars, Core, Hands
  <2>2. cur[w] \in Cands /\ cand[cur[w]] = "claimed" /\ inserted[cur[w]] = 0
    BY <2>1, InHandIsAlone DEF Core, Undone
  <2>3. inserted' = [inserted EXCEPT ![cur[w]] = 1]
    BY <1>2, <2>2 DEF TypeOK
  <2>4. StageOf(cur[w]) = "inhand" /\ \A c \in Cands : StageOf(c)' = StageOf(c)
    BY <2>1, <2>2 DEF StageOf
  <2>5. CASE cur[w][2] = "live"
    <3>1. SentOf(cur[w]) = 1
      BY <2>5 DEF SentOf
    <3>2. \A c \in Cands : SentOf(c)' = SentOf(c)
      BY <2>1, <2>3, <2>5 DEF SentOf, TypeOK
    <3>3. Placing!Record(cur[w])
      BY <2>2, <2>3, <2>4, <3>1, <3>2 DEF Placing!Record
    <3> QED
      BY <3>3
  <2>6. CASE cur[w][2] # "live"
    <3>1. SentOf(cur[w]) = 0
      BY <2>2, <2>6 DEF SentOf
    <3>2. \A c \in Cands : SentOf(c)' = IF c = cur[w] THEN 1 ELSE SentOf(c)
      BY <2>1, <2>2, <2>3, <2>6 DEF SentOf, TypeOK
    <3>3. [c \in Cands |-> SentOf(c)'] = [[c \in Cands |-> SentOf(c)] EXCEPT ![cur[w]] = 1]
      BY <3>2
    <3>4. Placing!Act(cur[w])
      BY <2>2, <2>3, <2>4, <3>1, <3>3 DEF Placing!Act
    <3> QED
      BY <3>4
  <2> QED
    BY <2>5, <2>6
<1> QED
  BY <1>1, <1>2 DEF InsertPosition

\* The status update settles the row in hand.
LEMMA PlacingSettle ==
  ASSUME TypeOK, Core, NEW w \in Workers, Mark(w)
  PROVE  UNCHANGED Placing!vars \/ Placing!Settle(cur[w])
<1>1. CASE UNCHANGED cand
  BY <1>1, PlacingQuiet DEF Mark, tradeVars
<1>2. CASE cand' = [cand EXCEPT ![cur[w]] = Settled(w)]
  <2>1. pc[w] = "mark" /\ cur[w] # NoCand /\ UNCHANGED <<venue, inserted>>
    BY DEF Mark, tradeVars, Core, Hands
  <2>2. cur[w] \in Cands /\ cand[cur[w]] = "claimed"
    BY <2>1, InHandIsAlone
  <2>3. Settled(w) \in {"errored", "placed"}
    BY DEF Settled
  <2> QED
    BY <1>2, <2>1, <2>2, <2>3 DEF TypeOK, Placing!Settle, Placing!Move, StageOf, SentOf
<1> QED
  BY <1>1, <1>2 DEF Mark

\* Every step of the system is a step of Placement or leaves its state alone.
LEMMA NextPlaces == TypeOK /\ Core /\ Backed /\ [Next]_vars => [Placing!Next]_Placing!vars
<1> SUFFICES ASSUME TypeOK, Core, Backed, [Next]_vars PROVE [Placing!Next]_Placing!vars
  OBVIOUS
<1>1. CASE UNCHANGED <<cand, venue, inserted>>
  BY <1>1, PlacingQuiet
<1>2. ASSUME NEW s \in Setups, SelectorInsert(s) \/ EnqueueLive(s)
      PROVE  [Placing!Next]_Placing!vars
  <2>1. <<s, "dry">> \in Cands /\ <<s, "live">> \in Cands
    BY DEF Cands, Modes
  <2>2. UNCHANGED <<venue, inserted>>
    BY <1>2 DEF SelectorInsert, EnqueueLive, tradeVars
  <2>3. \/ UNCHANGED cand
        \/ \E c \in {<<s, "dry">>, <<s, "live">>} :
             cand[c] = "absent" /\ cand' = [cand EXCEPT ![c] = "pending"]
    BY <1>2 DEF SelectorInsert, EnqueueLive, candVars
  <2> QED
    BY <1>1, <2>1, <2>2, <2>3, PlacingQueue DEF Placing!Next
<1>3. ASSUME NEW w \in Workers, BridgeStep(w) \/ EmptyTick(w) \/ Crash(w)
      PROVE  [Placing!Next]_Placing!vars
  <2>1. CASE Claim(w)
    BY <2>1, PlacingTake DEF Placing!Next
  <2>2. CASE PlaceVenue(w)
    BY <2>2, PlacingAct, InHandIsCandidate DEF PlaceVenue, Placing!Next
  <2>3. CASE InsertPosition(w)
    <3>1. cur[w] \in Cands /\ pc[w] = "insert"
      BY <2>3, InHandIsCandidate DEF InsertPosition
    <3>2. cur[w][2] = "live" => venue[cur[w][1]] = 1
      <4>1. cur[w][2] = "live" => venue[cur[w][1]] >= 1
        BY <3>1 DEF Backed, DoneAt, Acked
      <4>2. cur[w][1] \in Setups
        BY <3>1 DEF Cands
      <4> QED
        BY <4>1, <4>2 DEF Core, AtMostOnce, TypeOK
    <3> QED
      BY <2>3, <3>1, <3>2, PlacingRecord DEF Placing!Next
  <2>4. CASE Mark(w)
    BY <2>4, PlacingSettle, InHandIsCandidate DEF Mark, Placing!Next
  <2>5. CASE \/ (\E c \in Cands : Dispatch(w, c))
             \/ Gates(w) \/ Dedup(w) \/ Cap(w) \/ InsertOrder(w)
             \/ RejectSetup(w) \/ EndTick(w) \/ EmptyTick(w) \/ Crash(w)
    BY <1>1, <2>5 DEF Dispatch, Gates, Dedup, Cap, InsertOrder, RejectSetup, EndTick,
                      EmptyTick, Crash, vars, candVars, tradeVars
  <2> QED
    BY <1>3, <2>1, <2>2, <2>3, <2>4, <2>5 DEF BridgeStep
<1>4. CASE SetupStep \/ SelectorRead \/ SelectorFail
           \/ (\E c \in Cands : ClosePosition(c)) \/ UNCHANGED vars
  BY <1>1, <1>4 DEF SetupStep, Arm, CloseSetup, RetireRead, RetireSetup, RetirePositions,
                    SelectorRead, SelectorFail, ClosePosition, vars, candVars, tradeVars
<1> QED
  BY <1>2, <1>3, <1>4 DEF Next, SelectorStep

\* selected_candidates and execution_bridge implement Placement, whatever fails and
\* however many bridges run: a candidate acts on the market only in hand, only once,
\* and never after it is settled.
THEOREM BridgesImplementPlacement == Spec => PlacesOnce
<1>1. Init => Placing!Init
  BY DEF Init, Placing!Init, StageOf, SentOf, Cands
<1>2. TypeOK /\ Core /\ Backed /\ [Next]_vars => [Placing!Next]_Placing!vars
  BY NextPlaces
<1> QED
  BY <1>1, <1>2, TypeCorrect, CoreHolds, BackedHolds, PTL DEF Spec, PlacesOnce, Placing!Spec

---------------------------------------------------------------------------
(* What the gates of several bridges let through together.                 *)

\* The bridges whose row on the key of c is past the count of open positions.
PastDedup(c) ==
  {w \in Workers : pc[w] \in {"cap", "venue", "order", "insert"} /\ cur[w] \in SameKey(c)}

\* What is open on a key and what is on its way there: a bridge gets past the count
\* only when nothing is open, or blind.
Exposure ==
  \A c \in Cands :
    SumFunctionOnSet(open, SameKey(c)) + Cardinality(PastDedup(c)) <= Cardinality(Workers) + Blind

\* The bridges whose row is past the notional gate of a mode.
PastCap(m) == {w \in Workers : pc[w] \in {"venue", "order", "insert"} /\ cur[w][2] = m}

\* What is open in a mode and what is on its way there.
Exposed ==
  \A m \in Modes :
    OpenNotional(m) + Cardinality(PastCap(m)) * PosCap
      < AggCap + (Cardinality(Workers) + Blind) * PosCap

\* Failures are only ever counted, and the deployment stays.
LEMMA BlindGrows ==
  ASSUME TypeOK, Next
  PROVE  dep' = dep /\ Blind \in Nat /\ Blind' \in Nat /\ Blind <= Blind'
<1>1. dep' = dep /\ faults \in Nat
  BY ZenonT(60) DEF TypeOK, Next, SetupStep, SelectorStep, BridgeStep, Arm, CloseSetup, RetireRead, RetireSetup,
      RetirePositions, SelectorRead, SelectorFail, SelectorInsert, EnqueueLive, ClosePosition, Claim,
      Dispatch, Gates, Dedup, Cap, PlaceVenue, InsertOrder, InsertPosition, Mark, RejectSetup, EndTick,
      EmptyTick, Crash, setupVars, vars
<1>2. faults' \in {faults, faults + 1}
  BY ZenonT(60) DEF Next, SetupStep, SelectorStep, BridgeStep, Arm, CloseSetup, RetireRead, RetireSetup,
      RetirePositions, SelectorRead, SelectorFail, SelectorInsert, EnqueueLive, ClosePosition, Claim,
      Dispatch, Gates, Dedup, Cap, PlaceVenue, InsertOrder, InsertPosition, Mark, RejectSetup, EndTick,
      EmptyTick, Crash, Fail, vars
<1> QED
  BY <1>1, <1>2 DEF Blind

\* Positions are opened by one step only; every other one leaves or closes them.
LEMMA OpenShrinks ==
  ASSUME TypeOK, Next, \A w \in Workers : ~InsertPosition(w)
  PROVE  \A c \in Cands : open[c] \in Nat /\ open'[c] \in Nat /\ open'[c] <= open[c]
<1>1. \A c \in Cands : open[c] \in Nat
  BY DEF TypeOK
<1>2. ASSUME NEW r \in Retirers, NEW s \in Setups, RetirePositions(r, s)
      PROVE  \A c \in Cands : open'[c] \in Nat /\ open'[c] <= open[c]
  BY <1>1, <1>2 DEF RetirePositions
<1>3. ASSUME NEW c \in Cands, ClosePosition(c)
      PROVE  \A d \in Cands : open'[d] \in Nat /\ open'[d] <= open[d]
  BY <1>1, <1>3 DEF ClosePosition, TypeOK
<1>4. CASE open' = open
  BY <1>1, <1>4
<1>5. \/ open' = open
      \/ \E r \in Retirers, s \in Setups : RetirePositions(r, s)
      \/ \E c \in Cands : ClosePosition(c)
  BY ZenonT(60) DEF Next, SetupStep, SelectorStep, BridgeStep, Arm, CloseSetup, RetireRead, RetireSetup,
      SelectorRead, SelectorFail, SelectorInsert, EnqueueLive, Claim,
      Dispatch, Gates, Dedup, Cap, PlaceVenue, InsertOrder, Mark, RejectSetup, EndTick,
      EmptyTick, Crash, tradeVars, vars
<1> QED
  BY <1>1, <1>2, <1>3, <1>4, <1>5

\* A row is past a gate because it was, or because a bridge takes it there now.
LEMMA PastBefore ==
  ASSUME TypeOK, Next, NEW v \in Workers
  PROVE  /\ pc'[v] \in {"cap", "venue", "order", "insert"} =>
              /\ cur'[v] = cur[v]
              /\ pc[v] \in {"cap", "venue", "order", "insert"} \/ Dedup(v)
         /\ pc'[v] \in {"venue", "order", "insert"} =>
              /\ cur'[v] = cur[v]
              /\ pc[v] \in {"venue", "order", "insert"} \/ Cap(v)
<1>1. CASE UNCHANGED <<pc, cur>>
  BY <1>1
<1>2. ASSUME NEW w \in Workers, BridgeStep(w) \/ Crash(w)
      PROVE  /\ pc'[v] \in {"cap", "venue", "order", "insert"} =>
                  /\ cur'[v] = cur[v]
                  /\ pc[v] \in {"cap", "venue", "order", "insert"} \/ Dedup(v)
             /\ pc'[v] \in {"venue", "order", "insert"} =>
                  /\ cur'[v] = cur[v]
                  /\ pc[v] \in {"venue", "order", "insert"} \/ Cap(v)
  <2>1. ASSUME v # w PROVE pc'[v] = pc[v] /\ cur'[v] = cur[v]
    BY <1>2, <2>1 DEF TypeOK, BridgeStep, Claim, Dispatch, Gates, Dedup, Cap, Built, NotBuilt, PlaceVenue,
        InsertOrder, InsertPosition, Mark, RejectSetup, EndTick, Crash, Abandon, Return, Goto
  <2>2. ASSUME v = w, Claim(w) \/ (\E c \in Cands : Dispatch(w, c)) \/ Gates(w) \/ InsertPosition(w)
                    \/ Mark(w) \/ RejectSetup(w) \/ EndTick(w) \/ Crash(w)
        PROVE  pc'[v] \in {"next", "gates", "dedup", "mark", "idle", "reject"}
    BY <2>2 DEF TypeOK, Claim, Dispatch, Gates, NotBuilt, InsertPosition, Mark, RejectSetup, EndTick, Crash,
        Abandon, Return, Goto
  <2>3. ASSUME v = w, Dedup(w) PROVE pc'[v] \in {"cap", "mark"} /\ cur' = cur
    BY <2>3 DEF TypeOK, Dedup, NotBuilt, Return, Goto
  <2>4. ASSUME v = w, Cap(w) PROVE pc[v] = "cap" /\ cur' = cur
    BY <2>4 DEF TypeOK, Cap
  <2>5. ASSUME v = w, PlaceVenue(w) \/ InsertOrder(w)
        PROVE  pc[v] \in {"venue", "order"} /\ cur' = cur
    BY <2>5 DEF TypeOK, PlaceVenue, InsertOrder
  <2> QED
    BY <1>2, <2>1, <2>2, <2>3, <2>4, <2>5 DEF BridgeStep
<1>3. UNCHANGED <<pc, cur>> \/ \E w \in Workers : BridgeStep(w) \/ Crash(w)
  BY ZenonT(60) DEF Next, SetupStep, SelectorStep, Arm, CloseSetup, RetireRead, RetireSetup, RetirePositions,
      SelectorRead, SelectorFail, SelectorInsert, EnqueueLive, ClosePosition, EmptyTick,
      bridgeVars, vars
<1> QED
  BY <1>1, <1>2, <1>3

\* The rest of what a bridge step leaves alone.
LEMMA OneActs ==
  ASSUME TypeOK, NEW w \in Workers, Dedup(w) \/ Cap(w) \/ InsertPosition(w)
  PROVE  \A v \in Workers \ {w} : pc'[v] = pc[v] /\ cur'[v] = cur[v]
BY DEF TypeOK, Dedup, Cap, Built, InsertPosition, NotBuilt, Return, Goto

\* Inserting the position ends the way there.
LEMMA Lands ==
  ASSUME TypeOK, NEW w \in Workers, InsertPosition(w)
  PROVE  /\ pc[w] = "insert" /\ pc'[w] = "mark"
         /\ \/ UNCHANGED open
            \/ open' = [open EXCEPT ![cur[w]] = @ + 1]
BY DEF TypeOK, InsertPosition, Return, Goto

---------------------------------------------------------------------------
(* Open positions on one key.                                              *)

\* Two rows with a key in common share the whole of it.
LEMMA KeysPart ==
  ASSUME NEW c \in Cands, NEW d \in SameKey(c)
  PROVE  d \in Cands /\ SameKey(d) = SameKey(c)
BY DEF SameKey

\* The open positions of a key add up to a number, nothing when none is open.
LEMMA OnKey ==
  ASSUME TypeOK, NEW c \in Cands
  PROVE  /\ SumFunctionOnSet(open, SameKey(c)) \in Int
         /\ ~AlreadyOpen(c) => SumFunctionOnSet(open, SameKey(c)) = 0
<1>1. IsFiniteSet(SameKey(c)) /\ \A d \in SameKey(c) : open[d] \in Int /\ open[d] \in Nat
  BY CandsFinite DEF SameKey, TypeOK
<1>2. SumFunctionOnSet(open, SameKey(c)) \in Int
  BY <1>1, SumTyped
<1>3. ASSUME ~AlreadyOpen(c) PROVE SumFunctionOnSet(open, SameKey(c)) = 0
  <2>1. \A d \in SameKey(c) \ {} : open[d] = 0
    BY <1>1, <1>3 DEF AlreadyOpen
  <2>2. {} \in SUBSET SameKey(c)
    OBVIOUS
  <2>3. SumFunctionOnSet(open, SameKey(c)) = SumFunctionOnSet(open, {})
    BY <1>1, <2>1, <2>2, SumSkips
  <2> QED
    BY <2>3, SumEmpty
<1> QED
  BY <1>2, <1>3

LEMMA ExposureInit == Init => Exposure
<1> SUFFICES ASSUME Init, NEW c \in Cands
             PROVE  SumFunctionOnSet(open, SameKey(c)) + Cardinality(PastDedup(c))
                      <= Cardinality(Workers) + Blind
  BY DEF Exposure
<1>1. PastDedup(c) = {} /\ Cardinality(PastDedup(c)) = 0 /\ Blind = 0
  BY FS_EmptySet DEF Init, PastDedup, Blind
<1>2. ~AlreadyOpen(c)
  BY DEF Init, AlreadyOpen, SameKey
<1>3. SumFunctionOnSet(open, SameKey(c)) = 0
  BY <1>2, OnKey, TypeInit
<1> QED
  BY <1>1, <1>3, CandsFinite

LEMMA ExposureStep == TypeOK /\ Exposure /\ Next => Exposure'
<1> SUFFICES ASSUME TypeOK, Exposure, Next, NEW c \in Cands
             PROVE  SumFunctionOnSet(open', SameKey(c)) + Cardinality(PastDedup(c)')
                      <= Cardinality(Workers) + Blind'
  BY DEF Exposure
<1> DEFINE K == SameKey(c)
           n == SumFunctionOnSet(open, K)
           P == PastDedup(c)
           Q == PastDedup(c)'
<1>1. /\ IsFiniteSet(K) /\ K \subseteq Cands /\ Cardinality(Workers) \in Nat
      /\ \A d \in K : open[d] \in Int /\ open[d] \in Nat /\ open'[d] \in Int
  <2>1. open \in [Cands -> Nat] /\ open' \in [Cands -> Nat]
    BY TypeNext DEF TypeOK
  <2> QED
    BY <2>1, CandsFinite DEF SameKey
<1>2. /\ dep' = dep /\ Blind \in Nat /\ Blind' \in Nat /\ Blind <= Blind'
  BY BlindGrows
<1>3. n \in Int /\ n + Cardinality(P) <= Cardinality(Workers) + Blind
  BY OnKey DEF Exposure
<1>4. /\ P \subseteq Workers /\ Q \subseteq Workers /\ IsFiniteSet(P) /\ IsFiniteSet(Q)
      /\ Cardinality(P) \in Nat /\ Cardinality(Q) \in Nat
      /\ Cardinality(Q) <= Cardinality(Workers)
  <2>1. P \subseteq Workers /\ Q \subseteq Workers
    BY DEF PastDedup
  <2> HIDE DEF P, Q
  <2> QED
    BY <2>1, CandsFinite, FS_Subset, FS_CardinalityType
<1>5. ASSUME NEW w \in Workers, Dedup(w) PROVE n = SumFunctionOnSet(open', K)
  BY <1>5 DEF Dedup, tradeVars
<1>6. ASSUME NEW w \in Workers, Dedup(w), cur[w] \in K
      PROVE  SumFunctionOnSet(open', K) + Cardinality(Q) <= Cardinality(Workers) + Blind'
  <2>1. Q \subseteq P \cup {w}
    <3>1. \A v \in Workers : v # w => pc'[v] = pc[v] /\ cur'[v] = cur[v]
      BY <1>6, OneActs
    <3> QED
      BY <3>1 DEF PastDedup
  <2>2. Cardinality(Q) <= Cardinality(P) + 1
    <3> HIDE DEF P, Q
    <3> QED
      BY <1>4, <2>1, OneMore
  <2>3. CASE AlreadyOpen(cur[w]) /\ NotBuilt(w)
    <3>1. pc'[w] = "mark"
      BY <2>3 DEF NotBuilt, Return, Goto, TypeOK
    <3>2. Q \subseteq P
      BY <2>1, <3>1 DEF PastDedup
    <3>3. Cardinality(Q) <= Cardinality(P)
      <4> HIDE DEF P, Q
      <4> QED
        BY <1>4, <3>2, FS_Subset
    <3> QED
      BY <1>2, <1>3, <1>4, <1>5, <1>6, <3>3, <1>1
  <2>4. CASE ~AlreadyOpen(cur[w])
    <3>1. ~AlreadyOpen(c)
      <4>1. SameKey(cur[w]) = K
        BY <1>6, KeysPart
      <4> QED
        BY <2>4, <4>1 DEF AlreadyOpen
    <3>2. n = 0
      BY <3>1, OnKey
    <3> QED
      BY <1>1, <1>2, <1>4, <1>5, <1>6, <3>2
  <2>5. CASE Fail("count")
    <3>1. Blind' = Blind + 1
      BY <1>2, <2>5 DEF Blind, Fail
    <3> QED
      BY <1>1, <1>2, <1>3, <1>4, <1>5, <1>6, <2>2, <3>1
  <2> QED
    BY <1>6, <2>3, <2>4, <2>5 DEF Dedup
<1>7. ASSUME \A w \in Workers : ~(Dedup(w) /\ cur[w] \in K) PROVE Q \subseteq P
  BY <1>7, PastBefore DEF PastDedup
<1>8. ASSUME NEW w \in Workers, InsertPosition(w)
      PROVE  SumFunctionOnSet(open', K) + Cardinality(Q) <= Cardinality(Workers) + Blind'
  <2>1. /\ pc[w] = "insert" /\ pc'[w] = "mark"
        /\ \A v \in Workers : v # w => pc'[v] = pc[v] /\ cur'[v] = cur[v]
    BY <1>8, Lands, OneActs
  <2>2. Q \subseteq P /\ Q \subseteq P \ {w}
    BY <2>1 DEF PastDedup
  <2>3. Cardinality(Q) <= Cardinality(P)
    <3> HIDE DEF P, Q
    <3> QED
      BY <1>4, <2>2, FS_Subset
  <2>4. ASSUME open' = open PROVE n = SumFunctionOnSet(open', K)
    BY <2>4
  <2>5. ASSUME open' = [open EXCEPT ![cur[w]] = @ + 1], cur[w] \notin K
        PROVE  n = SumFunctionOnSet(open', K)
    <3>1. \A d \in K : open[d] = open'[d]
      BY <1>1, <2>5 DEF TypeOK
    <3> HIDE DEF K
    <3> QED
      BY <1>1, <3>1, SumAgrees
  <2>6. ASSUME open' = [open EXCEPT ![cur[w]] = @ + 1], cur[w] \in K
        PROVE  SumFunctionOnSet(open', K) = n + 1 /\ Cardinality(Q) <= Cardinality(P) - 1
    <3>1. PICK d \in K : d = cur[w]
      BY <2>6
    <3>2. open'[d] = open[d] + 1 /\ \A b \in K \ {d} : open'[b] = open[b]
      BY <1>1, <2>6, <3>1 DEF TypeOK
    <3>3. SumFunctionOnSet(open', K) = n + open'[d] - open[d]
      <4> HIDE DEF K
      <4> QED
        BY <1>1, <3>2, SumMoves
    <3>4. w \in P
      BY <2>1, <2>6 DEF PastDedup
    <3>5. Cardinality(P \ {w}) = Cardinality(P) - 1 /\ IsFiniteSet(P \ {w})
      <4> HIDE DEF P
      <4> QED
        BY <1>4, <3>4, FS_RemoveElement
    <3>6. Cardinality(Q) <= Cardinality(P \ {w})
      <4> HIDE DEF P, Q
      <4> QED
        BY <2>2, <3>5, FS_Subset
    <3> QED
      BY <1>1, <1>3, <3>2, <3>3, <3>5, <3>6
  <2>7. open' = open \/ open' = [open EXCEPT ![cur[w]] = @ + 1]
    BY <1>8, Lands
  <2> QED
    BY <1>1, <1>2, <1>3, <1>4, <2>3, <2>4, <2>5, <2>6, <2>7
<1>9. ASSUME \A w \in Workers : ~(Dedup(w) /\ cur[w] \in K), \A w \in Workers : ~InsertPosition(w)
      PROVE  SumFunctionOnSet(open', K) + Cardinality(Q) <= Cardinality(Workers) + Blind'
  <2>1. \A d \in K : open'[d] \in Int /\ open[d] \in Int /\ open'[d] <= open[d]
    BY <1>1, <1>9, OpenShrinks
  <2>2. SumFunctionOnSet(open', K) <= n /\ SumFunctionOnSet(open', K) \in Int
    <3> HIDE DEF K
    <3> QED
      BY <1>1, <2>1, SumMonotone, SumTyped
  <2>3. Q \subseteq P
    BY <1>7, <1>9
  <2>4. Cardinality(Q) <= Cardinality(P)
    <3> HIDE DEF P, Q
    <3> QED
      BY <1>4, <2>3, FS_Subset
  <2> QED
    BY <1>1, <1>2, <1>3, <1>4, <2>2, <2>4
<1> QED
  BY <1>6, <1>8, <1>9

\* The count before the insert is not made with it, so every bridge may add one
\* position to a key where none was open, and a count that failed lets in one more
\* (already_open, build_live_position_for_mode).
THEOREM ExposureBounded == Spec => []Exposure
<1>1. Init => Exposure
  BY ExposureInit
<1>2. TypeOK /\ Exposure /\ [Next]_vars => Exposure'
  <2>1. ASSUME Exposure, UNCHANGED vars PROVE Exposure'
    BY <2>1 DEF Exposure, PastDedup, Blind, vars, setupVars, bridgeVars, tradeVars
  <2> QED
    BY <2>1, ExposureStep
<1> QED
  BY <1>1, <1>2, TypeCorrect, PTL DEF Spec

\* There are never more open positions on a key than bridges and failed counts.
THEOREM ExposureDedupHolds == Spec => []ExposureDedup
<1>1. TypeOK /\ Exposure => ExposureDedup
  <2> SUFFICES ASSUME TypeOK, Exposure, NEW c \in Cands
               PROVE  SumFunctionOnSet(open, SameKey(c)) <= Cardinality(Workers) + Blind
    BY DEF ExposureDedup
  <2>1. SumFunctionOnSet(open, SameKey(c)) + Cardinality(PastDedup(c))
          <= Cardinality(Workers) + Blind
    BY DEF Exposure
  <2>2. IsFiniteSet(PastDedup(c))
    BY CandsFinite, FS_Subset DEF PastDedup
  <2>3. Blind \in Nat
    BY DEF Blind, TypeOK
  <2> QED
    BY <2>1, <2>2, <2>3, OnKey, CandsFinite, FS_CardinalityType
<1> QED
  BY <1>1, TypeCorrect, ExposureBounded, PTL

---------------------------------------------------------------------------
(* What is open in one mode.                                               *)

\* What a position of each setup counts for.
Worth(m) == [s \in Setups |-> open[<<s, m>>] * Notional(s)]

LEMMA NotionalIsCapped == \A s \in Setups : Notional(s) \in Nat /\ Notional(s) <= PosCap
BY SizingAssumption DEF Notional

\* Every term is a number, and the gate's sum is one.
LEMMA WorthTyped ==
  ASSUME TypeOK, NEW m \in Modes
  PROVE  /\ \A s \in Setups : /\ Worth(m)[s] \in Nat /\ Worth(m)[s] \in Int
                              /\ Worth(m)[s] = open[<<s, m>>] * Notional(s)
                              /\ <<s, m>> \in Cands /\ open[<<s, m>>] \in Nat
         /\ OpenNotional(m) \in Int
         /\ OpenNotional(m) = SumFunctionOnSet(Worth(m), Setups)
<1>1. OpenNotional(m) = SumFunctionOnSet(Worth(m), Setups)
  BY DEF OpenNotional, Worth
<1>2. \A s \in Setups : /\ <<s, m>> \in Cands /\ open[<<s, m>>] \in Nat
                        /\ Worth(m)[s] = open[<<s, m>>] * Notional(s)
  BY DEF TypeOK, Cands, Worth
<1>3. \A s \in Setups : Worth(m)[s] \in Nat /\ Worth(m)[s] \in Int
  <2> SUFFICES ASSUME NEW s \in Setups PROVE Worth(m)[s] \in Nat
    OBVIOUS
  <2>1. open[<<s, m>>] \in Nat /\ Notional(s) \in Nat
    BY <1>2, NotionalIsCapped
  <2>2. open[<<s, m>>] * Notional(s) \in Nat
    BY <2>1
  <2> QED
    BY <1>2, <2>2
<1>4. OpenNotional(m) \in Int
  BY <1>1, <1>3, CandsFinite, SumTyped
<1> QED
  BY <1>1, <1>2, <1>3, <1>4

LEMMA ExposedInit == Init => Exposed
<1> SUFFICES ASSUME Init, NEW m \in Modes
             PROVE  OpenNotional(m) + Cardinality(PastCap(m)) * PosCap
                      < AggCap + (Cardinality(Workers) + Blind) * PosCap
  BY DEF Exposed
<1>1. PastCap(m) = {} /\ Cardinality(PastCap(m)) = 0 /\ Blind = 0
  BY FS_EmptySet DEF Init, PastCap, Blind
<1>2. TypeOK
  BY TypeInit
<1>3. \A s \in Setups \ {} : Worth(m)[s] = 0
  <2> SUFFICES ASSUME NEW s \in Setups PROVE Worth(m)[s] = 0
    OBVIOUS
  <2>1. open[<<s, m>>] = 0 /\ Notional(s) \in Nat
    BY NotionalIsCapped DEF Init, Cands
  <2>2. Worth(m)[s] = open[<<s, m>>] * Notional(s)
    BY DEF Worth
  <2> QED
    BY <2>1, <2>2
<1>4. SumFunctionOnSet(Worth(m), Setups) = SumFunctionOnSet(Worth(m), {})
  <2>1. {} \in SUBSET Setups
    OBVIOUS
  <2> QED
    BY <1>2, <1>3, <2>1, WorthTyped, CandsFinite, SumSkips
<1>5. OpenNotional(m) = 0
  BY <1>2, <1>4, SumEmpty, WorthTyped
<1>6. Cardinality(Workers) * PosCap \in Nat
  BY CandsFinite, SizingAssumption, Times
<1> QED
  BY <1>1, <1>5, <1>6, SizingAssumption, CandsFinite

LEMMA ExposedStep == TypeOK /\ Exposed /\ Next => Exposed'
<1> SUFFICES ASSUME TypeOK, Exposed, Next, NEW m \in Modes
             PROVE  OpenNotional(m)' + Cardinality(PastCap(m)') * PosCap
                      < AggCap + (Cardinality(Workers) + Blind') * PosCap
  BY DEF Exposed
<1>0. TypeOK'
  BY TypeNext
<1> DEFINE n == OpenNotional(m)
           k == OpenNotional(m)'
           P == PastCap(m)
           Q == PastCap(m)'
           W == Cardinality(Workers)
<1>1. /\ W \in Nat /\ PosCap \in Nat /\ AggCap \in Nat \ {0} /\ TypeOK'
  BY <1>0, CandsFinite, SizingAssumption
<1>2. /\ Blind \in Nat /\ Blind' \in Nat /\ Blind <= Blind'
      /\ W + Blind \in Nat /\ W + Blind' \in Nat
  BY <1>1, BlindGrows
<1>3. n \in Int /\ n + Cardinality(P) * PosCap < AggCap + (W + Blind) * PosCap
  BY WorthTyped DEF Exposed
<1>4. /\ P \subseteq Workers /\ Q \subseteq Workers /\ IsFiniteSet(P) /\ IsFiniteSet(Q)
      /\ Cardinality(P) \in Nat /\ Cardinality(Q) \in Nat
      /\ Cardinality(Q) <= W
  <2>1. P \subseteq Workers /\ Q \subseteq Workers
    BY DEF PastCap
  <2> HIDE DEF P, Q
  <2> QED
    BY <2>1, CandsFinite, FS_Subset, FS_CardinalityType
<1>5. \A s \in Setups : Worth(m)'[s] \in Int /\ Worth(m)'[s] = open'[<<s, m>>] * Notional(s)
  BY <1>1, NotionalIsCapped, Times DEF Worth, TypeOK, Cands
<1>6. k \in Int /\ k = SumFunctionOnSet(Worth(m)', Setups)
  <2>1. k = SumFunctionOnSet(Worth(m)', Setups)
    BY DEF OpenNotional, Worth
  <2> QED
    BY <1>5, <2>1, CandsFinite, SumTyped
<1>7. (W + Blind) * PosCap <= (W + Blind') * PosCap
  BY <1>1, <1>2, Times
\* What the arithmetic comes to: what is open stays and no bridge comes nearer.
<1>8. ASSUME k <= n, Cardinality(Q) <= Cardinality(P)
      PROVE  k + Cardinality(Q) * PosCap < AggCap + (W + Blind') * PosCap
  <2>1. /\ Cardinality(Q) * PosCap <= Cardinality(P) * PosCap
        /\ Cardinality(Q) * PosCap \in Nat /\ Cardinality(P) * PosCap \in Nat
        /\ (W + Blind) * PosCap \in Nat /\ (W + Blind') * PosCap \in Nat
    BY <1>1, <1>2, <1>4, <1>8, Times
  <2> HIDE DEF n, k, P, Q, W
  <2> QED
    BY <1>1, <1>3, <1>6, <1>7, <1>8, <2>1
<1>9. ASSUME NEW w \in Workers, Cap(w)
      PROVE  k + Cardinality(Q) * PosCap < AggCap + (W + Blind') * PosCap
  <2>1. k = n
    BY <1>9 DEF Cap, OpenNotional, tradeVars
  <2>2. Q \subseteq P \cup {w}
    <3>1. \A v \in Workers : v # w => pc'[v] = pc[v] /\ cur'[v] = cur[v]
      BY <1>9, OneActs
    <3> QED
      BY <3>1 DEF PastCap
  <2>3. CASE NotBuilt(w)
    <3>1. pc'[w] = "mark"
      BY <2>3 DEF NotBuilt, Return, Goto, TypeOK
    <3>2. Q \subseteq P
      BY <2>2, <3>1 DEF PastCap
    <3>3. Cardinality(Q) <= Cardinality(P)
      <4> HIDE DEF P, Q
      <4> QED
        BY <1>4, <3>2, FS_Subset
    <3> QED
      BY <1>3, <1>8, <2>1, <3>3
  <2>4. CASE OpenNotional(cur[w][2]) < AggCap /\ cur[w][2] = m
    <3>1. /\ Cardinality(Q) * PosCap <= W * PosCap /\ W * PosCap <= (W + Blind') * PosCap
          /\ Cardinality(Q) * PosCap \in Nat /\ W * PosCap \in Nat /\ (W + Blind') * PosCap \in Nat
      BY <1>1, <1>2, <1>4, Times
    <3>2. k < AggCap
      BY <2>1, <2>4
    <3> HIDE DEF n, k, P, Q, W
    <3> QED
      BY <1>1, <1>6, <3>1, <3>2
  <2>5. CASE cur[w][2] # m
    <3>1. cur' = cur
      BY <1>9 DEF Cap
    <3>2. Q \subseteq P
      BY <2>2, <2>5, <3>1 DEF PastCap
    <3>3. Cardinality(Q) <= Cardinality(P)
      <4> HIDE DEF P, Q
      <4> QED
        BY <1>4, <3>2, FS_Subset
    <3> QED
      BY <1>3, <1>8, <2>1, <3>3
  <2>6. CASE Fail("count")
    <3>1. Blind' = Blind + 1
      BY <1>2, <2>6, BlindGrows DEF Blind, Fail
    <3>2. Cardinality(Q) <= Cardinality(P) + 1
      <4> HIDE DEF P, Q
      <4> QED
        BY <1>4, <2>2, OneMore
    <3>3. /\ Cardinality(Q) * PosCap <= (Cardinality(P) + 1) * PosCap
          /\ (Cardinality(P) + 1) * PosCap = Cardinality(P) * PosCap + PosCap
          /\ (W + Blind + 1) * PosCap = (W + Blind) * PosCap + PosCap
          /\ Cardinality(Q) * PosCap \in Nat /\ Cardinality(P) * PosCap \in Nat
          /\ (W + Blind) * PosCap \in Nat
      <4>1. Cardinality(P) + 1 \in Nat
        BY <1>4
      <4> QED
        BY <1>1, <1>2, <1>4, <3>2, <4>1, Times
    <3>4. W + Blind' = W + Blind + 1
      BY <1>1, <1>2, <3>1
    <3> HIDE DEF n, k, P, Q, W
    <3> QED
      BY <1>1, <1>3, <2>1, <3>3, <3>4
  <2> QED
    BY <1>9, <2>3, <2>4, <2>5, <2>6 DEF Cap
<1>10. ASSUME \A w \in Workers : ~Cap(w) PROVE Q \subseteq P
  BY <1>10, PastBefore DEF PastCap
<1>11. ASSUME \A w \in Workers : ~Cap(w), \A c \in Cands : open'[c] <= open[c]
       PROVE  k + Cardinality(Q) * PosCap < AggCap + (W + Blind') * PosCap
  <2>1. \A s \in Setups : /\ Worth(m)'[s] \in Int /\ Worth(m)[s] \in Int
                          /\ Worth(m)'[s] <= Worth(m)[s]
    <3> SUFFICES ASSUME NEW s \in Setups
                 PROVE  /\ Worth(m)'[s] \in Int /\ Worth(m)[s] \in Int
                        /\ Worth(m)'[s] <= Worth(m)[s]
      OBVIOUS
    <3>1. /\ open[<<s, m>>] \in Nat /\ open'[<<s, m>>] \in Nat
          /\ open'[<<s, m>>] <= open[<<s, m>>] /\ Notional(s) \in Nat
      BY <1>1, <1>11, NotionalIsCapped DEF TypeOK, Cands
    <3> QED
      BY <1>5, <3>1, WorthTyped, Times
  <2>2. k <= n
    <3>1. n = SumFunctionOnSet(Worth(m), Setups)
      BY WorthTyped
    <3> QED
      BY <1>6, <2>1, <3>1, CandsFinite, SumMonotone
  <2>3. Cardinality(Q) <= Cardinality(P)
    <3>1. Q \subseteq P
      BY <1>10, <1>11
    <3> HIDE DEF P, Q
    <3> QED
      BY <1>4, <3>1, FS_Subset
  <2> QED
    BY <1>8, <2>2, <2>3
<1>12. ASSUME NEW w \in Workers, InsertPosition(w), open' = [open EXCEPT ![cur[w]] = @ + 1]
       PROVE  k + Cardinality(Q) * PosCap < AggCap + (W + Blind') * PosCap
  <2>1. /\ pc[w] = "insert" /\ pc'[w] = "mark"
        /\ \A v \in Workers : v # w => pc'[v] = pc[v] /\ cur'[v] = cur[v]
    BY <1>12, Lands, OneActs
  <2>2. Q \subseteq P \ {w}
    BY <2>1 DEF PastCap
  <2>3. n = SumFunctionOnSet(Worth(m), Setups)
    BY WorthTyped
  <2>4. ASSUME \A s \in Setups : cur[w] # <<s, m>>
        PROVE  k = n /\ Cardinality(Q) <= Cardinality(P)
    <3>1. \A s \in Setups : Worth(m)[s] = Worth(m)'[s]
      <4>1. \A s \in Setups : open'[<<s, m>>] = open[<<s, m>>]
        BY <1>12, <2>4 DEF TypeOK, Cands
      <4> QED
        BY <1>5, <4>1, WorthTyped
    <3>2. k = n
      BY <1>6, <2>3, <3>1, CandsFinite, SumAgrees
    <3>3. Q \subseteq P
      BY <2>2
    <3>4. Cardinality(Q) <= Cardinality(P)
      <4> HIDE DEF P, Q
      <4> QED
        BY <1>4, <3>3, FS_Subset
    <3> QED
      BY <3>2, <3>4
  <2>5. ASSUME NEW s \in Setups, cur[w] = <<s, m>>
        PROVE  k + Cardinality(Q) * PosCap < AggCap + (W + Blind') * PosCap
    <3>1. /\ <<s, m>> \in Cands /\ open[<<s, m>>] \in Nat
          /\ open'[<<s, m>>] = open[<<s, m>>] + 1
          /\ \A t \in Setups \ {s} : open'[<<t, m>>] = open[<<t, m>>]
      BY <1>12, <2>5, WorthTyped DEF TypeOK, Cands
    <3>2. Worth(m)'[s] = Worth(m)[s] + Notional(s) /\ Worth(m)[s] \in Int /\ Worth(m)'[s] \in Int
      BY <1>5, <3>1, WorthTyped, NotionalIsCapped, Times
    <3>3. \A t \in Setups \ {s} : Worth(m)'[t] = Worth(m)[t]
      BY <1>5, <3>1, WorthTyped
    <3>4. k = n + Worth(m)'[s] - Worth(m)[s]
      <4>1. \A t \in Setups : Worth(m)[t] \in Int
        BY WorthTyped
      <4> QED
        BY <1>6, <2>3, <3>2, <3>3, <4>1, CandsFinite, SumMoves
    <3>5. k <= n + PosCap
      BY <1>3, <1>1, <3>2, <3>4, NotionalIsCapped
    <3>6. w \in P
      BY <2>1, <2>5 DEF PastCap
    <3>7. Cardinality(P \ {w}) = Cardinality(P) - 1 /\ IsFiniteSet(P \ {w})
      <4> HIDE DEF P
      <4> QED
        BY <1>4, <3>6, FS_RemoveElement
    <3>8. Cardinality(Q) <= Cardinality(P \ {w})
      <4> HIDE DEF P, Q
      <4> QED
        BY <2>2, <3>7, FS_Subset
    <3>9. Cardinality(Q) + 1 <= Cardinality(P) /\ Cardinality(Q) + 1 \in Nat
      BY <1>4, <3>7, <3>8
    <3>10. /\ (Cardinality(Q) + 1) * PosCap <= Cardinality(P) * PosCap
           /\ (Cardinality(Q) + 1) * PosCap = Cardinality(Q) * PosCap + PosCap
           /\ Cardinality(Q) * PosCap \in Nat /\ Cardinality(P) * PosCap \in Nat
           /\ (W + Blind) * PosCap \in Nat /\ (W + Blind') * PosCap \in Nat
      BY <1>1, <1>2, <1>4, <3>9, Times
    <3> HIDE DEF n, k, P, Q, W
    <3> QED
      BY <1>1, <1>3, <1>6, <1>7, <3>5, <3>10
  <2> QED
    BY <1>3, <1>8, <2>4, <2>5
<1>13. ASSUME NEW w \in Workers, InsertPosition(w)
       PROVE  k + Cardinality(Q) * PosCap < AggCap + (W + Blind') * PosCap
  <2>1. \A v \in Workers : ~Cap(v)
    <3>1. \A v \in Workers : v # w => pc'[v] = pc[v]
      BY <1>13, OneActs
    <3>2. \A v \in Workers : Cap(v) => pc[v] = "cap" /\ pc'[v] # "cap"
      BY DEF Cap, Built, NotBuilt, Return, Goto, TypeOK
    <3>3. pc[w] = "insert"
      BY <1>13 DEF InsertPosition
    <3> QED
      BY <3>1, <3>2, <3>3
  <2>2. ASSUME open' = open PROVE \A c \in Cands : open'[c] <= open[c]
    BY <2>2 DEF TypeOK
  <2> QED
    BY <1>11, <1>12, <1>13, <2>1, <2>2, Lands
<1>14. ASSUME \A w \in Workers : ~Cap(w) /\ ~InsertPosition(w)
       PROVE  k + Cardinality(Q) * PosCap < AggCap + (W + Blind') * PosCap
  BY <1>11, <1>14, OpenShrinks
<1> QED
  BY <1>9, <1>13, <1>14

\* The aggregate gate looks at what is open before the position it lets through, so
\* the bridges together, and the sums that failed, overshoot it by one position each
\* (build_live_position_for_mode).
THEOREM NotionalBounded == Spec => []Exposed
<1>1. Init => Exposed
  BY ExposedInit
<1>2. TypeOK /\ Exposed /\ [Next]_vars => Exposed'
  <2>1. ASSUME Exposed, UNCHANGED vars PROVE Exposed'
    BY <2>1 DEF Exposed, OpenNotional, PastCap, Blind, vars, setupVars, bridgeVars, tradeVars
  <2> QED
    BY <2>1, ExposedStep
<1> QED
  BY <1>1, <1>2, TypeCorrect, PTL DEF Spec

\* What is open in a mode stays below the cap and one position per bridge and failed sum.
THEOREM NotionalBoundHolds == Spec => []NotionalBound
<1>1. TypeOK /\ Exposed => NotionalBound
  <2> SUFFICES ASSUME TypeOK, Exposed, NEW m \in Modes
               PROVE  OpenNotional(m) < AggCap + (Cardinality(Workers) + Blind) * PosCap
    BY DEF NotionalBound
  <2>1. OpenNotional(m) + Cardinality(PastCap(m)) * PosCap
          < AggCap + (Cardinality(Workers) + Blind) * PosCap
    BY DEF Exposed
  <2>2. IsFiniteSet(PastCap(m))
    BY CandsFinite, FS_Subset DEF PastCap
  <2>4. Blind \in Nat
    BY DEF Blind, TypeOK
  <2>5. Cardinality(Workers) + Blind \in Nat
    BY <2>4, CandsFinite, FS_CardinalityType
  <2>3. /\ Cardinality(PastCap(m)) * PosCap \in Nat
        /\ (Cardinality(Workers) + Blind) * PosCap \in Nat
    BY <2>2, <2>5, CandsFinite, FS_CardinalityType, SizingAssumption, Times
  <2> QED
    BY <2>1, <2>3, WorthTyped, SizingAssumption
<1> QED
  BY <1>1, TypeCorrect, NotionalBounded, PTL

---------------------------------------------------------------------------
(* A setup whose live dispatch failed.                                     *)

\* A live row is only queued for a setup that was open, and a row that failed leaves
\* its setup open only while its bridge is about to close it.
Doomed ==
  \A s \in Setups :
    /\ cand[<<s, "live">>] # "absent" => setup[s] # "none"
    /\ cand[<<s, "live">>] = "errored" /\ Open(s) =>
         \/ dep.kinds \cap {"crash", "reject"} # {}
         \/ \E w \in Workers : pc[w] = "reject" /\ cur[w] = <<s, "live">>

LEMMA DoomedInit == Init => Doomed
BY DEF Init, Doomed, Cands, Modes

\* No setup is opened but one that was not there.
LEMMA OpenedOnce ==
  ASSUME TypeOK, Next, NEW s \in Setups
  PROVE  /\ setup[s] # "none" => setup'[s] # "none"
         /\ setup[s] # "none" /\ setup'[s] = "armed" => setup[s] = "armed"
<1>1. ASSUME NEW t \in Setups, NEW state \in {"armed", "rejected"}, Arm(t, state)
      PROVE  setup[s] # "none" => setup'[s] = setup[s]
  BY <1>1 DEF Arm, TypeOK
<1>2. ASSUME NEW t, NEW state \in {"closed", "closed_scratch", "rejected"}, Stamp(t, state)
      PROVE  setup'[s] = setup[s] \/ setup'[s] = state
  BY <1>2 DEF Stamp, TypeOK
<1>3. \/ setup' = setup
      \/ \E t \in Setups, state \in {"armed", "rejected"} : Arm(t, state)
      \/ \E t \in Setups, state \in {"closed", "closed_scratch", "rejected"} : Stamp(t, state)
      \/ \E w \in Workers : Stamp(cur[w][1], "rejected")
  BY ZenonT(60) DEF Next, SetupStep, SelectorStep, BridgeStep, CloseSetup, RetireRead, RetireSetup,
      RetirePositions, SelectorRead, SelectorFail, SelectorInsert, EnqueueLive, ClosePosition, Claim,
      Dispatch, Gates, Dedup, Cap, PlaceVenue, InsertOrder, InsertPosition, Mark, RejectSetup, EndTick,
      EmptyTick, Crash, setupVars, vars
<1>4. ASSUME setup' = setup
      PROVE  /\ setup[s] # "none" => setup'[s] # "none"
             /\ setup[s] # "none" /\ setup'[s] = "armed" => setup[s] = "armed"
  BY <1>4
<1> QED
  BY <1>1, <1>2, <1>3, <1>4

\* A live row comes to the queue when its setup is open, and is recorded as failed by
\* a bridge that closes the setup next.
LEMMA LiveRowSteps ==
  ASSUME TypeOK, Core, Next, NEW s \in Setups
  PROVE  /\ cand[<<s, "live">>] = "absent" /\ cand'[<<s, "live">>] # "absent" =>
              setup[s] = "armed"
         /\ cand[<<s, "live">>] # "errored" /\ cand'[<<s, "live">>] = "errored" =>
              \E w \in Workers : pc'[w] = "reject" /\ cur'[w] = <<s, "live">>
<1> DEFINE c == <<s, "live">>
<1>0. c \in Cands /\ cand \in [Cands -> CandStates]
  BY DEF Cands, Modes, TypeOK
<1>1. ASSUME NEW t \in Setups, SelectorInsert(t) PROVE cand'[c] = cand[c]
  <2>1. <<t, "dry">> # c
    OBVIOUS
  <2> QED
    BY <1>0, <1>1, <2>1 DEF SelectorInsert, candVars
<1>2. ASSUME NEW t \in Setups, EnqueueLive(t)
      PROVE  cand'[c] = cand[c] \/ (setup[s] = "armed" /\ cand'[c] = "pending")
  BY <1>0, <1>2 DEF EnqueueLive, Open, Cands
<1>3. ASSUME NEW w \in Workers, Claim(w)
      PROVE  cand'[c] = cand[c] \/ (cand[c] = "pending" /\ cand'[c] = "claimed")
  BY <1>0, <1>3 DEF Claim, Oldest, Pending
<1>4. ASSUME NEW w \in Workers, Mark(w), cand'[c] # cand[c]
      PROVE  /\ cand[c] # "absent"
             /\ cand'[c] = "errored" => pc'[w] = "reject" /\ cur'[w] = c
  <2>1. pc[w] = "mark" /\ cand' = [cand EXCEPT ![cur[w]] = Settled(w)] /\ cur[w] = c
    BY <1>0, <1>4 DEF Mark
  <2>2. cand[c] = "claimed"
    BY <2>1, NoCandAssumption, <1>0 DEF Core, Hands
  <2>3. ASSUME cand'[c] = "errored" PROVE pc'[w] = "reject" /\ cur'[w] = c
    <3>1. outcome[w] = "err"
      BY <1>0, <2>1, <2>3 DEF Settled
    <3>2. NeedsReject(w)
      BY <2>1, <3>1 DEF NeedsReject
    <3>3. cand' # cand
      BY <1>4
    <3> QED
      BY <1>4, <2>1, <3>2, <3>3 DEF Mark, Goto, TypeOK
  <2> QED
    BY <2>2, <2>3
<1>5. \/ cand' = cand
      \/ \E t \in Setups : SelectorInsert(t) \/ EnqueueLive(t)
      \/ \E w \in Workers : Claim(w) \/ Mark(w)
  BY ZenonT(60) DEF Next, SetupStep, SelectorStep, BridgeStep, Arm, CloseSetup, RetireRead, RetireSetup,
      RetirePositions, SelectorRead, SelectorFail, ClosePosition,
      Dispatch, Gates, Dedup, Cap, PlaceVenue, InsertOrder, InsertPosition, RejectSetup, EndTick,
      EmptyTick, Crash, candVars, vars
<1> QED
  BY <1>1, <1>2, <1>3, <1>4, <1>5

\* A bridge on its way to close a setup stays there or closes it, unless it dies or
\* the UPDATE fails.
LEMMA RejectStays ==
  ASSUME TypeOK, Core, Next, NEW s \in Setups, NEW w \in Workers,
         pc[w] = "reject", cur[w] = <<s, "live">>
  PROVE  \/ pc'[w] = "reject" /\ cur'[w] = <<s, "live">>
         \/ setup'[s] # "armed"
         \/ dep.kinds \cap {"crash", "reject"} # {}
<1>1. CASE UNCHANGED <<pc, cur>>
  BY <1>1
<1>2. ASSUME NEW v \in Workers, BridgeStep(v) \/ Crash(v), v # w
      PROVE  pc'[w] = pc[w] /\ cur'[w] = cur[w]
  BY <1>2 DEF TypeOK, BridgeStep, Claim, Dispatch, Gates, Dedup, Cap, Built, NotBuilt, PlaceVenue,
      InsertOrder, InsertPosition, Mark, RejectSetup, EndTick, Crash, Abandon, Return, Goto
<1>3. ASSUME BridgeStep(w) PROVE RejectSetup(w)
  BY <1>3 DEF BridgeStep, Claim, Dispatch, Gates, Dedup, Cap, PlaceVenue,
      InsertOrder, InsertPosition, Mark, EndTick
<1>4. ASSUME RejectSetup(w) PROVE setup'[s] # "armed" \/ "reject" \in dep.kinds
  BY <1>4 DEF RejectSetup, Stamp, Open, Fail, TypeOK
<1>5. ASSUME Crash(w) PROVE "crash" \in dep.kinds
  BY <1>5 DEF Crash, Fail
<1>6. UNCHANGED <<pc, cur>> \/ \E v \in Workers : BridgeStep(v) \/ Crash(v)
  BY ZenonT(60) DEF Next, SetupStep, SelectorStep, Arm, CloseSetup, RetireRead, RetireSetup, RetirePositions,
      SelectorRead, SelectorFail, SelectorInsert, EnqueueLive, ClosePosition, EmptyTick,
      bridgeVars, vars
<1> QED
  BY <1>1, <1>2, <1>3, <1>4, <1>5, <1>6

LEMMA DoomedStep == TypeOK /\ Core /\ Doomed /\ Next => Doomed'
<1> SUFFICES ASSUME TypeOK, Core, Doomed, Next, NEW s \in Setups
             PROVE  /\ cand'[<<s, "live">>] # "absent" => setup'[s] # "none"
                    /\ cand'[<<s, "live">>] = "errored" /\ setup'[s] = "armed" =>
                         \/ dep'.kinds \cap {"crash", "reject"} # {}
                         \/ \E w \in Workers : pc'[w] = "reject" /\ cur'[w] = <<s, "live">>
  BY DEF Doomed, Open
<1>1. dep' = dep
  BY BlindGrows
<1>2. ASSUME cand'[<<s, "live">>] # "absent" PROVE setup[s] # "none" /\ setup'[s] # "none"
  BY <1>2, LiveRowSteps, OpenedOnce DEF Doomed
<1>3. ASSUME cand'[<<s, "live">>] = "errored", setup'[s] = "armed",
             dep.kinds \cap {"crash", "reject"} = {}
      PROVE  \E w \in Workers : pc'[w] = "reject" /\ cur'[w] = <<s, "live">>
  <2>1. CASE cand[<<s, "live">>] # "errored"
    BY <1>3, <2>1, LiveRowSteps
  <2>2. CASE cand[<<s, "live">>] = "errored"
    <3>1. setup[s] = "armed"
      BY <1>2, <1>3, OpenedOnce
    <3>2. PICK w \in Workers : pc[w] = "reject" /\ cur[w] = <<s, "live">>
      BY <1>3, <2>2, <3>1 DEF Doomed, Open
    <3> QED
      BY <1>3, <3>2, RejectStays
  <2> QED
    BY <2>1, <2>2
<1> QED
  BY <1>1, <1>2, <1>3

\* Unless a bridge may die on the way or the UPDATE of the setup may fail, a setup
\* whose live dispatch is recorded as failed is not left open (run_tick,
\* mark_setup_rejected).
THEOREM FailedLiveSetupCloses ==
  Spec => [](dep.kinds \cap {"crash", "reject"} = {} => FailedLiveSetupClosed)
<1>1. Init => Doomed
  BY DoomedInit
<1>2. TypeOK /\ Core /\ Doomed /\ [Next]_vars => Doomed'
  <2>1. ASSUME Doomed, UNCHANGED vars PROVE Doomed'
    BY <2>1 DEF Doomed, Open, vars, setupVars, candVars, bridgeVars
  <2> QED
    BY <2>1, DoomedStep
<1>3. Doomed => (dep.kinds \cap {"crash", "reject"} = {} => FailedLiveSetupClosed)
  BY DEF Doomed, FailedLiveSetupClosed
<1> QED
  BY <1>1, <1>2, <1>3, TypeCorrect, CoreHolds, PTL DEF Spec
=============================================================================
