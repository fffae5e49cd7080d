------------------------ MODULE TacticalDeskProofs ------------------------
(* What holds of TacticalDesk for any number of decisions, orders and failures. *)
EXTENDS TacticalDesk, SequenceTheorems, Sums

---------------------------------------------------------------------------
(* The newest decision that is approved.                                  *)

\* A set of decisions that has a member has a newest one.
LEMMA NewestFound ==
  ASSUME NEW rows \in SUBSET Ids, rows # {}
  PROVE  Newest(rows) \in rows
<1> DEFINE Ages == {MaxDecisions - d : d \in rows}
<1>0. MaxDecisions \in Nat /\ \A d \in rows : d \in Int /\ d <= MaxDecisions
  BY DeskAssumption DEF Ids
<1>1. Ages \in SUBSET Nat /\ Ages # {}
  BY <1>0
<1>2. PICK m \in Ages : \A k \in Ages : m <= k
  <2> HIDE DEF Ages
  <2> QED
    BY <1>1, LeastFound
<1>3. PICK e \in rows : m = MaxDecisions - e
  OBVIOUS
<1>4. \A c \in rows : c <= e
  <2>1. \A c \in rows : MaxDecisions - e <= MaxDecisions - c
    BY <1>2, <1>3
  <2> QED
    BY <1>0, <2>1
<1> QED
  BY <1>4, Zenon DEF Newest

LEMMA ApprovedFound ==
  ASSUME NEW kinds
  PROVE  LET d == NewestApproved(kinds)
         IN  d = 0 \/ (d \in Ids /\ what[d] \in kinds /\ child[d] = "approved" /\ d \notin aged)
<1> DEFINE rows == {d \in Ids : what[d] \in kinds /\ child[d] = "approved" /\ d \notin aged}
<1>1. CASE rows = {}
  BY <1>1 DEF NewestApproved, Newest
<1>2. CASE rows # {}
  <2>1. Newest(rows) \in rows
    BY <1>2, NewestFound
  <2> QED
    BY <2>1 DEF NewestApproved
<1> QED
  BY <1>1, <1>2

---------------------------------------------------------------------------
(* The orders and the position they make.                                 *)

LEMMA OrdersRead ==
  ASSUME orders \in Seq(Order)
  PROVE  /\ Len(orders) \in Nat
         /\ \A i \in 1 .. Len(orders) :
              /\ orders[i] \in Order /\ orders[i].asked \in Int /\ orders[i].done \in Int
              /\ orders[i].at \in OrderAt
<1>1. Len(orders) \in Nat /\ \A i \in 1 .. Len(orders) : orders[i] \in Order
  OBVIOUS
<1>2. \A o \in Order : o.asked \in Int /\ o.done \in Int /\ o.at \in OrderAt
  BY DEF Order
<1> QED
  BY <1>1, <1>2

LEMMA FilledFinite ==
  ASSUME orders \in Seq(Order), NEW states
  PROVE  /\ Filled(states) \subseteq 1 .. Len(orders) /\ IsFiniteSet(Filled(states))
         /\ Cardinality(Filled(states)) \in Nat
<1>1. Len(orders) \in Nat
  BY OrdersRead
<1>2. IsFiniteSet(1 .. Len(orders))
  BY <1>1, FS_Interval
<1>3. Filled(states) \subseteq 1 .. Len(orders)
  BY DEF Filled
<1> QED
  BY <1>2, <1>3, FS_Subset, FS_CardinalityType

\* The position is a quantity, by the venue and by the rows.
LEMMA PositionTyped ==
  ASSUME orders \in Seq(Order)
  PROVE  Pos \in Int /\ Net \in Int
<1> DEFINE done == [i \in 1 .. Len(orders) |-> orders[i].done]
           asked == [i \in 1 .. Len(orders) |-> orders[i].asked]
           held == Filled({"placed", "taken", "booked"})
           rows == Filled({"booked"})
<1>1. held \subseteq 1 .. Len(orders) /\ rows \subseteq 1 .. Len(orders)
  BY FilledFinite
<1>2. IsFiniteSet(held) /\ IsFiniteSet(rows)
  BY FilledFinite
<1>3. /\ \A i \in held : done[i] \in Int
      /\ \A i \in rows : asked[i] \in Int
  BY <1>1, OrdersRead
<1>4. Pos = SumFunctionOnSet(done, held) /\ Net = SumFunctionOnSet(asked, rows)
  BY DEF Pos, Net
<1> HIDE DEF done, asked, held, rows
<1> QED
  BY <1>2, <1>3, <1>4, SumTyped

\* The book of a long is never short.
LEMMA BookTyped ==
  ASSUME orders \in Seq(Order)
  PROVE  Book \in Nat
<1> DEFINE N == Len(orders)
           Kept(n) == IF n > 0 THEN n ELSE 0
           Cell(g, i) == IF i = 0 THEN 0
                         ELSE IF orders[i].at = "booked" THEN Kept(g[i - 1] + orders[i].done)
                              ELSE g[i - 1]
           Table(g, n) == g = [i \in 0 .. n |-> Cell(g, i)]
           Good(n) == \E g : Table(g, n)
           Unmade == {n \in Nat : ~Good(n)}
<1>1. N \in Nat /\ \A i \in 1 .. N : orders[i].done \in Int
  BY OrdersRead
<1>2. Good(0)
  <2>1. Table([i \in 0 .. 0 |-> 0], 0)
    OBVIOUS
  <2> QED
    BY <2>1
<1>3. ASSUME NEW n \in Nat, Good(n) PROVE Good(n + 1)
  <2>1. PICK g : Table(g, n)
    BY <1>3
  <2> DEFINE h == [i \in 0 .. n + 1 |-> Cell(g, i)]
  <2>2. ASSUME NEW i \in 0 .. n + 1, i # 0 PROVE h[i - 1] = g[i - 1]
    <3>1. i - 1 \in 0 .. n /\ i - 1 \in 0 .. n + 1
      BY <2>2
    <3> HIDE DEF Cell
    <3> QED
      BY <2>1, <3>1
  <2>3. \A i \in 0 .. n + 1 : Cell(g, i) = Cell(h, i)
    <3> HIDE DEF h
    <3> QED
      BY <2>2
  <2>4. Table(h, n + 1)
    <3>1. h = [i \in 0 .. n + 1 |-> Cell(g, i)]
      OBVIOUS
    <3> HIDE DEF h, Cell
    <3> QED
      BY <2>3, <3>1
  <2> HIDE DEF Table, h
  <2> QED
    BY <2>4
<1>4. Good(N)
  <2>1. SUFFICES ASSUME N \in Unmade PROVE FALSE
    BY <1>1
  <2>2. PICK m \in Unmade : \A k \in Unmade : m <= k
    <3>1. Unmade \in SUBSET Nat
      OBVIOUS
    <3> HIDE DEF Unmade
    <3> QED
      BY <2>1, <3>1, LeastFound
  <2> HIDE DEF Good
  <2>3. m \in Nat /\ ~Good(m) /\ m # 0
    BY <1>2
  <2>4. m - 1 \in Nat /\ m - 1 \notin Unmade
    BY <2>2, <2>3
  <2>5. Good(m - 1)
    BY <2>4
  <2>6. Good(m - 1 + 1)
    BY <1>3, <2>4, <2>5
  <2> QED
    BY <2>3, <2>6
<1> DEFINE after == CHOOSE g : Table(g, N)
<1>5. after = [i \in 0 .. N |-> Cell(after, i)]
  <2>1. Table(after, N)
    <3> HIDE DEF Table
    <3> QED
      BY <1>4
  <2> QED
    BY <2>1
<1>6. Book = after[N]
  BY DEF Book
<1> DEFINE Wrong == {i \in 0 .. N : after[i] \notin Nat}
<1> HIDE DEF after, N
<1>7. Wrong = {}
  <2>1. SUFFICES ASSUME Wrong # {} PROVE FALSE
    OBVIOUS
  <2>2. PICK m \in Wrong : \A k \in Wrong : m <= k
    <3>1. Wrong \in SUBSET Nat
      BY <1>1
    <3> HIDE DEF Wrong
    <3> QED
      BY <2>1, <3>1, LeastFound
  <2>3. m \in 0 .. N /\ after[m] \notin Nat /\ after[m] = Cell(after, m)
    BY <1>5, Zenon
  <2>4. m # 0
    BY <2>3
  <2>5. m - 1 \in 0 .. N /\ m \in 1 .. N
    BY <1>1, <2>3, <2>4
  <2>6. after[m - 1] \in Nat
    BY <1>1, <2>2, <2>5
  <2> QED
    BY <1>1, <2>3, <2>4, <2>5, <2>6
<1> QED
  BY <1>1, <1>6, <1>7

\* What becomes of the orders: one more, one with another label, one that fills.
LEMMA OrdersAppended ==
  ASSUME orders \in Seq(Order), NEW o \in Order
  PROVE  LET new == Append(orders, o)
         IN  /\ new \in Seq(Order) /\ Len(new) = Len(orders) + 1
             /\ new[Len(orders) + 1] = o
             /\ \A j \in 1 .. Len(orders) : new[j] = orders[j]
OBVIOUS

LEMMA OrderChanged ==
  ASSUME orders \in Seq(Order), NEW i, NEW o \in Order
  PROVE  LET new == [orders EXCEPT ![i] = o]
         IN  /\ new \in Seq(Order) /\ Len(new) = Len(orders)
             /\ \A j \in 1 .. Len(orders) : new[j] = IF j = i THEN o ELSE orders[j]
<1> DEFINE n == Len(orders)
           new == [orders EXCEPT ![i] = o]
<1>1. n \in Nat /\ orders \in [1 .. n -> Order]
  OBVIOUS
<1>2. new \in [1 .. n -> Order] /\ \A j \in 1 .. n : new[j] = IF j = i THEN o ELSE orders[j]
  BY <1>1
<1> HIDE DEF new, n
<1>3. new \in Seq(Order) /\ Len(new) = n
  BY <1>1, <1>2
<1> QED
  BY <1>2, <1>3 DEF new, n

LEMMA OrderRelabelled ==
  ASSUME orders \in Seq(Order), NEW i, NEW at \in OrderAt
  PROVE  LET new == [orders EXCEPT ![i].at = at]
         IN  /\ new \in Seq(Order) /\ Len(new) = Len(orders)
             /\ \A j \in 1 .. Len(orders) :
                  /\ new[j].at = IF j = i THEN at ELSE orders[j].at
                  /\ new[j].asked = orders[j].asked /\ new[j].done = orders[j].done
<1> DEFINE n == Len(orders)
           new == [orders EXCEPT ![i].at = at]
<1>1. n \in Nat /\ orders \in [1 .. n -> Order]
  OBVIOUS
<1>2. ASSUME NEW j \in 1 .. n
      PROVE  /\ new[j] \in Order /\ new[j].at = IF j = i THEN at ELSE orders[j].at
             /\ new[j].asked = orders[j].asked /\ new[j].done = orders[j].done
  <2>1. orders[j] \in Order
    BY <1>1
  <2>2. new[j] = IF j = i THEN [orders[j] EXCEPT !.at = at] ELSE orders[j]
    BY <1>1
  <2> HIDE DEF new
  <2> QED
    BY <2>1, <2>2 DEF Order
<1>3. new \in [1 .. n -> Order]
  <2>1. new = [j \in 1 .. n |-> new[j]]
    BY <1>1
  <2> HIDE DEF new
  <2> QED
    BY <1>2, <2>1
<1> HIDE DEF new, n
<1>4. new \in Seq(Order) /\ Len(new) = n
  BY <1>1, <1>3
<1> QED
  BY <1>2, <1>4 DEF new, n

---------------------------------------------------------------------------
(* Every variable has its type.                                           *)

Sweeps == [id : Ids \cup {0}, at : {"idle", "child", "approve"}]
ExHands == [id : Ids \cup {0}, at : {"idle", "look", "place", "insert", "applied", "failed"},
            half : BOOLEAN, order : Nat]
Stages == {"idle", "fetch", "tacChild", "tacParent", "dirChild", "dirParent",
           "cut", "cutInsert", "close", "closeInsert", "outcome", "settle",
           "trail", "look", "cancel", "stop", "stopInsert"}
PmHands == [at : Stages, qty : Nat, tac : Ids \cup {0}, dir : Ids \cup {0}, hit : BOOLEAN,
            order : Nat]
RowsTyped ==
  /\ config \in Configs
  /\ what \in [Ids -> {"none"} \cup Tactical \cup Directive]
  /\ parent \in [Ids -> Statuses] /\ child \in [Ids -> Statuses]
  /\ aged \in SUBSET Ids /\ outcomes \in [Ids -> Nat] /\ early \in SUBSET Ids
HandsTyped == sweep \in [Layers -> Sweeps] /\ ex \in ExHands /\ pm \in PmHands
OrdersTyped == orders \in Seq(Order) /\ {ex.order, pm.order, cid} \subseteq 0 .. Len(orders)
CountsTyped ==
  /\ deep \in BOOLEAN /\ halted \in BOOLEAN /\ placed \in [Ids -> Nat] /\ cuts \in [Ids -> Nat]
  /\ manual \in Nat /\ trails \in Nat /\ blind \in Nat /\ faults \in Nat

\* A sweep that is writing has a decision.
SweepsHold == \A l \in Layers : sweep[l].at # "idle" => sweep[l].id # 0

LEMMA TypeParts == TypeOK <=> RowsTyped /\ HandsTyped /\ OrdersTyped /\ CountsTyped
BY DEF TypeOK, RowsTyped, HandsTyped, OrdersTyped, CountsTyped, Sweeps, ExHands, PmHands, Stages

LEMMA IdleTyped ==
  /\ NoSweep \in Sweeps /\ NoEx \in ExHands /\ NoPm \in PmHands
  /\ NoSweep.id = 0 /\ NoSweep.at = "idle"
  /\ NoEx.id = 0 /\ NoEx.at = "idle" /\ NoEx.order = 0 /\ NoEx.half = FALSE
  /\ NoPm.at = "idle" /\ NoPm.tac = 0 /\ NoPm.dir = 0 /\ NoPm.order = 0 /\ NoPm.qty = 0
  /\ NoPm.hit = FALSE
BY DEF NoSweep, NoEx, NoPm, Sweeps, ExHands, PmHands, Stages

LEMMA ConfigTyped ==
  ASSUME RowsTyped
  PROVE  /\ config.live \in BOOLEAN /\ config.mode \in Modes /\ config.rows \in 0 .. MaxDecisions
         /\ config.advice \subseteq Tactical \cup Directive
         /\ 1 .. config.rows \subseteq Ids
<1>1. /\ config.live \in BOOLEAN /\ config.mode \in Modes /\ config.rows \in 0 .. MaxDecisions
      /\ config.advice \subseteq Tactical \cup Directive
  BY DeskAssumption DEF RowsTyped
<1>2. 1 .. config.rows \subseteq Ids
  BY <1>1, DeskAssumption DEF Ids
<1> QED
  BY <1>1, <1>2

LEMMA FaultsCount ==
  ASSUME blind \in Nat, faults \in Nat
  PROVE  /\ Fine => blind' = blind /\ faults' = faults
         /\ \A k : Seen(k) => blind' = blind /\ faults' = faults + 1
         /\ \A k : Blinding(k) => blind' = blind + 1 /\ faults' = faults + 1
BY DEF Fine, Seen, Blinding, Fault, failVars

\* The rows move.
RowStep ==
  \/ \E l \in Layers : SweepStep(l)
  \/ \E d \in Ids : Age(d) \/ \E v \in {"approved", "rejected"} : AdminVerdict(d, v)
  \/ Expire

LEMMA SettledTyped ==
  ASSUME RowsTyped, NEW d, NEW verdict \in {"approved", "rejected"}, Settle(d, verdict)
  PROVE  parent' \in [Ids -> Statuses] /\ child' \in [Ids -> Statuses]
BY DEF RowsTyped, Settle, Settled, Statuses

LEMMA SweepsTyped ==
  ASSUME sweep \in [Layers -> Sweeps], NEW l \in Layers
  PROVE  /\ sweep[l].id \in Ids \cup {0}
         /\ [sweep EXCEPT ![l] = NoSweep] \in [Layers -> Sweeps]
         /\ [sweep EXCEPT ![l].at = "approve"] \in [Layers -> Sweeps]
         /\ \A d \in Ids : [sweep EXCEPT ![l] = [id |-> d, at |-> "child"]] \in [Layers -> Sweeps]
         /\ SweepsHold /\ sweep[l].at # "idle" => sweep[l].id \in Ids
<1>1. sweep[l] \in Sweeps /\ sweep[l].id \in Ids \cup {0}
  BY DEF Sweeps
<1>2. [sweep[l] EXCEPT !.at = "approve"] \in Sweeps
  BY <1>1 DEF Sweeps
<1>3. \A d \in Ids : [id |-> d, at |-> "child"] \in Sweeps
  BY DEF Sweeps
<1>4. [sweep EXCEPT ![l].at = "approve"] = [sweep EXCEPT ![l] = [sweep[l] EXCEPT !.at = "approve"]]
  BY Zenon
<1>5. SweepsHold /\ sweep[l].at # "idle" => sweep[l].id \in Ids
  BY <1>1 DEF SweepsHold
<1> QED
  BY <1>1, <1>2, <1>3, <1>4, <1>5, IdleTyped

LEMMA RowStepTyped ==
  ASSUME TypeOK, SweepsHold, RowStep
  PROVE  TypeOK'
<1>0. RowsTyped /\ HandsTyped /\ OrdersTyped /\ CountsTyped
  BY TypeParts
<1>1. blind \in Nat /\ faults \in Nat /\ sweep \in [Layers -> Sweeps]
  BY <1>0 DEF CountsTyped, HandsTyped
<1>2. SUFFICES /\ RowsTyped' /\ sweep' \in [Layers -> Sweeps] /\ faults' \in Nat /\ blind' \in Nat
               /\ UNCHANGED <<ex, pm, venueVars, world, ghosts>>
  <2>1. RowsTyped' /\ HandsTyped' /\ OrdersTyped' /\ CountsTyped' => TypeOK'
    BY TypeParts, PTL
  <2> QED
    BY <1>0, <2>1 DEF HandsTyped, OrdersTyped, CountsTyped, venueVars, world, ghosts
<1>3. ASSUME NEW l \in Layers, InsertDecision(l)
      PROVE  /\ RowsTyped' /\ sweep' \in [Layers -> Sweeps] /\ faults' \in Nat /\ blind' \in Nat
             /\ UNCHANGED <<ex, pm, venueVars, world, ghosts>>
  <2>1. PICK d \in 1 .. config.rows, a \in Advised(l) :
          /\ what' = [what EXCEPT ![d] = a]
          /\ parent' = [parent EXCEPT ![d] = "pending"]
          /\ sweep' = [sweep EXCEPT ![l] = [id |-> d, at |-> "child"]]
    BY <1>3 DEF InsertDecision
  <2>2. d \in Ids /\ a \in Tactical \cup Directive
    BY <1>0, ConfigTyped DEF Advised
  <2>3. RowsTyped'
    BY <1>0, <1>3, <2>1, <2>2 DEF RowsTyped, InsertDecision, Statuses
  <2> QED
    BY <1>1, <1>3, <2>1, <2>2, <2>3, SweepsTyped, FaultsCount DEF InsertDecision
<1>4. ASSUME NEW l \in Layers, InsertChild(l)
      PROVE  /\ RowsTyped' /\ sweep' \in [Layers -> Sweeps] /\ faults' \in Nat /\ blind' \in Nat
             /\ UNCHANGED <<ex, pm, venueVars, world, ghosts>>
  <2>1. RowsTyped'
    BY <1>0, <1>4 DEF RowsTyped, InsertChild, Statuses
  <2>2. sweep' \in [Layers -> Sweeps] /\ faults' \in Nat /\ blind' \in Nat
    <3>1. CASE sweep' = [sweep EXCEPT ![l].at = "approve"] /\ Fine
      BY <1>1, <3>1, SweepsTyped, FaultsCount
    <3>2. CASE Seen("child") /\ sweep' = [sweep EXCEPT ![l] = NoSweep]
      <4>1. faults' = faults + 1 /\ blind' = blind
        BY <1>1, <3>2, FaultsCount
      <4>2. sweep' \in [Layers -> Sweeps]
        BY <1>1, <3>2, SweepsTyped
      <4> QED
        BY <1>1, <4>1, <4>2
    <3> QED
      BY <1>4, <3>1, <3>2 DEF InsertChild
  <2> QED
    BY <1>4, <2>1, <2>2 DEF InsertChild
<1>5. ASSUME NEW l \in Layers, AutoApprove(l)
      PROVE  /\ RowsTyped' /\ sweep' \in [Layers -> Sweeps] /\ faults' \in Nat /\ blind' \in Nat
             /\ UNCHANGED <<ex, pm, venueVars, world, ghosts>>
  <2>1. CASE Settle(sweep[l].id, "approved")
    <3>1. parent' \in [Ids -> Statuses] /\ child' \in [Ids -> Statuses]
      BY <1>0, <2>1, SettledTyped
    <3>2. early' \in SUBSET Ids
      <4>1. sweep[l].id \in Ids
        BY <1>1, <1>5, SweepsTyped DEF AutoApprove
      <4> QED
        BY <1>0, <2>1, <4>1 DEF Settle, RowsTyped
    <3> QED
      BY <1>0, <1>1, <1>5, <3>1, <3>2, SweepsTyped, FaultsCount DEF RowsTyped, AutoApprove
  <2>2. CASE UNCHANGED <<parent, child, early>>
    BY <1>0, <1>1, <1>5, <2>2, SweepsTyped, FaultsCount DEF RowsTyped, AutoApprove
  <2> QED
    BY <1>5, <2>1, <2>2 DEF AutoApprove
<1>6. ASSUME NEW d \in Ids, NEW v \in {"approved", "rejected"}, AdminVerdict(d, v)
      PROVE  /\ RowsTyped' /\ sweep' \in [Layers -> Sweeps] /\ faults' \in Nat /\ blind' \in Nat
             /\ UNCHANGED <<ex, pm, venueVars, world, ghosts>>
  <2>1. parent' \in [Ids -> Statuses] /\ child' \in [Ids -> Statuses]
    BY <1>0, <1>6, SettledTyped DEF AdminVerdict
  <2>2. early' \in SUBSET Ids
    BY <1>0, <1>6 DEF AdminVerdict, Settle, RowsTyped
  <2> QED
    BY <1>0, <1>1, <1>6, <2>1, <2>2, FaultsCount DEF RowsTyped, AdminVerdict
<1>7. ASSUME NEW d \in Ids, Age(d)
      PROVE  /\ RowsTyped' /\ sweep' \in [Layers -> Sweeps] /\ faults' \in Nat /\ blind' \in Nat
             /\ UNCHANGED <<ex, pm, venueVars, world, ghosts>>
  BY <1>0, <1>1, <1>7, FaultsCount DEF RowsTyped, Age
<1>8. ASSUME Expire
      PROVE  /\ RowsTyped' /\ sweep' \in [Layers -> Sweeps] /\ faults' \in Nat /\ blind' \in Nat
             /\ UNCHANGED <<ex, pm, venueVars, world, ghosts>>
  BY <1>0, <1>1, <1>8, FaultsCount DEF RowsTyped, Expire, Statuses
<1> QED
  BY <1>3, <1>4, <1>5, <1>6, <1>7, <1>8 DEF RowStep, SweepStep

LEMMA Sends ==
  ASSUME orders \in Seq(Order), NEW asked \in Int, NEW done \in Int, NEW at \in OrderAt,
         Sent(asked, done, at)
  PROVE  /\ orders' \in Seq(Order) /\ Len(orders') = Len(orders) + 1
         /\ orders'[Len(orders) + 1] = [asked |-> asked, done |-> done, at |-> at]
         /\ \A j \in 1 .. Len(orders) : orders'[j] = orders[j]
<1>1. [asked |-> asked, done |-> done, at |-> at] \in Order
  BY DEF Order
<1> QED
  BY <1>1, OrdersAppended DEF Sent

LEMMA Inserts ==
  ASSUME orders \in Seq(Order), NEW i, Inserted(i)
  PROVE  /\ orders' \in Seq(Order) /\ Len(orders') = Len(orders)
         /\ \A j \in 1 .. Len(orders) :
              /\ orders'[j].at = orders[j].at \/ (j = i /\ orders'[j].at \in {"taken", "booked"})
              /\ orders'[j].asked = orders[j].asked /\ orders'[j].done = orders[j].done
         /\ ~config.live /\ i \in 1 .. Len(orders) => orders'[i].at = "booked"
<1>1. PICK at \in {"taken", "booked"} :
        orders' = [orders EXCEPT ![i].at = at] /\ (~config.live => at = "booked")
  BY DEF Inserted
<1>2. at \in OrderAt
  BY DEF OrderAt
<1> DEFINE new == [orders EXCEPT ![i].at = at]
<1>3. /\ new \in Seq(Order) /\ Len(new) = Len(orders)
      /\ \A j \in 1 .. Len(orders) :
           /\ new[j].at = IF j = i THEN at ELSE orders[j].at
           /\ new[j].asked = orders[j].asked /\ new[j].done = orders[j].done
  BY <1>2, OrderRelabelled
<1>4. orders' = new
  BY <1>1
<1> HIDE DEF new
<1> QED
  BY <1>1, <1>3, <1>4

\* The row of a stop, when the stop is placed and whatever has become of it since.
LEMMA StopBooked ==
  ASSUME orders \in Seq(Order), PmStopInsert
  PROVE  /\ orders' \in Seq(Order) /\ Len(orders') = Len(orders)
         /\ \A j \in 1 .. Len(orders) :
              /\ \/ orders'[j].at = orders[j].at
                 \/ /\ j = pm.order
                    /\ orders'[j].at = IF orders[j].at = "loose" THEN "resting" ELSE "taken"
              /\ orders'[j].asked = orders[j].asked /\ orders'[j].done = orders[j].done
<1>0. PICK i : i = pm.order
  OBVIOUS
<1>1. CASE UNCHANGED orders
  BY <1>1
<1>2. CASE orders' = [orders EXCEPT ![i].at = IF @ = "loose" THEN "resting" ELSE "taken"]
  <2>1. PICK at \in OrderAt : at = IF orders[i].at = "loose" THEN "resting" ELSE "taken"
    BY DEF OrderAt
  <2> DEFINE new == [orders EXCEPT ![i].at = at]
  <2>2. orders' = new
    BY <1>2, <2>1
  <2>3. /\ new \in Seq(Order) /\ Len(new) = Len(orders)
        /\ \A j \in 1 .. Len(orders) :
             /\ new[j].at = IF j = i THEN at ELSE orders[j].at
             /\ new[j].asked = orders[j].asked /\ new[j].done = orders[j].done
    BY OrderRelabelled
  <2> HIDE DEF new
  <2> QED
    BY <1>0, <2>1, <2>2, <2>3
<1> QED
  BY <1>0, <1>1, <1>2 DEF PmStopInsert

\* The executor moves.
LEMMA ExStepTyped ==
  ASSUME TypeOK, ExStep
  PROVE  TypeOK'
<1>0. RowsTyped /\ HandsTyped /\ OrdersTyped /\ CountsTyped
  BY TypeParts
<1>1. /\ blind \in Nat /\ faults \in Nat /\ ex \in ExHands /\ orders \in Seq(Order)
      /\ Len(orders) \in Nat /\ cid \in 0 .. Len(orders) /\ pm.order \in 0 .. Len(orders)
      /\ ex.order \in 0 .. Len(orders) /\ placed \in [Ids -> Nat]
  BY <1>0, OrdersRead DEF CountsTyped, HandsTyped, OrdersTyped
<1> DEFINE Rest == UNCHANGED <<config, what, aged, outcomes, early, sweep, pm, cid, trails, world, cuts, manual>>
           Goal == /\ parent' \in [Ids -> Statuses] /\ child' \in [Ids -> Statuses]
                   /\ ex' \in ExHands /\ orders' \in Seq(Order) /\ Len(orders) <= Len(orders')
                   /\ ex'.order \in 0 .. Len(orders') /\ placed' \in [Ids -> Nat]
                   /\ faults' \in Nat /\ blind' \in Nat /\ Rest
<1>2. SUFFICES Goal
  <2>1. ASSUME Goal PROVE RowsTyped' /\ HandsTyped' /\ OrdersTyped' /\ CountsTyped'
    <3>1. Len(orders') \in Nat
      BY <2>1
    <3>2. OrdersTyped'
      BY <1>1, <2>1, <3>1 DEF OrdersTyped
    <3> QED
      BY <1>0, <2>1, <3>2 DEF RowsTyped, HandsTyped, CountsTyped, world
  <2>2. RowsTyped' /\ HandsTyped' /\ OrdersTyped' /\ CountsTyped' => TypeOK'
    BY TypeParts, PTL
  <2> QED
    BY <2>1, <2>2
<1>3. CASE ExFetch
  <2>1. NewestApproved(Tactical) \in Ids \cup {0}
    BY ApprovedFound
  <2>2. ex' \in ExHands /\ ex'.order = 0
    BY <1>3, <2>1, IdleTyped DEF ExFetch, ExHands
  <2> QED
    BY <1>0, <1>1, <1>3, <2>2, FaultsCount DEF ExFetch, RowsTyped, rowVars, venueVars, ghosts
<1>4. CASE ExLook
  <2>1. ex' \in ExHands /\ ex'.order \in 0 .. Len(orders)
    BY <1>1, <1>4, IdleTyped DEF ExLook, ExHands
  <2>2. faults' \in Nat /\ blind' \in Nat
    BY <1>1, <1>4, FaultsCount DEF ExLook
  <2> QED
    BY <1>0, <1>1, <1>4, <2>1, <2>2 DEF ExLook, RowsTyped, rowVars, venueVars, ghosts
<1>5. CASE ExPlace
  <2>1. Unit \in Int /\ Signed(ex.id) \in Int /\ "placed" \in OrderAt
    BY DeskAssumption DEF Signed, OrderAt
  <2>2. /\ faults' \in Nat /\ blind' \in Nat /\ Rest /\ UNCHANGED <<parent, child>>
    BY <1>1, <1>5, FaultsCount DEF ExPlace, rowVars
  <2>3. \/ /\ Sent(Signed(ex.id), Signed(ex.id), "placed") /\ placed' = [placed EXCEPT ![ex.id] = @ + 1]
           /\ ex' = [ex EXCEPT !.at = "insert", !.order = Len(orders) + 1] \/ ex' = [ex EXCEPT !.at = "failed"]
        \/ UNCHANGED <<placed, orders>> /\ (ex' = NoEx \/ ex' = [ex EXCEPT !.at = "failed"])
    BY <1>5 DEF ExPlace
  <2>4. [ex EXCEPT !.at = "failed"] \in ExHands /\ [ex EXCEPT !.at = "failed"].order = ex.order
    BY <1>1 DEF ExHands
  <2>5. LET e == [ex EXCEPT !.at = "insert", !.order = Len(orders) + 1]
        IN  e \in ExHands /\ e.order = Len(orders) + 1
    <3>1. PICK n \in Nat : n = Len(orders) + 1
      BY <1>1
    <3>2. LET e == [ex EXCEPT !.at = "insert", !.order = n] IN e \in ExHands /\ e.order = n
      BY <1>1 DEF ExHands
    <3> QED
      BY <3>1, <3>2, Zenon
  <2>6. CASE /\ Sent(Signed(ex.id), Signed(ex.id), "placed")
             /\ placed' = [placed EXCEPT ![ex.id] = @ + 1]
             /\ ex' = [ex EXCEPT !.at = "insert", !.order = Len(orders) + 1]
                \/ ex' = [ex EXCEPT !.at = "failed"]
    <3>1. orders' \in Seq(Order) /\ Len(orders') = Len(orders) + 1
      BY <1>1, <2>1, <2>6, Sends
    <3>2. placed' \in [Ids -> Nat]
      <4>1. \A d \in Ids : placed[d] + 1 \in Nat
        BY <1>1
      <4> QED
        BY <1>1, <2>6, <4>1
    <3>3. ex' \in ExHands /\ ex'.order \in {ex.order, Len(orders) + 1}
      BY <2>4, <2>5, <2>6
    <3>4. Len(orders) <= Len(orders') /\ ex'.order \in 0 .. Len(orders')
      BY <1>1, <3>1, <3>3
    <3> QED
      BY <1>0, <2>2, <3>1, <3>2, <3>3, <3>4 DEF RowsTyped
  <2>7. CASE UNCHANGED <<placed, orders>> /\ (ex' = NoEx \/ ex' = [ex EXCEPT !.at = "failed"])
    <3>1. ex' \in ExHands /\ ex'.order \in {ex.order, 0}
      BY <2>4, <2>7, IdleTyped
    <3> QED
      BY <1>0, <1>1, <2>2, <2>7, <3>1 DEF RowsTyped
  <2> QED
    BY <2>3, <2>6, <2>7
<1>6. CASE ExInsert
  <2>1. ex' \in ExHands /\ ex'.order = 0
    BY <1>1, <1>6 DEF ExInsert, ExHands
  <2>2. orders' \in Seq(Order) /\ Len(orders') = Len(orders) /\ faults' \in Nat /\ blind' \in Nat
    BY <1>1, <1>6, Inserts, FaultsCount DEF ExInsert
  <2> QED
    BY <1>0, <1>1, <1>6, <2>1, <2>2 DEF ExInsert, RowsTyped, rowVars, ghosts
<1>7. CASE ExMarkChild
  <2>1. child' \in [Ids -> Statuses]
    BY <1>0, <1>7 DEF ExMarkChild, RowsTyped, Statuses
  <2>2. ex' \in ExHands /\ ex'.order \in {0, ex.order}
    <3>1. [ex EXCEPT !.half = TRUE] \in ExHands /\ [ex EXCEPT !.half = TRUE].order = ex.order
      BY <1>1 DEF ExHands
    <3> QED
      BY <1>7, <3>1, IdleTyped DEF ExMarkChild
  <2>3. faults' \in Nat /\ blind' \in Nat
    BY <1>1, <1>7, FaultsCount DEF ExMarkChild
  <2> QED
    BY <1>0, <1>1, <1>7, <2>1, <2>2, <2>3 DEF ExMarkChild, RowsTyped, venueVars, ghosts
<1>8. CASE ExMarkParent
  <2>1. parent' \in [Ids -> Statuses]
    BY <1>0, <1>8 DEF ExMarkParent, RowsTyped, Statuses
  <2>2. faults' \in Nat /\ blind' \in Nat
    BY <1>1, <1>8, FaultsCount DEF ExMarkParent
  <2> QED
    BY <1>0, <1>1, <1>8, <2>1, <2>2, IdleTyped DEF ExMarkParent, RowsTyped, venueVars, ghosts
<1> QED
  BY <1>3, <1>4, <1>5, <1>6, <1>7, <1>8 DEF ExStep

\* The manager's hand is empty, or holds the book and the advice it held, at one of stages.
Goes(p, q, stages, n) ==
  \/ q = NoPm
  \/ /\ q \in PmHands /\ q.at \in stages /\ q.order = n
     /\ q.tac = p.tac /\ q.dir = p.dir /\ q.qty = p.qty
     /\ q.at = "tacChild" => p.tac # 0
     /\ q.at = "dirChild" => p.dir # 0

LEMMA GoesWider ==
  ASSUME NEW p, NEW q, NEW n, NEW narrow, NEW wide, narrow \subseteq wide, Goes(p, q, narrow, n)
  PROVE  Goes(p, q, wide, n)
BY DEF Goes

LEMMA Moves ==
  ASSUME NEW p \in PmHands, NEW at \in Stages, NEW n \in Nat
  PROVE  /\ at \notin {"tacChild", "dirChild"} =>
              /\ Goes(p, [p EXCEPT !.at = at], {at}, p.order)
              /\ Goes(p, [p EXCEPT !.at = at, !.order = n], {at}, n)
         /\ p.tac # 0 => Goes(p, [p EXCEPT !.at = "tacChild"], {"tacChild"}, p.order)
         /\ p.dir # 0 => Goes(p, [p EXCEPT !.at = "dirChild"], {"dirChild"}, p.order)
<1>1. /\ [p EXCEPT !.at = at, !.order = n] \in PmHands
      /\ [p EXCEPT !.at = at, !.order = n].order = n
      /\ [p EXCEPT !.at = at, !.order = n].at = at
      /\ [p EXCEPT !.at = at, !.order = n].tac = p.tac
      /\ [p EXCEPT !.at = at, !.order = n].dir = p.dir
      /\ [p EXCEPT !.at = at, !.order = n].qty = p.qty
  BY DEF PmHands
<1>2. \A to \in Stages : [p EXCEPT !.at = to] \in PmHands /\ [p EXCEPT !.at = to].order = p.order
                         /\ [p EXCEPT !.at = to].at = to /\ [p EXCEPT !.at = to].tac = p.tac
                         /\ [p EXCEPT !.at = to].dir = p.dir /\ [p EXCEPT !.at = to].qty = p.qty
  BY DEF PmHands
<1>3. "tacChild" \in Stages /\ "dirChild" \in Stages
  BY DEF Stages
<1> QED
  BY <1>1, <1>2, <1>3 DEF Goes

\* Where the marking of the rows leads.
LEMMA Ways ==
  ASSUME NEW p \in PmHands
  PROVE  /\ Goes(p, Marked(p), {"close"}, p.order)
         /\ Goes(p, ToDir(p), {"dirChild", "close"}, p.order)
         /\ Goes(p, ToTac(p), {"tacChild", "dirChild", "close"}, p.order)
<1>1. Goes(p, [p EXCEPT !.at = "close"], {"close"}, p.order)
  BY Moves DEF Stages
<1>2. Goes(p, Marked(p), {"close"}, p.order)
  BY <1>1 DEF Goes, Marked
<1>3. p.dir # 0 => Goes(p, [p EXCEPT !.at = "dirChild"], {"dirChild"}, p.order)
  BY Moves DEF Stages
<1>4. Goes(p, ToDir(p), {"dirChild", "close"}, p.order)
  BY <1>2, <1>3 DEF Goes, ToDir
<1>5. p.tac # 0 => Goes(p, [p EXCEPT !.at = "tacChild"], {"tacChild"}, p.order)
  BY Moves DEF Stages
<1>6. Goes(p, ToTac(p), {"tacChild", "dirChild", "close"}, p.order)
  BY <1>4, <1>5 DEF Goes, ToTac
<1> QED
  BY <1>2, <1>4, <1>6

\* What a step of the manager makes of the book and the advice it has in hand.
LEMMA PmMoves ==
  ASSUME pm \in PmHands, Len(orders) \in Nat
  PROVE  /\ PmMarkChild =>
              Goes(pm, pm', IF pm.at = "tacChild" THEN {"tacParent", "dirChild", "close"}
                            ELSE {"dirParent", "close"}, pm.order)
         /\ PmMarkParent =>
              Goes(pm, pm', IF pm.at = "tacParent" THEN {"dirChild", "close"} ELSE {"close"}, pm.order)
         /\ PmClose =>
              Goes(pm, pm', IF pm.at = "cut" THEN {"cutInsert"} ELSE {"closeInsert"}, Len(orders) + 1)
         /\ PmInsert => Goes(pm, pm', IF pm.at = "cutInsert" THEN {"outcome"} ELSE {"settle"}, 0)
         /\ PmOutcome => Goes(pm, pm', IF pm.at = "outcome" THEN {"dirChild", "close"} ELSE {}, pm.order)
         /\ PmTrail => Goes(pm, pm', {"dirChild", "close", "look", "stop"}, pm.order)
         /\ PmLook => Goes(pm, pm', {"cancel", "stop"}, pm.order)
         /\ PmCancel => Goes(pm, pm', {"stop"}, pm.order)
         /\ PmStop => \/ Goes(pm, pm', {"stopInsert"}, Len(orders) + 1)
                      \/ Goes(pm, pm', {"dirChild", "close"}, pm.order)
         /\ PmStopInsert => Goes(pm, pm', {"dirChild", "close"}, 0)
<1>1. /\ Goes(pm, Marked(pm), {"close"}, pm.order)
      /\ Goes(pm, ToDir(pm), {"dirChild", "close"}, pm.order)
  BY Ways
<1>2. \A at \in {"tacParent", "dirParent", "look", "cancel", "stop"} :
        Goes(pm, [pm EXCEPT !.at = at], {at}, pm.order)
  <2>1. ASSUME NEW at \in {"tacParent", "dirParent", "look", "cancel", "stop"}
        PROVE  Goes(pm, [pm EXCEPT !.at = at], {at}, pm.order)
    BY Moves DEF Stages
  <2> QED
    BY <2>1
<1>3. \A at \in {"cutInsert", "closeInsert", "stopInsert"} :
        Goes(pm, [pm EXCEPT !.at = at, !.order = Len(orders) + 1], {at}, Len(orders) + 1)
  <2>1. ASSUME NEW at \in {"cutInsert", "closeInsert", "stopInsert"}
        PROVE  Goes(pm, [pm EXCEPT !.at = at, !.order = Len(orders) + 1], {at}, Len(orders) + 1)
    <3>1. Len(orders) + 1 \in Nat /\ at \in Stages
      BY DEF Stages
    <3> QED
      BY <3>1, Moves
  <2> QED
    BY <2>1
<1>4. \A at \in {"outcome", "settle"} : Goes(pm, [pm EXCEPT !.at = at, !.order = 0], {at}, 0)
  <2>1. ASSUME NEW at \in {"outcome", "settle"}
        PROVE  Goes(pm, [pm EXCEPT !.at = at, !.order = 0], {at}, 0)
    BY Moves DEF Stages
  <2> QED
    BY <2>1
<1>5. PmMarkChild =>
        Goes(pm, pm', IF pm.at = "tacChild" THEN {"tacParent", "dirChild", "close"}
                      ELSE {"dirParent", "close"}, pm.order)
  <2>1. SUFFICES ASSUME PmMarkChild
                 PROVE  Goes(pm, pm', IF pm.at = "tacChild" THEN {"tacParent", "dirChild", "close"}
                                      ELSE {"dirParent", "close"}, pm.order)
    OBVIOUS
  <2>2. CASE pm.at = "tacChild"
    <3>1. \/ pm' = [pm EXCEPT !.at = "tacParent"]
          \/ pm' = ToDir(pm)
      BY <2>1, <2>2 DEF PmMarkChild, Past
    <3>2. Goes(pm, pm', {"tacParent", "dirChild", "close"}, pm.order)
      BY <1>1, <1>2, <3>1, GoesWider
    <3> QED
      BY <2>2, <3>2
  <2>3. CASE pm.at # "tacChild"
    <3>1. \/ pm' = [pm EXCEPT !.at = "dirParent"]
          \/ pm' = Marked(pm)
      BY <2>1, <2>3 DEF PmMarkChild, Past
    <3>2. Goes(pm, pm', {"dirParent", "close"}, pm.order)
      BY <1>1, <1>2, <3>1, GoesWider
    <3> QED
      BY <2>3, <3>2
  <2> QED
    BY <2>2, <2>3
<1>6. PmMarkParent =>
        Goes(pm, pm', IF pm.at = "tacParent" THEN {"dirChild", "close"} ELSE {"close"}, pm.order)
  BY <1>1 DEF PmMarkParent, Past, Goes
<1>7. PmClose =>
        Goes(pm, pm', IF pm.at = "cut" THEN {"cutInsert"} ELSE {"closeInsert"}, Len(orders) + 1)
  BY <1>3 DEF PmClose, Goes
<1>8. PmInsert => Goes(pm, pm', IF pm.at = "cutInsert" THEN {"outcome"} ELSE {"settle"}, 0)
  <2>1. SUFFICES ASSUME PmInsert
                 PROVE  Goes(pm, pm', IF pm.at = "cutInsert" THEN {"outcome"} ELSE {"settle"}, 0)
    OBVIOUS
  <2>2. \/ pm' = NoPm
        \/ pm.at = "cutInsert" /\ pm' = [pm EXCEPT !.at = "outcome", !.order = 0]
        \/ pm.at # "cutInsert" /\ pm' = [pm EXCEPT !.at = "settle", !.order = 0]
    BY <2>1 DEF PmInsert
  <2>3. \/ pm.at = "cutInsert" /\ Goes(pm, pm', {"outcome"}, 0)
        \/ pm.at # "cutInsert" /\ Goes(pm, pm', {"settle"}, 0)
    <3>1. Goes(pm, NoPm, {"outcome"}, 0) /\ Goes(pm, NoPm, {"settle"}, 0)
      BY DEF Goes
    <3> QED
      BY <1>4, <2>2, <3>1
  <2> QED
    BY <2>3
<1>9. PmOutcome => Goes(pm, pm', IF pm.at = "outcome" THEN {"dirChild", "close"} ELSE {}, pm.order)
  BY <1>1 DEF PmOutcome, Goes
<1>10. PmTrail => Goes(pm, pm', {"dirChild", "close", "look", "stop"}, pm.order)
  BY <1>1, <1>2 DEF PmTrail, Goes
<1>11. PmLook => Goes(pm, pm', {"cancel", "stop"}, pm.order)
  BY <1>2 DEF PmLook, Goes
<1>12. PmCancel => Goes(pm, pm', {"stop"}, pm.order)
  BY <1>2 DEF PmCancel, Goes
<1>13. PmStop => \/ Goes(pm, pm', {"stopInsert"}, Len(orders) + 1)
                 \/ Goes(pm, pm', {"dirChild", "close"}, pm.order)
  BY <1>1, <1>3 DEF PmStop
<1>14. PmStopInsert => Goes(pm, pm', {"dirChild", "close"}, 0)
  <2>1. [pm EXCEPT !.order = 0] \in PmHands /\ [pm EXCEPT !.order = 0].order = 0
        /\ [pm EXCEPT !.order = 0].tac = pm.tac /\ [pm EXCEPT !.order = 0].dir = pm.dir
        /\ [pm EXCEPT !.order = 0].qty = pm.qty
    BY DEF PmHands
  <2>2. Goes([pm EXCEPT !.order = 0], ToDir([pm EXCEPT !.order = 0]), {"dirChild", "close"}, 0)
    BY <2>1, Ways
  <2> QED
    BY <2>1, <2>2 DEF PmStopInsert, Goes
<1> QED
  BY <1>5, <1>6, <1>7, <1>8, <1>9, <1>10, <1>11, <1>12, <1>13, <1>14

\* A hand that goes on has its type, and an order the venue has seen.
LEMMA GoesTyped ==
  ASSUME NEW q, NEW stages, NEW n, Goes(pm, q, stages, n)
  PROVE  q \in PmHands /\ q.order \in {0, n}
BY IdleTyped DEF Goes

\* The hand of a tick that has fetched its advice.
Fetch(t, d, at, hit, q) == [pm EXCEPT !.tac = t, !.dir = d, !.at = at, !.hit = hit, !.qty = q]

\* What a tick of the manager fetches and where it goes on.
LEMMA PmFetches ==
  ASSUME pm.qty \in Nat, PmFetch
  PROVE  LET t == NewestApproved(Tactical)
             d == NewestApproved(Directive)
         IN  \E at \in {"cut", "trail", "fetch"}, hit \in BOOLEAN, q \in Nat :
               /\ t \in Ids \cup {0} /\ d \in Ids \cup {0}
               /\ at = "fetch" => pm' = ToTac(Fetch(t, d, at, hit, q))
               /\ at # "fetch" => pm' = Fetch(t, d, at, hit, q)
               /\ at = "cut" <=> ToCut(d, pm.qty) > 0
               /\ at = "trail" => Trailing(d)
               /\ q = IF ToCut(d, pm.qty) > 0 THEN ToCut(d, pm.qty) ELSE pm.qty
<1> DEFINE t == NewestApproved(Tactical)
           d == NewestApproved(Directive)
           cut == ToCut(d, pm.qty)
           q == IF cut > 0 THEN cut ELSE pm.qty
           New(at, hit) == Fetch(t, d, at, hit, q)
<1>1. t \in Ids \cup {0} /\ d \in Ids \cup {0}
  BY ApprovedFound
<1>2. cut \in Nat
  BY DEF ToCut
<1>3. \/ cut > 0 /\ pm' = New("cut", FALSE)
      \/ cut = 0 /\ Trailing(d) /\ pm' = New("trail", FALSE)
      \/ \E hit \in BOOLEAN : cut = 0 /\ pm' = ToTac(New("fetch", hit))
  BY DEF PmFetch, Fetch
<1>4. q \in Nat
  BY <1>2
<1> HIDE DEF t, d, q, cut
<1>5. CASE cut > 0 /\ pm' = New("cut", FALSE)
  BY <1>1, <1>4, <1>5 DEF cut, t, d, q
<1>6. CASE cut = 0 /\ Trailing(d) /\ pm' = New("trail", FALSE)
  <2>1. /\ "trail" \in {"cut", "trail", "fetch"} /\ "trail" # "fetch" /\ "trail" # "cut"
        /\ FALSE \in BOOLEAN /\ ~(cut > 0)
    BY <1>2, <1>6
  <2> QED
    BY <1>1, <1>4, <1>6, <2>1 DEF cut, t, d, q
<1>7. ASSUME NEW hit \in BOOLEAN, cut = 0, pm' = ToTac(New("fetch", hit))
      PROVE  \E at \in {"cut", "trail", "fetch"}, h \in BOOLEAN, k \in Nat :
               /\ t \in Ids \cup {0} /\ d \in Ids \cup {0}
               /\ at = "fetch" => pm' = ToTac(Fetch(t, d, at, h, k))
               /\ at # "fetch" => pm' = Fetch(t, d, at, h, k)
               /\ at = "cut" <=> cut > 0
               /\ at = "trail" => Trailing(d)
               /\ k = IF cut > 0 THEN cut ELSE pm.qty
  BY <1>1, <1>4, <1>7 DEF q
<1> QED
  BY <1>3, <1>5, <1>6, <1>7 DEF cut, t, d

\* What the manager has in hand when it has fetched its advice.
LEMMA PmFetched ==
  ASSUME pm \in PmHands, PmFetch
  PROVE  LET t == NewestApproved(Tactical)
             d == NewestApproved(Directive)
         IN  \/ pm' = NoPm
             \/ /\ pm'.tac = t /\ pm'.dir = d /\ pm'.order = pm.order
                /\ pm'.at \in {"cut", "trail", "tacChild", "dirChild", "close"}
                /\ pm'.at = "cut" <=> ToCut(d, pm.qty) > 0
                /\ pm'.at = "trail" => Trailing(d)
                /\ pm'.at = "tacChild" => t # 0
                /\ pm'.at = "dirChild" => d # 0
                /\ pm'.qty = IF ToCut(d, pm.qty) > 0 THEN ToCut(d, pm.qty) ELSE pm.qty
<1> DEFINE t == NewestApproved(Tactical)
           d == NewestApproved(Directive)
           c == ToCut(d, pm.qty)
<1>0. pm.qty \in Nat
  BY DEF PmHands
<1>1. PICK at \in {"cut", "trail", "fetch"}, hit \in BOOLEAN, q \in Nat :
        /\ t \in Ids \cup {0} /\ d \in Ids \cup {0}
        /\ at = "fetch" => pm' = ToTac(Fetch(t, d, at, hit, q))
        /\ at # "fetch" => pm' = Fetch(t, d, at, hit, q)
        /\ at = "cut" <=> c > 0
        /\ at = "trail" => Trailing(d)
        /\ q = IF c > 0 THEN c ELSE pm.qty
  BY <1>0, PmFetches, Zenon
<1> HIDE DEF t, d, c
<1> DEFINE p == Fetch(t, d, at, hit, q)
<1>2. /\ p \in PmHands /\ p.tac = t /\ p.dir = d /\ p.at = at /\ p.qty = q /\ p.order = pm.order
  BY <1>1 DEF Fetch, PmHands, Stages
<1> HIDE DEF p
<1>3. Goes(p, ToTac(p), {"tacChild", "dirChild", "close"}, p.order)
  BY <1>2, Ways
<1>4. CASE at = "fetch"
  <2>1. pm' = ToTac(p)
    BY <1>1, <1>4 DEF p
  <2> QED
    BY <1>1, <1>2, <1>3, <1>4, <2>1 DEF Goes, t, d, c
<1>5. CASE at # "fetch"
  <2>1. pm' = p
    BY <1>1, <1>5 DEF p
  <2> QED
    BY <1>1, <1>2, <1>5, <2>1 DEF t, d, c
<1> QED
  BY <1>4, <1>5

\* The position manager moves.
LEMMA PmStepTyped ==
  ASSUME TypeOK, PmStep
  PROVE  TypeOK'
<1>0. RowsTyped /\ HandsTyped /\ OrdersTyped /\ CountsTyped
  BY TypeParts
<1>1. /\ blind \in Nat /\ faults \in Nat /\ pm \in PmHands /\ orders \in Seq(Order)
      /\ Len(orders) \in Nat /\ cid \in 0 .. Len(orders) /\ pm.order \in 0 .. Len(orders)
      /\ ex.order \in 0 .. Len(orders) /\ cuts \in [Ids -> Nat] /\ trails \in Nat
      /\ outcomes \in [Ids -> Nat] /\ parent \in [Ids -> Statuses] /\ child \in [Ids -> Statuses]
  BY <1>0, OrdersRead DEF CountsTyped, HandsTyped, OrdersTyped, RowsTyped
<1>2. pm.qty \in Nat /\ pm.tac \in Ids \cup {0} /\ pm.dir \in Ids \cup {0}
  BY <1>1 DEF PmHands
<1> DEFINE Rest == UNCHANGED <<config, what, aged, early, sweep, ex, world, placed, manual>>
           Goal == /\ parent' \in [Ids -> Statuses] /\ child' \in [Ids -> Statuses]
                   /\ outcomes' \in [Ids -> Nat]
                   /\ pm' \in PmHands /\ orders' \in Seq(Order) /\ Len(orders) <= Len(orders')
                   /\ pm'.order \in 0 .. Len(orders') /\ cuts' \in [Ids -> Nat]
                   /\ cid' \in 0 .. Len(orders') /\ trails' \in Nat
                   /\ faults' \in Nat /\ blind' \in Nat /\ Rest
<1>3. SUFFICES Goal
  <2>1. ASSUME Goal PROVE RowsTyped' /\ HandsTyped' /\ OrdersTyped' /\ CountsTyped'
    <3>1. Len(orders') \in Nat
      BY <2>1
    <3>2. OrdersTyped'
      BY <1>1, <2>1, <3>1 DEF OrdersTyped
    <3> QED
      BY <1>0, <2>1, <3>2 DEF RowsTyped, HandsTyped, CountsTyped, world
  <2>2. RowsTyped' /\ HandsTyped' /\ OrdersTyped' /\ CountsTyped' => TypeOK'
    BY TypeParts, PTL
  <2> QED
    BY <2>1, <2>2
<1>4. CASE PmBooks
  <2>1. pm' \in PmHands /\ pm'.order = 0
    <3>1. \A q \in Nat, h \in BOOLEAN :
            /\ [NoPm EXCEPT !.at = "fetch", !.qty = q, !.hit = h] \in PmHands
            /\ [NoPm EXCEPT !.at = "fetch", !.qty = q, !.hit = h].order = 0
      BY IdleTyped DEF PmHands, Stages
    <3>2. Book \in Nat /\ deep \in BOOLEAN
      BY <1>0, <1>1, BookTyped DEF CountsTyped
    <3> QED
      BY <1>4, <3>1, <3>2 DEF PmBooks
  <2> QED
    BY <1>1, <1>4, <2>1, FaultsCount DEF PmBooks, rowVars, venueVars, ghosts
<1>5. CASE PmFetch
  <2>1. PICK t \in Ids \cup {0}, d \in Ids \cup {0}, at \in {"cut", "trail", "fetch"}, hit \in BOOLEAN,
             q \in Nat :
          pm' = Fetch(t, d, at, hit, q) \/ pm' = ToTac(Fetch(t, d, at, hit, q))
    BY <1>2, <1>5, PmFetches, Zenon
  <2> DEFINE new == Fetch(t, d, at, hit, q)
  <2>2. new \in PmHands /\ new.order = pm.order
    BY <1>1 DEF Fetch, PmHands, Stages
  <2> HIDE DEF new
  <2>3. pm' \in PmHands /\ pm'.order \in {0, pm.order}
    <3>1. Goes(new, ToTac(new), {"tacChild", "dirChild", "close"}, new.order)
      BY <2>2, Ways
    <3> QED
      BY <2>1, <2>2, <3>1, IdleTyped DEF Goes, new
  <2>4. cid' \in {0, cid}
    BY <1>5 DEF PmFetch
  <2>5. UNCHANGED <<config, rowVars, sweep, ex, orders, trails, world, ghosts>> /\ Fine
    BY <1>5 DEF PmFetch
  <2> QED
    BY <1>1, <1>5, <2>3, <2>4, <2>5, FaultsCount DEF rowVars, ghosts
<1>6. CASE PmMarkChild \/ PmMarkParent
  <2>1. parent' \in [Ids -> Statuses] /\ child' \in [Ids -> Statuses]
    BY <1>1, <1>6 DEF PmMarkChild, PmMarkParent, Statuses
  <2>2. blind' \in Nat /\ faults' \in Nat
    BY <1>1, <1>6, FaultsCount DEF PmMarkChild, PmMarkParent
  <2>3. pm' \in PmHands /\ pm'.order \in {0, pm.order}
    BY <1>1, <1>6, PmMoves, GoesTyped
  <2> QED
    BY <1>1, <1>6, <2>1, <2>2, <2>3 DEF PmMarkChild, PmMarkParent, venueVars, ghosts
<1>7. CASE PmClose
  <2>1. Takes \in Int /\ -pm.qty \in Int /\ -Takes \in Int /\ "placed" \in OrderAt
    <3>1. Takes \in Int
      BY <1>1, <1>2, PositionTyped DEF Takes, Least
    <3> QED
      BY <1>2, <3>1 DEF OrderAt
  <2>2. faults' \in Nat /\ blind' \in Nat
    BY <1>1, <1>7, FaultsCount DEF PmClose
  <2>3. CASE /\ Sent(-pm.qty, -Takes, "placed")
             /\ cuts' = IF pm.at = "cut" THEN [cuts EXCEPT ![pm.dir] = @ + 1] ELSE cuts
             /\ \/ pm' = NoPm
                \/ pm' = [pm EXCEPT !.at = IF @ = "cut" THEN "cutInsert" ELSE "closeInsert",
                                    !.order = Len(orders) + 1]
    <3>1. orders' \in Seq(Order) /\ Len(orders') = Len(orders) + 1
      BY <1>1, <2>1, <2>3, Sends
    <3>2. cuts' \in [Ids -> Nat]
      <4>1. \A d \in Ids : cuts[d] + 1 \in Nat
        BY <1>1
      <4> QED
        BY <1>1, <2>3, <4>1
    <3>3. pm' \in PmHands /\ pm'.order \in {0, Len(orders) + 1}
      BY <1>1, <1>7, PmMoves, GoesTyped
    <3> QED
      BY <1>1, <1>7, <2>2, <3>1, <3>2, <3>3 DEF PmClose, rowVars
  <2>4. CASE pm' = NoPm /\ UNCHANGED <<orders, cuts>>
    BY <1>1, <1>7, <2>2, <2>4, IdleTyped DEF PmClose, rowVars
  <2> QED
    BY <1>7, <2>3, <2>4 DEF PmClose
<1>8. CASE PmInsert
  <2>1. orders' \in Seq(Order) /\ Len(orders') = Len(orders)
    BY <1>1, <1>8, Inserts DEF PmInsert
  <2>3. pm' \in PmHands /\ pm'.order = 0
    BY <1>1, <1>8, PmMoves, GoesTyped
  <2>4. faults' \in Nat /\ blind' \in Nat
    BY <1>1, <1>8, FaultsCount DEF PmInsert
  <2> QED
    BY <1>1, <1>8, <2>1, <2>3, <2>4 DEF PmInsert, rowVars, ghosts
<1>9. CASE PmOutcome
  <2>1. outcomes' \in [Ids -> Nat]
    <3>1. \A d \in Ids : outcomes[d] + 1 \in Nat
      BY <1>1
    <3> QED
      BY <1>1, <1>9, <3>1 DEF PmOutcome
  <2>2. pm' \in PmHands /\ pm'.order \in {0, pm.order}
    BY <1>1, <1>9, PmMoves, GoesTyped
  <2>3. faults' \in Nat /\ blind' \in Nat
    BY <1>1, <1>9, FaultsCount DEF PmOutcome
  <2> QED
    BY <1>1, <1>9, <2>1, <2>2, <2>3 DEF PmOutcome, venueVars, ghosts
<1>10. CASE PmTrail
  <2>1. pm' \in PmHands /\ pm'.order \in {0, pm.order}
    BY <1>1, <1>10, PmMoves, GoesTyped
  <2> QED
    BY <1>1, <1>10, <2>1, FaultsCount DEF PmTrail, rowVars, venueVars, ghosts
<1>11. CASE PmLook
  <2>1. pm' \in PmHands /\ pm'.order \in {0, pm.order}
    BY <1>1, <1>11, PmMoves, GoesTyped
  <2>2. faults' \in Nat /\ blind' \in Nat /\ cid' \in {0, cid}
    BY <1>1, <1>11, FaultsCount DEF PmLook
  <2> QED
    BY <1>1, <1>11, <2>1, <2>2 DEF PmLook, rowVars, ghosts
<1>12. CASE PmCancel
  <2>1. pm' \in PmHands /\ pm'.order \in {0, pm.order}
    BY <1>1, <1>12, PmMoves, GoesTyped
  <2>2. faults' \in Nat /\ blind' \in Nat
    BY <1>1, <1>12, FaultsCount DEF PmCancel
  <2>3. orders' \in Seq(Order) /\ Len(orders') = Len(orders)
    <3>1. Replaced \in Seq(Order) /\ Len(Replaced) = Len(orders)
      <4>1. "void" \in OrderAt
        BY DEF OrderAt
      <4> QED
        BY <1>1, <4>1, OrderRelabelled DEF Replaced
    <3> QED
      BY <1>1, <1>12, <3>1 DEF PmCancel
  <2> QED
    BY <1>1, <1>12, <2>1, <2>2, <2>3 DEF PmCancel, rowVars, ghosts
<1>13. CASE PmStop
  <2>1. faults' \in Nat /\ blind' \in Nat /\ trails' \in Nat
    BY <1>1, <1>13, FaultsCount DEF PmStop
  <2>2. CASE Sent(-pm.qty, 0, "loose")
    <3>1. -pm.qty \in Int /\ 0 \in Int /\ "loose" \in OrderAt
      BY <1>2 DEF OrderAt
    <3>2. orders' \in Seq(Order) /\ Len(orders') = Len(orders) + 1
      <4>1. PICK asked \in Int, done \in Int, at \in OrderAt : Sent(asked, done, at)
        BY <2>2, <3>1
      <4> QED
        BY <1>1, <4>1, Sends
    <3>3. pm' \in PmHands /\ pm'.order \in {0, pm.order, Len(orders) + 1}
      BY <1>1, <1>13, PmMoves, GoesTyped
    <3> QED
      BY <1>1, <1>13, <2>1, <3>2, <3>3 DEF PmStop, rowVars, ghosts
  <2>3. CASE UNCHANGED <<orders, trails>> /\ pm' = ToDir(pm)
    <3>1. pm' \in PmHands /\ pm'.order \in {0, pm.order}
      BY <1>1, <2>3, Ways, GoesTyped
    <3> QED
      BY <1>1, <1>13, <2>1, <2>3, <3>1 DEF PmStop, rowVars, ghosts
  <2> QED
    BY <1>13, <2>2, <2>3 DEF PmStop
<1>14. CASE PmStopInsert
  <2>1. pm' \in PmHands /\ pm'.order = 0
    BY <1>1, <1>14, PmMoves, GoesTyped
  <2>2. faults' \in Nat /\ blind' \in Nat /\ cid' \in {0, pm.order}
    BY <1>1, <1>14, FaultsCount DEF PmStopInsert
  <2>3. orders' \in Seq(Order) /\ Len(orders') = Len(orders)
    BY <1>1, <1>14, StopBooked
  <2> QED
    BY <1>1, <1>14, <2>1, <2>2, <2>3 DEF PmStopInsert, rowVars, ghosts
<1> QED
  BY <1>4, <1>5, <1>6, <1>7, <1>8, <1>9, <1>10, <1>11, <1>12, <1>13, <1>14 DEF PmStep

\* The venue, the market and the operator move, and the worker dies.
OutsideStep ==
  \/ \E i \in 1 .. Len(orders) : StopFires(i)
  \/ Reconcile \/ Hidden \/ ManualEntry \/ Market \/ Switch \/ Crash

LEMMA StopFills ==
  ASSUME orders \in Seq(Order), NEW i \in 1 .. Len(orders), StopFires(i)
  PROVE  LET fill == -Least(-orders[i].asked, Pos)
             to == IF orders[i].at = "resting" THEN "taken" ELSE "placed"
             o == [asked |-> orders[i].asked, done |-> fill, at |-> to]
         IN  /\ fill \in Int /\ o \in Order /\ orders' = [orders EXCEPT ![i] = o]
             /\ orders' \in Seq(Order) /\ Len(orders') = Len(orders)
             /\ \A j \in 1 .. Len(orders) : orders'[j] = IF j = i THEN o ELSE orders[j]
<1> DEFINE fill == -Least(-orders[i].asked, Pos)
           to == IF orders[i].at = "resting" THEN "taken" ELSE "placed"
           o == [asked |-> orders[i].asked, done |-> fill, at |-> to]
<1>1. orders[i] \in Order /\ orders[i].asked \in Int
  BY OrdersRead
<1>2. fill \in Int
  <2>1. Pos \in Int
    BY PositionTyped
  <2> QED
    BY <1>1, <2>1 DEF Least
<1>t. to \in OrderAt
  BY DEF OrderAt
<1> HIDE DEF fill, to
<1>3. o \in Order
  BY <1>1, <1>2, <1>t DEF Order
<1>4. [orders[i] EXCEPT !.at = to, !.done = fill] = o
  <2>1. PICK a \in Int, b \in Int, c \in OrderAt : orders[i] = [asked |-> a, done |-> b, at |-> c]
    BY <1>1 DEF Order
  <2>2. [[asked |-> a, done |-> b, at |-> c] EXCEPT !.at = to, !.done = fill]
          = [asked |-> a, done |-> fill, at |-> to]
    <3>1. [[asked |-> a, done |-> b, at |-> c] EXCEPT !.at = to] = [asked |-> a, done |-> b, at |-> to]
      OBVIOUS
    <3>2. [[asked |-> a, done |-> b, at |-> to] EXCEPT !.done = fill]
            = [asked |-> a, done |-> fill, at |-> to]
      OBVIOUS
    <3> QED
      BY <3>1, <3>2, Zenon
  <2>3. orders[i].asked = a
    BY <2>1
  <2> QED
    BY <2>1, <2>2, <2>3, Zenon
<1>5. orders' = [orders EXCEPT ![i].at = to, ![i].done = fill]
  BY DEF StopFires, fill, to
<1>6. orders' = [orders EXCEPT ![i] = [orders[i] EXCEPT !.at = to, !.done = fill]]
  <2>1. i \in DOMAIN orders
    OBVIOUS
  <2> QED
    BY <1>5, <2>1
<1>7. orders' = [orders EXCEPT ![i] = o]
  BY <1>4, <1>6
<1> HIDE DEF o
<1>8. /\ orders' \in Seq(Order) /\ Len(orders') = Len(orders)
      /\ \A j \in 1 .. Len(orders) : orders'[j] = IF j = i THEN o ELSE orders[j]
  BY <1>3, <1>7, OrderChanged
<1> QED
  BY <1>2, <1>3, <1>7, <1>8 DEF o, fill, to

LEMMA OutsideStepTyped ==
  ASSUME TypeOK, OutsideStep
  PROVE  TypeOK'
<1>0. RowsTyped /\ HandsTyped /\ OrdersTyped /\ CountsTyped
  BY TypeParts
<1>1. /\ blind \in Nat /\ faults \in Nat /\ ex \in ExHands /\ pm \in PmHands
      /\ sweep \in [Layers -> Sweeps] /\ orders \in Seq(Order) /\ manual \in Nat
      /\ Len(orders) \in Nat /\ cid \in 0 .. Len(orders) /\ pm.order \in 0 .. Len(orders)
      /\ ex.order \in 0 .. Len(orders) /\ deep \in BOOLEAN /\ halted \in BOOLEAN
  BY <1>0, OrdersRead DEF CountsTyped, HandsTyped, OrdersTyped, RowsTyped
<1> DEFINE Rest == UNCHANGED <<config, rowVars, trails, placed, cuts>>
           Goal == /\ ex' \in ExHands /\ pm' \in PmHands /\ sweep' \in [Layers -> Sweeps]
                   /\ orders' \in Seq(Order) /\ Len(orders) <= Len(orders')
                   /\ ex'.order \in {0, ex.order} /\ pm'.order \in {0, pm.order}
                   /\ cid' \in {0, cid} /\ manual' \in Nat /\ deep' \in BOOLEAN /\ halted' \in BOOLEAN
                   /\ faults' \in Nat /\ blind' \in Nat /\ Rest
<1>2. SUFFICES Goal
  <2>1. ASSUME Goal PROVE RowsTyped' /\ HandsTyped' /\ OrdersTyped' /\ CountsTyped'
    <3>1. Len(orders') \in Nat
      BY <2>1
    <3>2. OrdersTyped'
      BY <1>1, <2>1, <3>1 DEF OrdersTyped
    <3> QED
      BY <1>0, <2>1, <3>2 DEF RowsTyped, HandsTyped, CountsTyped, rowVars
  <2>2. RowsTyped' /\ HandsTyped' /\ OrdersTyped' /\ CountsTyped' => TypeOK'
    BY TypeParts, PTL
  <2> QED
    BY <2>1, <2>2
<1>3. ASSUME NEW i \in 1 .. Len(orders), StopFires(i) PROVE Goal
  <2>1. orders' \in Seq(Order) /\ Len(orders') = Len(orders)
    BY <1>1, <1>3, StopFills
  <2> QED
    BY <1>1, <1>3, <2>1, FaultsCount DEF StopFires, world, ghosts
<1>4. CASE Reconcile \/ Hidden
  <2>1. PICK i \in 1 .. Len(orders), at \in {"booked", "placed"} : orders' = [orders EXCEPT ![i].at = at]
    BY <1>4 DEF Reconcile, Hidden
  <2>2. orders' \in Seq(Order) /\ Len(orders') = Len(orders)
    <3>1. at \in OrderAt
      BY DEF OrderAt
    <3> QED
      BY <1>1, <2>1, <3>1, OrderRelabelled
  <2> QED
    BY <1>1, <1>4, <2>2, FaultsCount DEF Reconcile, Hidden, world, ghosts
<1>5. CASE ManualEntry
  <2>1. orders' \in Seq(Order) /\ Len(orders') = Len(orders) + 1
    <3>1. Unit \in Int /\ "booked" \in OrderAt
      BY DeskAssumption DEF OrderAt
    <3> QED
      BY <1>1, <1>5, <3>1, Sends DEF ManualEntry
  <2> QED
    BY <1>1, <1>5, <2>1, FaultsCount DEF ManualEntry, world
<1>6. CASE Market
  BY <1>1, <1>6, FaultsCount DEF Market, venueVars, ghosts
<1>s. CASE Switch
  BY <1>1, <1>s, FaultsCount DEF Switch, venueVars, ghosts
<1>7. CASE Crash
  <2>1. faults' \in Nat /\ blind' \in Nat
    BY <1>1, <1>7, FaultsCount DEF Crash
  <2>2. sweep' \in [Layers -> Sweeps]
    BY <1>7, IdleTyped DEF Crash
  <2> QED
    BY <1>1, <1>7, <2>1, <2>2, IdleTyped DEF Crash, world, ghosts
<1> QED
  BY <1>3, <1>4, <1>5, <1>6, <1>s, <1>7 DEF OutsideStep

LEMMA NextParts == Next <=> RowStep \/ OutsideStep \/ ExStep \/ PmStep
BY DEF Next, RowStep, OutsideStep

LEMMA SweepsStepHold ==
  ASSUME TypeOK, SweepsHold, Next
  PROVE  SweepsHold'
<1>0. sweep \in [Layers -> Sweeps]
  BY TypeParts DEF HandsTyped
<1>1. ASSUME NEW l \in Layers, SweepStep(l) PROVE SweepsHold'
  <2>1. CASE InsertDecision(l)
    <3>1. PICK d \in Ids : sweep' = [sweep EXCEPT ![l] = [id |-> d, at |-> "child"]]
      BY <2>1, TypeParts, ConfigTyped DEF InsertDecision
    <3>2. d # 0
      BY DEF Ids
    <3> QED
      BY <1>0, <3>1, <3>2 DEF SweepsHold
  <2>2. CASE InsertChild(l)
    <3>1. CASE sweep' = [sweep EXCEPT ![l].at = "approve"]
      <4>1. sweep[l].id # 0 /\ sweep[l] \in Sweeps
        BY <1>0, <2>2 DEF InsertChild, SweepsHold
      <4>2. sweep'[l].id = sweep[l].id
        BY <1>0, <3>1, <4>1 DEF Sweeps
      <4> QED
        BY <1>0, <3>1, <4>1, <4>2 DEF SweepsHold
    <3>2. CASE sweep' = [sweep EXCEPT ![l] = NoSweep]
      BY <1>0, <3>2, IdleTyped DEF SweepsHold
    <3> QED
      BY <2>2, <3>1, <3>2 DEF InsertChild
  <2>3. CASE AutoApprove(l)
    BY <1>0, <2>3, IdleTyped DEF AutoApprove, SweepsHold
  <2> QED
    BY <1>1, <2>1, <2>2, <2>3 DEF SweepStep
<1>2. CASE Crash
  BY <1>2, IdleTyped DEF Crash, SweepsHold
<1>3. ASSUME UNCHANGED sweep PROVE SweepsHold'
  BY <1>3 DEF SweepsHold
<1>4. \/ \E l \in Layers : SweepStep(l)
      \/ Crash
      \/ UNCHANGED sweep
  BY DEF Next, Age, AdminVerdict, StopFires, Expire, Reconcile, Hidden, ManualEntry, Market, Switch,
         ExStep, ExFetch, ExLook, ExPlace, ExInsert, ExMarkChild, ExMarkParent,
         PmStep, PmBooks, PmFetch, PmMarkChild, PmMarkParent, PmClose, PmInsert, PmOutcome,
         PmTrail, PmLook, PmCancel, PmStop, PmStopInsert
<1> QED
  BY <1>1, <1>2, <1>3, <1>4

\* Every variable always has its type: among them the book the manager closes from, which
\* is never short, and the hands, which never hold an order the venue has not seen.
THEOREM TypeCorrect == Spec => []TypeOK
<1>1. Init => TypeOK /\ SweepsHold
  <2>1. ASSUME Init PROVE TypeOK /\ SweepsHold
    <3>1. <<>> \in Seq(Order) /\ Len(<<>>) = 0
      OBVIOUS
    <3>2. RowsTyped
      BY <2>1 DEF Init, RowsTyped, Statuses
    <3>3. HandsTyped /\ OrdersTyped
      BY <2>1, <3>1, IdleTyped DEF Init, HandsTyped, OrdersTyped
    <3>4. CountsTyped
      BY <2>1 DEF Init, CountsTyped
    <3>5. SweepsHold
      BY <2>1, IdleTyped DEF Init, SweepsHold
    <3> QED
      BY <3>2, <3>3, <3>4, <3>5, TypeParts
  <2> QED
    BY <2>1
<1>2. TypeOK /\ SweepsHold /\ [Next]_vars => TypeOK' /\ SweepsHold'
  <2>1. ASSUME TypeOK, SweepsHold, Next PROVE TypeOK' /\ SweepsHold'
    BY <2>1, NextParts, RowStepTyped, OutsideStepTyped, ExStepTyped, PmStepTyped, SweepsStepHold
  <2>2. ASSUME TypeOK, SweepsHold, UNCHANGED vars PROVE TypeOK' /\ SweepsHold'
    <3>1. RowsTyped'
      BY <2>2, TypeParts DEF vars, rowVars, RowsTyped
    <3>2. HandsTyped' /\ SweepsHold'
      BY <2>2, TypeParts DEF vars, HandsTyped, SweepsHold
    <3>3. OrdersTyped'
      BY <2>2, TypeParts DEF vars, venueVars, OrdersTyped
    <3>4. CountsTyped'
      BY <2>2, TypeParts DEF vars, venueVars, world, ghosts, failVars, CountsTyped
    <3>5. TypeOK'
      BY <3>1, <3>2, <3>3, <3>4
         DEF TypeOK, RowsTyped, HandsTyped, OrdersTyped, CountsTyped, Sweeps, ExHands, PmHands, Stages
    <3> QED
      BY <3>2, <3>5
  <2> QED
    BY <2>1, <2>2
<1> QED
  BY <1>1, <1>2, PTL DEF Spec

---------------------------------------------------------------------------
(* Verdicts: what is traded was approved, and both rows say so.           *)

Approved == {"approved", "applied", "failed"}
Hands == {ex.id, pm.tac, pm.dir}

\* A decision has rows from the moment a sweep makes it.
Unwritten ==
  \A d \in Ids : what[d] = "none" => parent[d] = "absent" /\ child[d] = "absent" /\ d \notin aged

\* Each sweep writes a decision of its own, the child row after the parent.
Writes(l) ==
  sweep[l].at # "idle" =>
    LET d == sweep[l].id
    IN  /\ d \in Ids /\ what[d] # "none" /\ d \notin aged
        /\ sweep[l].at = "child" => child[d] = "absent" /\ (d \notin early => parent[d] = "pending")
        /\ sweep[l].at = "approve" => child[d] # "absent"
        /\ \A k \in Layers \ {l} : sweep[k].at # "idle" => sweep[k].id # d
SweepsWrite == \A l \in Layers : Writes(l)

\* What is in hand, and what was traded, was approved.
Approvals ==
  \A d \in Ids : d \in Hands \/ placed[d] > 0 \/ cuts[d] > 0 => child[d] \in Approved

\* The rows of a decision that was not settled too early.
Agree(p, c) ==
  /\ c \in Approved => p \in Approved
  /\ c \notin Approved /\ c # "absent" => c = p
Together == \A d \in Ids \ early : Agree(parent[d], child[d])

Verdicts == Unwritten /\ SweepsWrite /\ Approvals /\ Together

LEMMA VerdictsImply ==
  ASSUME TypeOK, Verdicts
  PROVE  UnapprovedNeverTraded /\ VerdictsAgree
<1>1. /\ parent \in [Ids -> Statuses] /\ child \in [Ids -> Statuses]
      /\ placed \in [Ids -> Nat] /\ cuts \in [Ids -> Nat]
  BY TypeParts DEF RowsTyped, CountsTyped
<1>2. ASSUME NEW d \in Ids, placed[d] + cuts[d] > 0, d \notin early
      PROVE  parent[d] \notin {"pending", "rejected", "expired"}
  <2>1. placed[d] > 0 \/ cuts[d] > 0
    BY <1>1, <1>2
  <2>2. parent[d] \in Approved
    BY <1>2, <2>1 DEF Verdicts, Approvals, Together, Agree
  <2> QED
    BY <2>2 DEF Approved
<1>3. UnapprovedNeverTraded
  BY <1>2 DEF UnapprovedNeverTraded
<1>4. VerdictsAgree
  BY DEF VerdictsAgree, Verdicts, Together, Agree, Approved, Executing
<1> QED
  BY <1>3, <1>4

\* A step that leaves the rows and the sweeps alone, and takes in hand and trades only
\* what is approved.
LEMMA RowsRead ==
  ASSUME Verdicts, UNCHANGED <<what, parent, child, aged, early, sweep>>,
         \A d \in Ids : (d \in Hands \/ placed[d] > 0 \/ cuts[d] > 0)' =>
                         \/ d \in Hands \/ placed[d] > 0 \/ cuts[d] > 0
                         \/ child[d] \in Approved
  PROVE  Verdicts'
<1>1. Unwritten' /\ SweepsWrite'
  BY DEF Verdicts, Unwritten, SweepsWrite, Writes
<1>2. Approvals'
  BY DEF Verdicts, Approvals
<1>3. Together'
  BY DEF Verdicts, Together
<1> QED
  BY <1>1, <1>2, <1>3 DEF Verdicts

\* A step that marks a row of a decision in hand, whatever its other row says.
Executed == {"applied", "failed"}
LEMMA RowsMarked ==
  ASSUME Verdicts, Hands' \cap Ids \subseteq Hands,
         \A d \in Ids : child'[d] = child[d] \/ (d \in Hands /\ child'[d] \in Executed),
         \A d \in Ids : parent'[d] = parent[d] \/ (d \in Hands /\ parent'[d] \in Executed),
         UNCHANGED <<what, aged, early, sweep, placed, cuts>>
  PROVE  Verdicts'
<1>1. \A d \in Ids \cap Hands : child[d] \in Approved /\ child'[d] \in Approved
  BY DEF Verdicts, Approvals, Approved, Executed
<1>2. \A d \in Ids : child[d] \notin Approved => child'[d] = child[d] /\ parent'[d] = parent[d]
  BY <1>1
<1>3. \A d \in Ids : child[d] \in Approved => child'[d] \in Approved
  BY <1>1
<1>4. Unwritten'
  BY <1>2 DEF Verdicts, Unwritten, Approved
<1>5. SweepsWrite'
  <2>1. SUFFICES ASSUME NEW l \in Layers, sweep[l].at # "idle" PROVE Writes(l)'
    BY DEF SweepsWrite, Writes
  <2>2. Writes(l)
    BY DEF Verdicts, SweepsWrite
  <2>3. sweep[l].id \in Ids
    BY <2>1, <2>2 DEF Writes
  <2>4. /\ child[sweep[l].id] = "absent" =>
             child'[sweep[l].id] = "absent" /\ parent'[sweep[l].id] = parent[sweep[l].id]
        /\ child[sweep[l].id] # "absent" => child'[sweep[l].id] # "absent"
    BY <1>2, <1>3, <2>3 DEF Approved
  <2> QED
    BY <2>1, <2>2, <2>4 DEF Writes
<1>6. Approvals'
  <2>1. ASSUME NEW d \in Ids, (d \in Hands \/ placed[d] > 0 \/ cuts[d] > 0)' PROVE child'[d] \in Approved
    <3>1. child[d] \in Approved
      BY <2>1 DEF Verdicts, Approvals
    <3> QED
      BY <1>3, <3>1
  <2> QED
    BY <2>1 DEF Approvals
<1>7. Together'
  <2>1. ASSUME NEW d \in Ids \ early PROVE Agree(parent'[d], child'[d])
    <3>1. Agree(parent[d], child[d])
      BY DEF Verdicts, Together
    <3>2. parent[d] \in Approved => parent'[d] \in Approved
      BY DEF Approved, Executed
    <3> QED
      BY <1>2, <1>3, <3>1, <3>2 DEF Agree
  <2> QED
    BY <2>1 DEF Together
<1> QED
  BY <1>4, <1>5, <1>6, <1>7 DEF Verdicts

LEMMA ExVerdicts ==
  ASSUME TypeOK, Verdicts, ExStep
  PROVE  Verdicts'
<1>0. /\ ex \in ExHands /\ placed \in [Ids -> Nat] /\ ex.id \in Ids \cup {0} /\ 0 \notin Ids
      /\ parent \in [Ids -> Statuses] /\ child \in [Ids -> Statuses]
  BY TypeParts DEF CountsTyped, HandsTyped, RowsTyped, ExHands, Ids
<1>1. CASE ExFetch
  <2> DEFINE d == NewestApproved(Tactical)
  <2>1. d \in Ids /\ child[d] = "approved"
    BY <1>1, ApprovedFound DEF ExFetch
  <2>2. ex'.id = d /\ UNCHANGED <<pm, placed, cuts, what, parent, child, aged, early, sweep>>
    <3>1. [NoEx EXCEPT !.id = d, !.at = "look"].id = d
      BY IdleTyped DEF ExHands
    <3> QED
      BY <1>1, <3>1 DEF ExFetch, rowVars, ghosts
  <2> HIDE DEF d
  <2> QED
    BY <1>0, <2>1, <2>2, RowsRead DEF Hands, Approved
<1>2. CASE ExLook \/ ExInsert
  <2>1. ex'.id \in {0, ex.id} /\ UNCHANGED <<pm, placed, cuts, what, parent, child, aged, early, sweep>>
    BY <1>0, <1>2, IdleTyped DEF ExLook, ExInsert, rowVars, ghosts, ExHands
  <2> QED
    BY <1>0, <2>1, RowsRead DEF Hands
<1>3. CASE ExPlace
  <2>1. ex'.id \in {0, ex.id} /\ UNCHANGED <<pm, cuts, what, parent, child, aged, early, sweep>>
    BY <1>0, <1>3, IdleTyped DEF ExPlace, rowVars, ghosts, ExHands
  <2>2. \A d \in Ids : d # ex.id => placed'[d] = placed[d]
    BY <1>0, <1>3 DEF ExPlace
  <2> QED
    BY <1>0, <2>1, <2>2, RowsRead DEF Hands
<1>4. CASE ExMarkChild \/ ExMarkParent
  <2>1. /\ ex'.id \in {0, ex.id} /\ pm' = pm /\ UNCHANGED <<what, aged, early, sweep, placed, cuts>>
    BY <1>0, <1>4, IdleTyped DEF ExMarkChild, ExMarkParent, ghosts, ExHands
  <2>2. ex.at \in Executed
    BY <1>4 DEF ExMarkChild, ExMarkParent, Executed
  <2>3. \A d \in Ids : /\ child'[d] = child[d] \/ (d = ex.id /\ child'[d] = ex.at)
                       /\ parent'[d] = parent[d] \/ (d = ex.id /\ parent'[d] = ex.at)
    BY <1>0, <1>4 DEF ExMarkChild, ExMarkParent
  <2>4. Hands' \cap Ids \subseteq Hands /\ ex.id \in Hands
    BY <1>0, <2>1 DEF Hands
  <2> QED
    BY <2>1, <2>2, <2>3, <2>4, RowsMarked
<1> QED
  BY <1>1, <1>2, <1>3, <1>4 DEF ExStep

\* Going on, the manager takes nothing new in hand.
LEMMA PmHandsKept ==
  ASSUME TypeOK,
         \/ PmMarkChild \/ PmMarkParent \/ PmClose \/ PmInsert \/ PmOutcome
         \/ PmTrail \/ PmLook \/ PmCancel \/ PmStop \/ PmStopInsert
  PROVE  pm'.tac \in {0, pm.tac} /\ pm'.dir \in {0, pm.dir}
<1>1. ASSUME NEW stages, NEW n, Goes(pm, pm', stages, n)
      PROVE  pm'.tac \in {0, pm.tac} /\ pm'.dir \in {0, pm.dir}
  BY <1>1, IdleTyped DEF Goes
<1>2. pm \in PmHands /\ Len(orders) \in Nat
  BY TypeParts, OrdersRead DEF HandsTyped, OrdersTyped
<1> QED
  BY <1>1, <1>2, PmMoves

LEMMA PmVerdicts ==
  ASSUME TypeOK, Verdicts, PmStep
  PROVE  Verdicts'
<1>0. /\ pm \in PmHands /\ cuts \in [Ids -> Nat] /\ 0 \notin Ids
      /\ pm.tac \in Ids \cup {0} /\ pm.dir \in Ids \cup {0}
      /\ parent \in [Ids -> Statuses] /\ child \in [Ids -> Statuses]
  BY TypeParts DEF CountsTyped, HandsTyped, RowsTyped, PmHands, Ids
<1>1. CASE PmBooks
  <2>1. pm'.tac = 0 /\ pm'.dir = 0
    BY <1>1, IdleTyped DEF PmBooks, PmHands
  <2>2. UNCHANGED <<ex, placed, cuts, what, parent, child, aged, early, sweep>>
    BY <1>1 DEF PmBooks, rowVars, ghosts
  <2> QED
    BY <1>0, <2>1, <2>2, RowsRead DEF Hands
<1>2. CASE PmFetch
  <2>1. \A d \in {pm'.tac, pm'.dir} : d = 0 \/ (d \in Ids /\ child[d] = "approved")
    BY <1>0, <1>2, PmFetched, ApprovedFound, IdleTyped
  <2>2. UNCHANGED <<ex, placed, cuts, what, parent, child, aged, early, sweep>>
    BY <1>2 DEF PmFetch, rowVars, ghosts
  <2> QED
    BY <1>0, <2>1, <2>2, RowsRead DEF Hands, Approved
<1>3. CASE PmMarkChild \/ PmMarkParent
  <2>1. InHand \in Hands
    BY DEF InHand, Hands
  <2>2. UNCHANGED <<ex, what, aged, early, sweep, placed, cuts>>
    BY <1>3 DEF PmMarkChild, PmMarkParent, ghosts
  <2>3. \A d \in Ids : /\ child'[d] = child[d] \/ (d = InHand /\ child'[d] = "applied")
                       /\ parent'[d] = parent[d] \/ (d = InHand /\ parent'[d] = "applied")
    BY <1>0, <1>3 DEF PmMarkChild, PmMarkParent
  <2>4. Hands' \cap Ids \subseteq Hands
    BY <1>0, <1>3, <2>2, PmHandsKept DEF Hands
  <2> QED
    BY <2>1, <2>2, <2>3, <2>4, RowsMarked DEF Executed
<1>4. CASE PmClose
  <2>1. /\ UNCHANGED <<ex, placed, what, parent, child, aged, early, sweep>>
        /\ \A d \in Ids : d # pm.dir => cuts'[d] = cuts[d]
    BY <1>0, <1>4 DEF PmClose, rowVars
  <2>2. pm'.tac \in {0, pm.tac} /\ pm'.dir \in {0, pm.dir}
    BY <1>4, PmHandsKept
  <2> QED
    BY <1>0, <2>1, <2>2, RowsRead DEF Hands
<1>5. CASE PmInsert \/ PmOutcome \/ PmTrail \/ PmLook \/ PmCancel \/ PmStop \/ PmStopInsert
  <2>1. UNCHANGED <<ex, placed, cuts, what, parent, child, aged, early, sweep>>
    BY <1>5 DEF PmInsert, PmOutcome, PmTrail, PmLook, PmCancel, PmStop, PmStopInsert, rowVars, ghosts
  <2>2. pm'.tac \in {0, pm.tac} /\ pm'.dir \in {0, pm.dir}
    BY <1>5, PmHandsKept
  <2> QED
    BY <1>0, <2>1, <2>2, RowsRead DEF Hands
<1> QED
  BY <1>1, <1>2, <1>3, <1>4, <1>5 DEF PmStep

\* A verdict settles the pending rows of a decision that has its child row, or comes early.
LEMMA SettlesBoth ==
  ASSUME RowsTyped, NEW d \in Ids, NEW verdict \in {"approved", "rejected"}, Settle(d, verdict),
         d \notin early => Agree(parent[d], child[d])
  PROVE  /\ d \notin early' => d \notin early /\ Agree(parent'[d], child'[d])
         /\ \A c \in Ids \ {d} : /\ c \in early' <=> c \in early
                                /\ parent'[c] = parent[c] /\ child'[c] = child[c]
         /\ early \subseteq early'
         /\ child[d] \in Approved => child'[d] \in Approved
         /\ child[d] # "absent" <=> child'[d] # "absent"
         /\ parent[d] = "absent" => parent'[d] = "absent"
         /\ child[d] = "absent" => d \in early'
<1>1. /\ parent'[d] = Settled(parent, d, verdict) /\ child'[d] = Settled(child, d, verdict)
      /\ \A c \in Ids \ {d} : parent'[c] = parent[c] /\ child'[c] = child[c]
  BY DEF RowsTyped, Settle
<1>2. /\ d \notin early' => d \notin early /\ child[d] # "absent"
      /\ early \subseteq early' /\ early' \subseteq early \cup {d}
      /\ child[d] = "absent" => d \in early'
  BY DEF Settle
<1>3. d \notin early' => Agree(parent'[d], child'[d])
  BY <1>1, <1>2 DEF Agree, Settled, Approved
<1> QED
  BY <1>1, <1>2, <1>3 DEF Settled, Approved

LEMMA RowVerdicts ==
  ASSUME TypeOK, SweepsHold, Verdicts, RowStep
  PROVE  Verdicts'
<1>0. /\ RowsTyped /\ sweep \in [Layers -> Sweeps]
      /\ placed \in [Ids -> Nat] /\ cuts \in [Ids -> Nat]
      /\ what \in [Ids -> {"none"} \cup Tactical \cup Directive]
      /\ parent \in [Ids -> Statuses] /\ child \in [Ids -> Statuses]
  BY TypeParts DEF CountsTyped, HandsTyped, RowsTyped
<1>a. /\ \A d \in Ids : what[d] = "none" => parent[d] = "absent" /\ child[d] = "absent" /\ d \notin aged
      /\ \A l \in Layers : Writes(l)
      /\ \A d \in Ids : d \in Hands \/ placed[d] > 0 \/ cuts[d] > 0 => child[d] \in Approved
      /\ \A d \in Ids \ early : Agree(parent[d], child[d])
  BY DEF Verdicts, Unwritten, SweepsWrite, Approvals, Together
<1>b. UNCHANGED <<ex, pm, placed, cuts>>
  BY DEF RowStep, SweepStep, InsertDecision, InsertChild, AutoApprove, Age, AdminVerdict, Expire, ghosts
<1>1. ASSUME NEW l \in Layers, InsertDecision(l) PROVE Verdicts'
  <2>1. PICK d \in Ids, a \in Tactical \cup Directive :
          /\ what[d] = "none" /\ what' = [what EXCEPT ![d] = a]
          /\ parent' = [parent EXCEPT ![d] = "pending"]
          /\ sweep' = [sweep EXCEPT ![l] = [id |-> d, at |-> "child"]]
    <3>1. PICK d \in 1 .. config.rows, a \in Advised(l) :
            /\ \A c \in Ids : what[c] = "none" <=> c >= d
            /\ what' = [what EXCEPT ![d] = a]
            /\ parent' = [parent EXCEPT ![d] = "pending"]
            /\ sweep' = [sweep EXCEPT ![l] = [id |-> d, at |-> "child"]]
      BY <1>1 DEF InsertDecision
    <3>2. d \in Ids /\ d \in Int /\ a \in Tactical \cup Directive
      BY <1>0, ConfigTyped DEF Advised
    <3>3. what[d] = "none"
      BY <3>1, <3>2
    <3> QED
      BY <3>1, <3>2, <3>3
  <2>2. UNCHANGED <<child, aged, early>>
    BY <1>0, <1>1 DEF InsertDecision
  <2>3. a # "none" /\ child[d] = "absent" /\ d \notin aged
    BY <1>a, <2>1 DEF Tactical, Directive
  <2>4. Unwritten'
    BY <1>0, <1>a, <2>1, <2>2, <2>3 DEF Unwritten
  <2>5. ASSUME NEW k \in Layers PROVE Writes(k)'
    <3>1. CASE k = l
      <4>1. /\ sweep'[l].id = d /\ sweep'[l].at = "child"
            /\ \A j \in Layers \ {l} : sweep'[j] = sweep[j]
        BY <1>0, <2>1
      <4>2. \A j \in Layers \ {l} : sweep'[j].at # "idle" => sweep'[j].id # d
        BY <1>a, <2>1, <4>1 DEF Writes
      <4>3. what'[d] # "none" /\ parent'[d] = "pending" /\ child'[d] = "absent" /\ d \notin aged'
        BY <1>0, <2>1, <2>2, <2>3
      <4> QED
        BY <3>1, <4>1, <4>2, <4>3 DEF Writes
    <3>2. CASE k # l
      <4>1. /\ sweep'[k] = sweep[k] /\ sweep'[l].id = d
            /\ \A j \in Layers \ {l} : sweep'[j] = sweep[j]
        BY <1>0, <2>1, <3>2
      <4>2. SUFFICES ASSUME sweep[k].at # "idle" PROVE Writes(k)'
        BY <4>1 DEF Writes
      <4>3. sweep[k].id \in Ids /\ sweep[k].id # d
        BY <1>a, <2>1, <4>2 DEF Writes
      <4>4. what'[sweep[k].id] = what[sweep[k].id] /\ parent'[sweep[k].id] = parent[sweep[k].id]
        BY <1>0, <2>1, <4>3
      <4> QED
        BY <1>a, <2>2, <4>1, <4>2, <4>3, <4>4 DEF Writes
    <3> QED
      BY <3>1, <3>2
  <2>6. Approvals'
    BY <1>a, <1>b, <2>2 DEF Approvals, Hands
  <2>7. Together'
    BY <1>0, <1>a, <2>1, <2>2, <2>3 DEF Together, Agree, Approved
  <2> QED
    BY <2>4, <2>5, <2>6, <2>7 DEF Verdicts, SweepsWrite
<1>2. ASSUME NEW l \in Layers, InsertChild(l) PROVE Verdicts'
  <2>0. UNCHANGED <<what, parent, aged, early>>
    BY <1>2 DEF InsertChild
  <2> DEFINE d == sweep[l].id
  <2>1. d \in Ids /\ what[d] # "none" /\ child[d] = "absent" /\ (d \notin early => parent[d] = "pending")
        /\ d \notin aged /\ sweep[l].at # "idle"
    BY <1>2, <1>a DEF InsertChild, Writes
  <2>2. CASE /\ child' = [child EXCEPT ![d] = "pending"]
             /\ sweep' = [sweep EXCEPT ![l].at = "approve"]
    <3>1. child'[d] = "pending" /\ \A c \in Ids \ {d} : child'[c] = child[c]
      BY <1>0, <2>1, <2>2
    <3>2. /\ sweep'[l].id = d /\ sweep'[l].at = "approve"
          /\ \A j \in Layers \ {l} : sweep'[j] = sweep[j]
      BY <1>0, <2>2 DEF Sweeps
    <3> HIDE DEF d
    <3>3. Unwritten' /\ Approvals'
      BY <1>a, <1>b, <2>0, <2>1, <3>1 DEF Unwritten, Approvals, Hands, Approved
    <3>4. Together'
      BY <1>a, <2>0, <2>1, <2>2, <3>1 DEF Together, Agree, Approved
    <3>5. ASSUME NEW k \in Layers PROVE Writes(k)'
      <4>1. CASE k = l
        <5>1. \A j \in Layers \ {l} : sweep'[j].at # "idle" => sweep'[j].id # d
          BY <1>a, <2>1, <3>2 DEF Writes, d
        <5> QED
          BY <2>0, <2>1, <3>1, <3>2, <4>1, <5>1 DEF Writes
      <4>2. CASE k # l
        <5>1. SUFFICES ASSUME sweep[k].at # "idle" PROVE Writes(k)'
          BY <3>2, <4>2 DEF Writes
        <5>2. sweep[k].id \in Ids /\ sweep[k].id # d
          BY <1>a, <2>1, <4>2, <5>1 DEF Writes, d
        <5>3. \A j \in Layers \ {k} : sweep'[j].at # "idle" => sweep'[j].id # sweep[k].id
          BY <1>a, <3>2, <5>1, <5>2 DEF Writes
        <5> QED
          BY <1>a, <2>0, <3>1, <3>2, <4>2, <5>1, <5>2, <5>3 DEF Writes
      <4> QED
        BY <4>1, <4>2
    <3> QED
      BY <3>3, <3>4, <3>5 DEF Verdicts, SweepsWrite
  <2>3. CASE child' = child /\ sweep' = [sweep EXCEPT ![l] = NoSweep]
    <3>1. sweep'[l].at = "idle" /\ \A j \in Layers \ {l} : sweep'[j] = sweep[j]
      BY <1>0, <2>3, IdleTyped
    <3>2. Unwritten' /\ Approvals'
      BY <1>a, <1>b, <2>0, <2>3 DEF Unwritten, Approvals, Hands
    <3>3. Together'
      BY <1>a, <2>0, <2>3 DEF Together
    <3>4. ASSUME NEW k \in Layers PROVE Writes(k)'
      BY <1>a, <2>0, <2>3, <3>1 DEF Writes
    <3> QED
      BY <3>2, <3>3, <3>4 DEF Verdicts, SweepsWrite
  <2> QED
    BY <1>2, <2>2, <2>3 DEF InsertChild
<1>3. ASSUME NEW d \in Ids, NEW v \in {"approved", "rejected"}, Settle(d, v), what[d] # "none",
             UNCHANGED <<what, aged>>,
             \A l \in Layers : \/ sweep'[l].at = "idle"
                              \/ /\ sweep'[l] = sweep[l]
                                 /\ sweep[l].at = "approve" => sweep[l].id = sweep'[l].id
      PROVE  Verdicts'
  <2>1. /\ d \notin early' => d \notin early /\ Agree(parent'[d], child'[d])
        /\ \A c \in Ids \ {d} : /\ c \in early' <=> c \in early
                               /\ parent'[c] = parent[c] /\ child'[c] = child[c]
        /\ early \subseteq early'
        /\ child[d] \in Approved => child'[d] \in Approved
        /\ child[d] # "absent" <=> child'[d] # "absent"
        /\ parent[d] = "absent" => parent'[d] = "absent"
        /\ child[d] = "absent" => d \in early'
    BY <1>0, <1>a, <1>3, SettlesBoth
  <2>2. Unwritten'
    BY <1>a, <1>3, <2>1 DEF Unwritten
  <2>3. Approvals'
    BY <1>a, <1>b, <2>1 DEF Approvals, Hands
  <2>4. Together'
    BY <1>a, <1>3, <2>1 DEF Together
  <2>5. ASSUME NEW l \in Layers PROVE Writes(l)'
    <3>1. SUFFICES ASSUME sweep'[l] = sweep[l], sweep[l].at # "idle" PROVE Writes(l)'
      BY <1>3 DEF Writes
    <3>2. sweep[l].id \in Ids
      BY <1>a, <3>1 DEF Writes
    <3>3. \A j \in Layers \ {l} : sweep'[j].at # "idle" => sweep'[j].id # sweep[l].id
      BY <1>a, <1>3, <3>1 DEF Writes
    <3>4. sweep[l].at = "child" => child'[sweep[l].id] = "absent"
                                   /\ (sweep[l].id \notin early' => parent'[sweep[l].id] = "pending")
      BY <1>a, <2>1, <3>1, <3>2 DEF Writes
    <3>5. sweep[l].at = "approve" => child'[sweep[l].id] # "absent"
      BY <1>a, <2>1, <3>1, <3>2 DEF Writes
    <3> QED
      BY <1>a, <1>3, <3>1, <3>2, <3>3, <3>4, <3>5 DEF Writes
  <2> QED
    BY <2>2, <2>3, <2>4, <2>5 DEF Verdicts, SweepsWrite
<1>4. ASSUME NEW l \in Layers, AutoApprove(l) PROVE Verdicts'
  <2>0. UNCHANGED <<what, aged>> /\ sweep' = [sweep EXCEPT ![l] = NoSweep]
    BY <1>4 DEF AutoApprove
  <2>1. \A k \in Layers : sweep'[k].at = "idle" \/ sweep'[k] = sweep[k]
    BY <1>0, <2>0, IdleTyped
  <2>2. sweep[l].id \in Ids /\ what[sweep[l].id] # "none"
    BY <1>4, <1>a DEF AutoApprove, Writes
  <2>3. CASE Settle(sweep[l].id, "approved")
    BY <1>3, <2>0, <2>1, <2>2, <2>3
  <2>4. CASE UNCHANGED <<parent, child, early>>
    <3>1. Unwritten' /\ Approvals' /\ Together'
      BY <1>a, <1>b, <2>0, <2>4 DEF Unwritten, Approvals, Hands, Together
    <3>2. ASSUME NEW k \in Layers PROVE Writes(k)'
      BY <1>a, <2>0, <2>1, <2>4 DEF Writes
    <3> QED
      BY <3>1, <3>2 DEF Verdicts, SweepsWrite
  <2> QED
    BY <1>4, <2>3, <2>4 DEF AutoApprove
<1>5. ASSUME NEW d \in Ids, NEW v \in {"approved", "rejected"}, AdminVerdict(d, v) PROVE Verdicts'
  <2>1. Settle(d, v) /\ what[d] # "none" /\ UNCHANGED <<what, aged, sweep>>
    BY <1>5 DEF AdminVerdict
  <2> QED
    BY <1>3, <2>1
<1>6. ASSUME NEW d \in Ids, Age(d) PROVE Verdicts'
  <2>1. /\ UNCHANGED <<what, parent, child, early, sweep>> /\ aged' = aged \cup {d}
        /\ \A l \in Layers : sweep[l].id # d
        /\ {parent[d], child[d]} \cap {"pending", "approved"} # {}
    BY <1>6 DEF Age
  <2>2. what[d] # "none"
    BY <1>a, <2>1
  <2>3. Unwritten' /\ Approvals' /\ Together'
    BY <1>a, <1>b, <2>1, <2>2 DEF Unwritten, Approvals, Hands, Together
  <2>4. ASSUME NEW k \in Layers PROVE Writes(k)'
    BY <1>a, <2>1 DEF Writes
  <2> QED
    BY <2>3, <2>4 DEF Verdicts, SweepsWrite
<1>7. ASSUME Expire PROVE Verdicts'
  <2> DEFINE stale == {d \in aged : parent[d] = "pending"}
  <2>1. /\ parent' = [d \in Ids |-> IF d \in stale THEN "expired" ELSE parent[d]]
        /\ child' = [d \in Ids |-> IF ExpiredChild(d, stale) THEN "expired" ELSE child[d]]
        /\ UNCHANGED <<what, aged, early, sweep>>
    BY <1>7 DEF Expire
  <2>2. ASSUME NEW d \in Ids
        PROVE  \/ parent'[d] = parent[d] /\ child'[d] = child[d]
               \/ /\ d \in aged /\ parent[d] = "pending" /\ parent'[d] = "expired"
                  /\ child'[d] = IF child[d] = "pending" THEN "expired" ELSE child[d]
    <3>1. CASE d \in stale
      BY <2>1, <3>1 DEF ExpiredChild
    <3>2. CASE d \notin stale
      BY <2>1, <3>2 DEF ExpiredChild
    <3> QED
      BY <3>1, <3>2
  <2> HIDE DEF stale
  <2>3. Unwritten' /\ Approvals'
    <3>1. Unwritten'
      BY <1>a, <2>1, <2>2 DEF Unwritten
    <3>2. ASSUME NEW d \in Ids, child[d] \in Approved PROVE child'[d] \in Approved
      BY <2>2, <3>2 DEF Approved
    <3>3. Approvals'
      BY <1>a, <1>b, <3>2 DEF Approvals, Hands
    <3> QED
      BY <3>1, <3>3
  <2>4. ASSUME NEW d \in Ids \ early PROVE Agree(parent'[d], child'[d])
    <3>1. Agree(parent[d], child[d])
      BY <1>a
    <3> QED
      BY <2>1, <2>2, <3>1 DEF Agree, Approved
  <2>5. ASSUME NEW k \in Layers PROVE Writes(k)'
    <3>1. SUFFICES ASSUME sweep[k].at # "idle" PROVE Writes(k)'
      BY <2>1 DEF Writes
    <3>2. sweep[k].id \in Ids /\ sweep[k].id \notin aged
      BY <1>a, <3>1 DEF Writes
    <3>3. parent'[sweep[k].id] = parent[sweep[k].id] /\ child'[sweep[k].id] = child[sweep[k].id]
      BY <2>2, <3>2
    <3> QED
      BY <1>a, <2>1, <3>1, <3>2, <3>3 DEF Writes
  <2> QED
    BY <2>1, <2>3, <2>4, <2>5 DEF Verdicts, SweepsWrite, Together
<1> QED
  BY <1>1, <1>2, <1>4, <1>5, <1>6, <1>7 DEF RowStep, SweepStep

LEMMA OutsideVerdicts ==
  ASSUME TypeOK, Verdicts, OutsideStep
  PROVE  Verdicts'
<1>0. 0 \notin Ids
  BY DEF Ids
<1>1. CASE Crash
  <2>1. /\ UNCHANGED <<what, parent, child, aged, early, placed, cuts>>
        /\ \A l \in Layers : sweep'[l].at = "idle"
        /\ ex'.id = 0 /\ pm'.tac = 0 /\ pm'.dir = 0
    BY <1>1, IdleTyped DEF Crash, rowVars, ghosts
  <2>2. Unwritten' /\ Approvals'
    BY <1>0, <2>1 DEF Verdicts, Unwritten, Approvals, Hands
  <2>3. Together'
    BY <1>0, <2>1 DEF Verdicts, Together, Agree
  <2>4. SweepsWrite'
    BY <2>1 DEF SweepsWrite, Writes
  <2> QED
    BY <2>2, <2>3, <2>4 DEF Verdicts
<1>2. CASE ~Crash
  <2>1. UNCHANGED <<what, parent, child, aged, early, sweep, ex, pm, placed, cuts>>
    BY <1>2 DEF OutsideStep, StopFires, Reconcile, Hidden, ManualEntry, Market, Switch, rowVars, ghosts
  <2> QED
    BY <2>1, RowsRead DEF Hands
<1> QED
  BY <1>1, <1>2

LEMMA VerdictsStart ==
  ASSUME Init
  PROVE  SweepsHold /\ Verdicts
BY IdleTyped DEF Init, Verdicts, Unwritten, SweepsWrite, Writes, Approvals, Together, Hands,
   SweepsHold, Agree, Approved, Ids

LEMMA VerdictsStay ==
  ASSUME TypeOK, SweepsHold, Verdicts, [Next]_vars
  PROVE  SweepsHold' /\ Verdicts'
<1>1. CASE Next
  BY <1>1, NextParts, SweepsStepHold, RowVerdicts, ExVerdicts, PmVerdicts, OutsideVerdicts
<1>2. CASE UNCHANGED vars
  BY <1>2 DEF vars, rowVars, venueVars, ghosts, failVars, SweepsHold, Verdicts, Unwritten,
              SweepsWrite, Writes, Approvals, Together, Hands
<1> QED
  BY <1>1, <1>2

---------------------------------------------------------------------------
(* One decision, one order.                                               *)

\* A decision a loop may still fetch.
Open == {"absent", "pending", "approved"}

\* The hands that have placed the order and not yet said so.
Entering == {"insert", "applied", "failed"}
Cutting == {"cutInsert", "outcome", "dirChild"}

\* A decision that may be fetched again, or is in hand before its order, has no order that
\* was not paid for by a failure; and a hand between its two marks has closed its decision.
EntryPaid(d) ==
  /\ placed[d] <= 1 + faults
  /\ child[d] \in Open \/ ex.id = d => placed[d] <= faults \/ (ex.id = d /\ ex.at \in Entering)
  /\ ex.half /\ ex.id = d => child[d] \notin Open
CutPaid(d) ==
  /\ cuts[d] <= 1 + faults
  /\ child[d] \in Open \/ (pm.dir = d /\ pm.at = "cut") =>
       cuts[d] <= faults \/ (pm.dir = d /\ pm.at \in Cutting)
Paid == \A d \in Ids : EntryPaid(d) /\ CutPaid(d)

\* Failures only add up, and a decision that is closed stays closed.
LEMMA StepsClose ==
  ASSUME TypeOK, Verdicts, Next
  PROVE  /\ faults' \in {faults, faults + 1}
         /\ \A d \in Ids : child'[d] \in Open => child[d] \in Open
<1>0. /\ RowsTyped /\ blind \in Nat /\ faults \in Nat /\ child \in [Ids -> Statuses]
  BY TypeParts DEF CountsTyped, RowsTyped
<1>1. CASE ExMarkChild \/ PmMarkChild
  <2>1. faults' \in {faults, faults + 1}
    BY <1>0, <1>1, FaultsCount DEF ExMarkChild, PmMarkChild
  <2>2. \A d \in Ids : child'[d] \in {child[d], "applied", "failed"}
    BY <1>0, <1>1 DEF ExMarkChild, PmMarkChild
  <2> QED
    BY <2>1, <2>2 DEF Open
<1>3. ASSUME NEW l \in Layers, InsertChild(l)
      PROVE  /\ faults' \in {faults, faults + 1}
             /\ \A d \in Ids : child'[d] \in Open => child[d] \in Open
  <2>1. faults' \in {faults, faults + 1}
    BY <1>0, <1>3, FaultsCount DEF InsertChild
  <2>2. child[sweep[l].id] \in Open
    BY <1>3 DEF InsertChild, Verdicts, SweepsWrite, Writes, Open
  <2>3. \A d \in Ids : d # sweep[l].id => child'[d] = child[d]
    BY <1>0, <1>3 DEF InsertChild
  <2> QED
    BY <2>1, <2>2, <2>3
<1>4. ASSUME NEW d, NEW verdict, Settle(d, verdict)
      PROVE  \A c \in Ids : child'[c] \in Open => child[c] \in Open
  BY <1>0, <1>4 DEF Settle, Settled, Open
<1>5. ASSUME NEW l \in Layers, AutoApprove(l)
      PROVE  /\ faults' = faults
             /\ \A d \in Ids : child'[d] \in Open => child[d] \in Open
  BY <1>0, <1>4, <1>5, FaultsCount DEF AutoApprove
<1>6. ASSUME NEW d \in Ids, NEW v \in {"approved", "rejected"}, AdminVerdict(d, v)
      PROVE  /\ faults' = faults
             /\ \A c \in Ids : child'[c] \in Open => child[c] \in Open
  BY <1>0, <1>4, <1>6, FaultsCount DEF AdminVerdict
<1>7. CASE Expire
  <2>1. faults' = faults
    BY <1>0, <1>7, FaultsCount DEF Expire
  <2>2. \A d \in Ids : child'[d] \in {child[d], "expired"}
    BY <1>0, <1>7 DEF Expire
  <2> QED
    BY <2>1, <2>2 DEF Open
<1>8. ASSUME UNCHANGED child, \/ Fine \/ \E k \in FaultKinds : Seen(k) \/ Blinding(k)
      PROVE  /\ faults' \in {faults, faults + 1}
             /\ \A d \in Ids : child'[d] \in Open => child[d] \in Open
  BY <1>0, <1>8, FaultsCount
<1>9. \/ ExMarkChild \/ PmMarkChild \/ Expire
      \/ \E l \in Layers : InsertChild(l) \/ AutoApprove(l)
      \/ \E d \in Ids : \E v \in {"approved", "rejected"} : AdminVerdict(d, v)
      \/ UNCHANGED child /\ (Fine \/ \E k \in FaultKinds : Seen(k) \/ Blinding(k))
  <2>1. CASE RowStep
    BY <2>1 DEF RowStep, SweepStep, InsertDecision, Age
  <2>2. CASE OutsideStep
    BY <2>2 DEF OutsideStep, StopFires, Reconcile, Hidden, ManualEntry, Market, Switch, Crash,
                rowVars, FaultKinds
  <2>3. CASE ExStep
    BY <2>3 DEF ExStep, ExFetch, ExLook, ExPlace, ExInsert, ExMarkParent, rowVars, FaultKinds
  <2>4. CASE PmStep
    BY <2>4 DEF PmStep, PmBooks, PmFetch, PmMarkParent, PmClose, PmInsert, PmOutcome, PmTrail, PmLook,
                PmCancel, PmStop, PmStopInsert, rowVars, FaultKinds
  <2> QED
    BY <2>1, <2>2, <2>3, <2>4, NextParts
<1> QED
  BY <1>1, <1>3, <1>5, <1>6, <1>7, <1>8, <1>9

LEMMA EntriesStayPaid ==
  ASSUME TypeOK, Verdicts, Next, NEW d \in Ids, EntryPaid(d)
  PROVE  EntryPaid(d)'
<1>0. /\ RowsTyped /\ blind \in Nat /\ faults \in Nat /\ ex \in ExHands /\ placed \in [Ids -> Nat]
      /\ ex.id \in Ids \cup {0} /\ d # 0 /\ placed[d] \in Nat
  BY TypeParts DEF CountsTyped, HandsTyped, ExHands, Ids
<1>1. faults' \in {faults, faults + 1} /\ (child'[d] \in Open => child[d] \in Open)
  BY StepsClose
<1>2. CASE UNCHANGED <<ex, placed>>
  <2>1. placed'[d] <= 1 + faults' /\ (placed[d] <= faults => placed'[d] <= faults')
    BY <1>0, <1>1, <1>2 DEF EntryPaid
  <2> QED
    BY <1>1, <1>2, <2>1 DEF EntryPaid
<1>3. CASE Crash
  <2>1. faults' = faults + 1 /\ placed' = placed /\ ex'.half = FALSE
    BY <1>0, <1>3, FaultsCount, IdleTyped DEF Crash, ghosts
  <2>2. placed'[d] <= faults'
    BY <1>0, <2>1 DEF EntryPaid
  <2> QED
    BY <1>0, <2>1, <2>2 DEF EntryPaid
<1>4. CASE ExFetch
  <2> DEFINE e == NewestApproved(Tactical)
  <2>1. /\ ex'.id = e /\ e \in Ids /\ child[e] = "approved" /\ UNCHANGED <<placed, child>> /\ ex.id = 0
        /\ ex'.half = FALSE
    <3>1. /\ [NoEx EXCEPT !.id = e, !.at = "look"].id = e
          /\ [NoEx EXCEPT !.id = e, !.at = "look"].half = FALSE
      BY IdleTyped DEF ExHands
    <3> QED
      BY <1>4, <3>1, ApprovedFound, IdleTyped DEF ExFetch, rowVars, ghosts
  <2>2. child[d] \in Open => placed[d] <= faults
    BY <1>0, <2>1 DEF EntryPaid
  <2>3. ex'.id = d => child[d] \in Open
    BY <2>1 DEF Open
  <2>4. placed'[d] <= 1 + faults' /\ (placed[d] <= faults => placed'[d] <= faults')
    BY <1>0, <1>1, <2>1 DEF EntryPaid
  <2> QED
    BY <1>1, <2>1, <2>2, <2>3, <2>4 DEF EntryPaid
<1>5. CASE ExLook
  <2>1. /\ (ex'.id = ex.id /\ ex'.half = ex.half) \/ ex'.id = 0
        /\ ex.at = "look" /\ UNCHANGED <<placed, child>>
    BY <1>0, <1>5, IdleTyped DEF ExLook, ExHands, rowVars, ghosts
  <2>2. child[d] \in Open \/ ex.id = d => placed[d] <= faults
    BY <2>1 DEF EntryPaid, Entering
  <2>3. placed'[d] <= 1 + faults' /\ (placed[d] <= faults => placed'[d] <= faults')
    BY <1>0, <1>1, <2>1 DEF EntryPaid
  <2> QED
    BY <1>0, <1>1, <2>1, <2>2, <2>3 DEF EntryPaid
<1>6. CASE ExPlace
  <2>1. ex.at = "place" /\ UNCHANGED child
    BY <1>6 DEF ExPlace, rowVars
  <2>2. child[d] \in Open \/ ex.id = d => placed[d] <= faults
    BY <2>1 DEF EntryPaid, Entering
  <2>3. \/ ex' = NoEx /\ placed' = placed
        \/ /\ ex'.id = ex.id /\ ex'.at \in Entering /\ ex'.half = ex.half
           /\ placed' = placed \/ placed' = [placed EXCEPT ![ex.id] = @ + 1]
    BY <1>0, <1>6 DEF ExPlace, ExHands, Entering
  <2>4. CASE ex' = NoEx /\ placed' = placed
    <3>1. ex'.id # d
      BY <1>0, <2>4, IdleTyped
    <3>2. placed'[d] <= 1 + faults' /\ (placed[d] <= faults => placed'[d] <= faults')
      BY <1>0, <1>1, <2>4 DEF EntryPaid
    <3> QED
      BY <2>1, <2>2, <3>1, <3>2 DEF EntryPaid
  <2>5. CASE /\ ex'.id = ex.id /\ ex'.at \in Entering /\ ex'.half = ex.half
             /\ placed' = placed \/ placed' = [placed EXCEPT ![ex.id] = @ + 1]
    <3>1. CASE ex.id = d
      <4>1. placed'[d] <= placed[d] + 1 /\ placed'[d] \in Nat
        BY <1>0, <2>5, <3>1
      <4>2. placed'[d] <= 1 + faults'
        BY <1>0, <1>1, <2>2, <3>1, <4>1
      <4> QED
        BY <2>1, <2>5, <3>1, <4>2 DEF EntryPaid
    <3>2. CASE ex.id # d
      <4>1. placed'[d] = placed[d]
        BY <1>0, <2>5, <3>2
      <4>2. placed'[d] <= 1 + faults' /\ (placed[d] <= faults => placed'[d] <= faults')
        BY <1>0, <1>1, <4>1 DEF EntryPaid
      <4> QED
        BY <2>1, <2>2, <2>5, <3>2, <4>2 DEF EntryPaid
    <3> QED
      BY <3>1, <3>2
  <2> QED
    BY <2>3, <2>4, <2>5
<1>7. CASE ExInsert
  <2>1. /\ ex'.id = ex.id /\ ex'.half = ex.half /\ ex.at \in Entering /\ ex'.at \in Entering
        /\ UNCHANGED <<placed, child>>
    BY <1>0, <1>7 DEF ExInsert, ExHands, Entering, rowVars, ghosts
  <2>2. placed'[d] <= 1 + faults' /\ (placed[d] <= faults => placed'[d] <= faults')
    BY <1>0, <1>1, <2>1 DEF EntryPaid
  <2> QED
    BY <2>1, <2>2 DEF EntryPaid
<1>8. CASE ExMarkChild
  <2>1. placed' = placed /\ ex.at \in {"applied", "failed"}
    BY <1>8 DEF ExMarkChild, ghosts
  <2>2. placed'[d] <= 1 + faults' /\ (placed[d] <= faults => placed'[d] <= faults')
        /\ (faults' = faults + 1 => placed'[d] <= faults')
    BY <1>0, <1>1, <2>1 DEF EntryPaid
  <2>3. CASE child' = [child EXCEPT ![ex.id] = ex.at] /\ ex' = [ex EXCEPT !.half = TRUE]
    <3>1. ex'.id = ex.id /\ ex'.at = ex.at
      BY <1>0, <2>3 DEF ExHands
    <3>2. ex.id = d => child'[d] \notin Open
      BY <1>0, <2>1, <2>3 DEF RowsTyped, Open
    <3> QED
      BY <1>1, <2>1, <2>2, <3>1, <3>2 DEF EntryPaid, Entering
  <2>4. CASE Seen("mark") /\ ex' = NoEx
    <3>1. faults' = faults + 1 /\ ex'.id # d
      BY <1>0, <2>4, FaultsCount, IdleTyped
    <3> QED
      BY <2>2, <3>1 DEF EntryPaid
  <2> QED
    BY <1>8, <2>3, <2>4 DEF ExMarkChild
<1>10. CASE ExMarkParent
  <2>1. placed' = placed /\ child' = child /\ ex.half /\ ex'.id # d
    BY <1>0, <1>10, IdleTyped DEF ExMarkParent, ghosts
  <2>2. placed'[d] <= 1 + faults' /\ (placed[d] <= faults => placed'[d] <= faults')
    BY <1>0, <1>1, <2>1 DEF EntryPaid
  <2> QED
    BY <2>1, <2>2 DEF EntryPaid
<1>9. Crash \/ ExStep \/ UNCHANGED <<ex, placed>>
  BY NextParts DEF RowStep, SweepStep, InsertDecision, InsertChild, AutoApprove, Age, AdminVerdict, Expire,
     OutsideStep, StopFires, Reconcile, Hidden, ManualEntry, Market, Switch, PmStep, PmBooks, PmFetch,
     PmMarkChild, PmMarkParent, PmClose, PmInsert, PmOutcome, PmTrail, PmLook, PmCancel, PmStop,
     PmStopInsert, ghosts
<1> QED
  BY <1>2, <1>3, <1>4, <1>5, <1>6, <1>7, <1>8, <1>9, <1>10 DEF ExStep

LEMMA CutsStayPaid ==
  ASSUME TypeOK, Verdicts, Next, NEW d \in Ids, CutPaid(d)
  PROVE  CutPaid(d)'
<1>0. /\ RowsTyped /\ blind \in Nat /\ faults \in Nat /\ pm \in PmHands /\ cuts \in [Ids -> Nat]
      /\ pm.dir \in Ids \cup {0} /\ d # 0 /\ cuts[d] \in Nat
  BY TypeParts DEF CountsTyped, HandsTyped, PmHands, Ids
<1>1. faults' \in {faults, faults + 1} /\ (child'[d] \in Open => child[d] \in Open)
  BY StepsClose
<1>2. ASSUME cuts' = cuts
      PROVE  /\ cuts'[d] <= 1 + faults' /\ (cuts[d] <= faults => cuts'[d] <= faults')
             /\ faults' = faults + 1 => cuts'[d] <= faults'
  BY <1>0, <1>1, <1>2 DEF CutPaid
<1>t. Len(orders) \in Nat
  BY TypeParts, OrdersRead DEF OrdersTyped
<1>3. ASSUME cuts' = cuts, pm'.at # "cut",
             \/ pm.at \notin Cutting \/ pm.dir # d \/ faults' = faults + 1
             \/ pm'.dir = pm.dir /\ pm'.at \in Cutting
      PROVE  CutPaid(d)'
  <2>1. CASE faults' = faults + 1
    BY <1>2, <1>3, <2>1 DEF CutPaid
  <2>2. CASE pm.at \notin Cutting \/ pm.dir # d
    <3>1. child'[d] \in Open => cuts[d] <= faults
      BY <1>1, <2>2 DEF CutPaid
    <3> QED
      BY <1>2, <1>3, <3>1 DEF CutPaid
  <2>3. CASE pm'.dir = pm.dir /\ pm'.at \in Cutting
    <3>1. child'[d] \in Open => cuts[d] <= faults \/ pm'.dir = d
      BY <1>1, <2>3 DEF CutPaid
    <3> QED
      BY <1>2, <1>3, <2>3, <3>1 DEF CutPaid
  <2> QED
    BY <1>3, <2>1, <2>2, <2>3
<1>4. CASE UNCHANGED <<pm, cuts>>
  <2>1. cuts'[d] <= 1 + faults' /\ (cuts[d] <= faults => cuts'[d] <= faults')
    BY <1>2, <1>4
  <2> QED
    BY <1>1, <1>4, <2>1 DEF CutPaid
<1>5. CASE Crash \/ PmBooks
  <2>1. cuts' = cuts /\ pm'.at # "cut" /\ (faults' = faults + 1 \/ pm.at \notin Cutting)
    BY <1>0, <1>5, FaultsCount, IdleTyped DEF Crash, PmBooks, PmHands, Cutting, ghosts
  <2> QED
    BY <1>0, <1>3, <2>1
<1>6. CASE PmFetch
  <2> DEFINE e == NewestApproved(Directive)
  <2>1. /\ pm'.at = "cut" => pm'.dir = e
        /\ e = 0 \/ child[e] = "approved"
        /\ pm.at \notin Cutting /\ UNCHANGED <<cuts, child>>
    BY <1>0, <1>6, PmFetched, IdleTyped, ApprovedFound DEF PmFetch, Cutting, rowVars, ghosts
  <2>2. child[d] \in Open => cuts[d] <= faults
    BY <2>1 DEF CutPaid
  <2>3. pm'.dir = d /\ pm'.at = "cut" => child[d] \in Open
    BY <1>0, <2>1 DEF Open
  <2> QED
    BY <1>1, <1>2, <2>1, <2>2, <2>3 DEF CutPaid
<1>7. CASE PmMarkChild
  <2>1. cuts' = cuts /\ pm'.at # "cut"
    BY <1>0, <1>t, <1>7, PmMoves, IdleTyped DEF PmMarkChild, Goes, ghosts
  <2>2. CASE pm.at = "dirChild" /\ pm.dir = d /\ faults' # faults + 1
    <3>1. child' = [child EXCEPT ![pm.dir] = "applied"]
      BY <1>0, <1>7, <2>2, FaultsCount DEF PmMarkChild, InHand
    <3>2. child'[d] \notin Open
      BY <1>0, <2>2, <3>1 DEF RowsTyped, Open
    <3> QED
      BY <1>2, <2>1, <3>2 DEF CutPaid
  <2>3. CASE pm.at = "tacChild" \/ pm.dir # d \/ faults' = faults + 1
    BY <1>3, <2>1, <2>3 DEF Cutting
  <2> QED
    BY <1>7, <2>2, <2>3 DEF PmMarkChild
<1>8. CASE PmMarkParent \/ PmTrail \/ PmLook \/ PmCancel \/ PmStop \/ PmStopInsert
  <2>1. cuts' = cuts /\ pm.at \notin Cutting
    BY <1>8 DEF PmMarkParent, PmTrail, PmLook, PmCancel, PmStop, PmStopInsert, Cutting, ghosts
  <2>2. pm'.at # "cut"
    BY <1>0, <1>t, <1>8, PmMoves, IdleTyped DEF Goes
  <2> QED
    BY <1>3, <2>1, <2>2
<1>9. CASE PmInsert
  <2>1. cuts' = cuts /\ pm'.at # "cut"
    BY <1>0, <1>t, <1>9, PmMoves, IdleTyped DEF PmInsert, Goes, ghosts
  <2>2. CASE pm.at = "cutInsert" /\ faults' # faults + 1
    <3>1. pm' = [pm EXCEPT !.at = "outcome", !.order = 0]
      BY <1>0, <1>9, <2>2, FaultsCount DEF PmInsert
    <3>2. pm'.dir = pm.dir /\ pm'.at \in Cutting
      BY <1>0, <3>1 DEF PmHands, Cutting
    <3> QED
      BY <1>3, <2>1, <3>2
  <2>3. CASE pm.at # "cutInsert" \/ faults' = faults + 1
    <3>1. pm.at \notin Cutting \/ faults' = faults + 1
      BY <1>9, <2>3 DEF PmInsert, Cutting
    <3> QED
      BY <1>3, <2>1, <3>1
  <2> QED
    BY <2>2, <2>3
<1>10. CASE PmOutcome
  <2>1. cuts' = cuts /\ pm'.at # "cut"
    BY <1>0, <1>t, <1>10, PmMoves, IdleTyped DEF PmOutcome, Goes, ghosts
  <2>2. CASE pm.at = "outcome" /\ pm.dir = d
    <3>1. pm' = [pm EXCEPT !.at = "dirChild"]
      BY <1>0, <1>10, <2>2 DEF PmOutcome, ToDir
    <3>2. pm'.dir = pm.dir /\ pm'.at \in Cutting
      BY <1>0, <3>1 DEF PmHands, Cutting
    <3> QED
      BY <1>3, <2>1, <3>2
  <2>3. CASE pm.at # "outcome" \/ pm.dir # d
    <3>1. pm.at \notin Cutting \/ pm.dir # d
      BY <1>10, <2>3 DEF PmOutcome, Cutting
    <3> QED
      BY <1>3, <2>1, <3>1
  <2> QED
    BY <2>2, <2>3
<1>11. CASE PmClose
  <2>1. pm.at \notin Cutting
    BY <1>11 DEF PmClose, Cutting
  <2>2. \/ cuts' = cuts
        \/ /\ pm.at = "cut" /\ cuts' = [cuts EXCEPT ![pm.dir] = @ + 1]
           /\ faults' = faults + 1 \/ (pm'.at = "cutInsert" /\ pm'.dir = pm.dir)
    <3>1. CASE pm.at = "cut"
      <4>1. \A n \in Nat : /\ [pm EXCEPT !.at = "cutInsert", !.order = n].at = "cutInsert"
                           /\ [pm EXCEPT !.at = "cutInsert", !.order = n].dir = pm.dir
        BY <1>0 DEF PmHands
      <4>2. \/ cuts' = cuts
            \/ /\ cuts' = [cuts EXCEPT ![pm.dir] = @ + 1]
               /\ pm' = [pm EXCEPT !.at = "cutInsert", !.order = Len(orders) + 1] \/ Blinding("lost")
        BY <1>11, <3>1 DEF PmClose
      <4>3. Blinding("lost") => faults' = faults + 1
        BY <1>0, FaultsCount
      <4>4. pm' = [pm EXCEPT !.at = "cutInsert", !.order = Len(orders) + 1]
              => pm'.at = "cutInsert" /\ pm'.dir = pm.dir
        BY <1>t, <4>1
      <4> QED
        BY <3>1, <4>2, <4>3, <4>4
    <3>2. CASE pm.at # "cut"
      BY <1>11, <3>2 DEF PmClose
    <3> QED
      BY <3>1, <3>2
  <2>3. pm'.at # "cut"
    BY <1>0, <1>t, <1>11, PmMoves, IdleTyped DEF Goes
  <2>4. CASE cuts' = cuts
    BY <1>0, <1>3, <2>1, <2>3, <2>4
  <2>5. CASE /\ pm.at = "cut" /\ cuts' = [cuts EXCEPT ![pm.dir] = @ + 1]
             /\ faults' = faults + 1 \/ (pm'.at = "cutInsert" /\ pm'.dir = pm.dir)
    <3>1. CASE pm.dir = d
      <4>1. cuts[d] <= faults /\ cuts'[d] = cuts[d] + 1
        BY <1>0, <2>1, <2>5, <3>1 DEF CutPaid
      <4>2. cuts'[d] <= 1 + faults' /\ (faults' = faults + 1 => cuts'[d] <= faults')
        BY <1>0, <1>1, <4>1
      <4> QED
        BY <2>3, <2>5, <3>1, <4>2 DEF CutPaid, Cutting
    <3>2. CASE pm.dir # d
      <4>1. cuts'[d] = cuts[d]
        BY <1>0, <2>5, <3>2
      <4>2. cuts'[d] <= 1 + faults' /\ (cuts[d] <= faults => cuts'[d] <= faults')
        BY <1>0, <1>1, <4>1 DEF CutPaid
      <4>3. child'[d] \in Open => cuts[d] <= faults
        BY <1>1, <2>1 DEF CutPaid
      <4> QED
        BY <2>3, <4>2, <4>3 DEF CutPaid
    <3> QED
      BY <3>1, <3>2
  <2> QED
    BY <2>2, <2>4, <2>5
<1>12. Crash \/ PmStep \/ UNCHANGED <<pm, cuts>>
  BY NextParts DEF RowStep, SweepStep, InsertDecision, InsertChild, AutoApprove, Age, AdminVerdict, Expire,
     OutsideStep, StopFires, Reconcile, Hidden, ManualEntry, Market, Switch, ExStep, ExFetch, ExLook,
     ExPlace, ExInsert, ExMarkChild, ExMarkParent, ghosts
<1> QED
  BY <1>4, <1>5, <1>6, <1>7, <1>8, <1>9, <1>10, <1>11, <1>12 DEF PmStep

\* Each order a decision gets beyond its first has been paid for by a failure, in entries by
\* the executor and in closes by the position manager.
THEOREM OncePerDecisionHolds == Spec => []OncePerDecision
<1>1. Init => SweepsHold /\ Verdicts /\ Paid
  <2>1. ASSUME Init PROVE SweepsHold /\ Verdicts /\ Paid
    <3>1. SweepsHold /\ Verdicts
      BY <2>1, VerdictsStart
    <3>2. Paid
      BY <2>1, IdleTyped DEF Init, Ids, Paid, EntryPaid, CutPaid
    <3> QED
      BY <3>1, <3>2
  <2> QED
    BY <2>1
<1>2. TypeOK /\ SweepsHold /\ Verdicts /\ Paid /\ [Next]_vars => SweepsHold' /\ Verdicts' /\ Paid'
  <2>1. ASSUME TypeOK, SweepsHold, Verdicts, Paid, Next PROVE SweepsHold' /\ Verdicts' /\ Paid'
    <3>1. SweepsHold' /\ Verdicts'
      BY <2>1, VerdictsStay
    <3>2. ASSUME NEW d \in Ids PROVE EntryPaid(d)' /\ CutPaid(d)'
      BY <2>1, EntriesStayPaid, CutsStayPaid DEF Paid
    <3> QED
      BY <3>1, <3>2 DEF Paid
  <2>2. ASSUME TypeOK, SweepsHold, Verdicts, Paid, UNCHANGED vars
        PROVE  SweepsHold' /\ Verdicts' /\ Paid'
    BY <2>2, VerdictsStay DEF vars, rowVars, ghosts, failVars, Paid, EntryPaid, CutPaid
  <2> QED
    BY <2>1, <2>2
<1>3. Paid => OncePerDecision
  BY DEF Paid, EntryPaid, CutPaid, OncePerDecision, EntryOnce, CutOnce
<1> QED
  BY <1>1, <1>2, <1>3, TypeCorrect, PTL DEF Spec

---------------------------------------------------------------------------
(* The marks: both rows of a decision, once nobody is between them.       *)

\* The decisions between the two statements of a mark.
Half == (IF ex.half THEN {ex.id} ELSE {})
        \cup (IF pm.at \in {"tacParent", "dirParent"} THEN {InHand} ELSE {})

\* The child row is marked first, and without a failure the parent row follows.
ChildFirst == \A d \in Ids : d \in Half \/ parent[d] \in Executed => child[d] \in Executed
ParentFollows ==
  faults = 0 => \A d \in Ids : child[d] \in Executed => parent[d] \in Executed \/ d \in Half
MarkedRows == ChildFirst /\ ParentFollows /\ (ex.half => ex.at \in Executed)

LEMMA MarksImply ==
  ASSUME TypeOK, Verdicts, MarkedRows
  PROVE  MarksAlign
<1>1. SUFFICES ASSUME NEW d \in Ids, faults = 0, d \notin early, child[d] # "absent", ~Marking(d)
               PROVE  child[d] = parent[d] \/ {child[d], parent[d]} = {"applied", "failed"}
  BY DEF MarksAlign
<1>2. child[d] = parent[d] \/ (child[d] \in Approved /\ parent[d] \in Approved)
  BY <1>1 DEF Verdicts, Together, Agree
<1>3. d \notin Half
  BY <1>1 DEF Half, Marking, InHand
<1>4. child[d] \in Executed <=> parent[d] \in Executed
  BY <1>1, <1>3 DEF MarkedRows, ChildFirst, ParentFollows
<1> QED
  BY <1>2, <1>4 DEF Approved, Executed

\* A step takes a decision through its mark, or leaves it where it is, or fails.
Same(d) == /\ child'[d] \in Executed <=> child[d] \in Executed
           /\ parent'[d] \in Executed <=> parent[d] \in Executed
Marks(d) ==
  \/ Same(d) /\ (d \in Half' <=> d \in Half)
  \/ Same(d) /\ (d \in Half' => d \in Half) /\ faults' # 0
  \/ child'[d] \in Executed /\ d \in Half' /\ (parent'[d] \in Executed <=> parent[d] \in Executed)
  \/ child'[d] \in Executed /\ parent'[d] \in Executed

LEMMA MarksMove ==
  ASSUME MarkedRows, faults' = 0 => faults = 0, \A d \in Ids : Marks(d)
  PROVE  ChildFirst' /\ ParentFollows'
<1>1. ASSUME NEW d \in Ids
      PROVE  /\ d \in Half' \/ parent'[d] \in Executed => child'[d] \in Executed
             /\ faults' = 0 => (child'[d] \in Executed => parent'[d] \in Executed \/ d \in Half')
  <2>1. /\ d \in Half \/ parent[d] \in Executed => child[d] \in Executed
        /\ faults = 0 => (child[d] \in Executed => parent[d] \in Executed \/ d \in Half)
    BY DEF MarkedRows, ChildFirst, ParentFollows
  <2>2. Marks(d)
    OBVIOUS
  <2> QED
    BY <2>1, <2>2 DEF Marks, Same
<1> QED
  BY <1>1 DEF ChildFirst, ParentFollows

\* The sweeps, the verdicts and the expiry do not mark.
LEMMA RowMarks ==
  ASSUME TypeOK, Verdicts, RowStep, NEW d \in Ids
  PROVE  Same(d) /\ UNCHANGED <<ex, pm>>
<1>0. /\ parent \in [Ids -> Statuses] /\ child \in [Ids -> Statuses] /\ sweep \in [Layers -> Sweeps]
  BY TypeParts DEF RowsTyped, HandsTyped
<1>1. ASSUME NEW c, NEW verdict \in {"approved", "rejected"}, Settle(c, verdict) PROVE Same(d)
  <2>1. parent'[d] \in {parent[d], Settled(parent, d, verdict)}
    BY <1>0, <1>1 DEF Settle
  <2>2. child'[d] \in {child[d], Settled(child, d, verdict)}
    BY <1>0, <1>1 DEF Settle
  <2> QED
    BY <2>1, <2>2 DEF Same, Settled, Executed
<1>2. ASSUME NEW l \in Layers, InsertDecision(l) PROVE Same(d) /\ UNCHANGED <<ex, pm>>
  <2>1. PICK c \in 1 .. config.rows, a \in Advised(l) :
          /\ \A e \in Ids : what[e] = "none" <=> e >= c
          /\ parent' = [parent EXCEPT ![c] = "pending"]
    BY <1>2 DEF InsertDecision
  <2>2. c \in Ids /\ c \in Int
    BY <1>0, ConfigTyped, TypeParts DEF RowsTyped
  <2>3. parent[c] = "absent"
    BY <2>1, <2>2 DEF Verdicts, Unwritten
  <2>4. parent'[d] \notin Executed <=> parent[d] \notin Executed
    BY <1>0, <2>1, <2>2, <2>3 DEF Executed
  <2> QED
    BY <1>2, <2>4 DEF InsertDecision, Same
<1>3. ASSUME NEW l \in Layers, InsertChild(l) PROVE Same(d) /\ UNCHANGED <<ex, pm>>
  <2>1. child[sweep[l].id] = "absent"
    BY <1>3 DEF InsertChild, Verdicts, SweepsWrite, Writes
  <2>2. child'[d] = child[d] \/ (d = sweep[l].id /\ child'[d] = "pending")
    BY <1>0, <1>3 DEF InsertChild
  <2> QED
    BY <1>3, <2>1, <2>2 DEF InsertChild, Same, Executed
<1>4. ASSUME NEW l \in Layers, AutoApprove(l) PROVE Same(d) /\ UNCHANGED <<ex, pm>>
  BY <1>1, <1>4 DEF AutoApprove, Same
<1>5. ASSUME NEW c \in Ids, NEW v \in {"approved", "rejected"}, AdminVerdict(c, v)
      PROVE  Same(d) /\ UNCHANGED <<ex, pm>>
  BY <1>1, <1>5 DEF AdminVerdict
<1>6. ASSUME NEW c \in Ids, Age(c) PROVE Same(d) /\ UNCHANGED <<ex, pm>>
  BY <1>6 DEF Age, Same
<1>7. CASE Expire
  <2>1. /\ parent'[d] = parent[d] \/ (parent[d] = "pending" /\ parent'[d] = "expired")
        /\ child'[d] = child[d] \/ (child[d] = "pending" /\ child'[d] = "expired")
    BY <1>7 DEF Expire, ExpiredChild
  <2> QED
    BY <1>7, <2>1 DEF Expire, Same, Executed
<1> QED
  BY <1>2, <1>3, <1>4, <1>5, <1>6, <1>7 DEF RowStep, SweepStep

\* The executor marks the child, then the parent.
LEMMA ExMarks ==
  ASSUME TypeOK, MarkedRows, ExStep, NEW d \in Ids
  PROVE  Marks(d)
<1>0. /\ ex \in ExHands /\ parent \in [Ids -> Statuses] /\ child \in [Ids -> Statuses]
      /\ blind \in Nat /\ faults \in Nat /\ ~NoEx.half
  BY TypeParts DEF HandsTyped, RowsTyped, CountsTyped, NoEx
<1>1. CASE ExFetch \/ ExLook \/ ExPlace \/ ExInsert
  <2>1. ~ex.half
    BY <1>0, <1>1 DEF ExFetch, ExLook, ExPlace, ExInsert, MarkedRows, Executed
  <2>2. ~ex'.half
    BY <1>0, <1>1, <2>1 DEF ExFetch, ExLook, ExPlace, ExInsert, ExHands, NoEx
  <2>3. UNCHANGED <<pm, parent, child>>
    BY <1>1 DEF ExFetch, ExLook, ExPlace, ExInsert, rowVars
  <2>4. Half' = Half
    BY <2>1, <2>2, <2>3 DEF Half, InHand
  <2> QED
    BY <2>2, <2>3, <2>4 DEF Marks, Same
<1>2. CASE ExMarkChild
  <2>1. ex.at \in Executed /\ ~ex.half /\ UNCHANGED <<pm, parent>>
    BY <1>2 DEF ExMarkChild, Executed
  <2>2. CASE child' = [child EXCEPT ![ex.id] = ex.at] /\ ex' = [ex EXCEPT !.half = TRUE]
    <3>1. ex'.half /\ ex'.id = ex.id /\ ex'.at = ex.at
      BY <1>0, <2>2 DEF ExHands
    <3>2. Half' = Half \cup {ex.id}
      BY <2>1, <3>1 DEF Half, InHand
    <3>3. IF d = ex.id THEN child'[d] = ex.at ELSE child'[d] = child[d]
      BY <1>0, <2>2
    <3> QED
      BY <2>1, <3>1, <3>2, <3>3 DEF Marks, Same
  <2>3. CASE Seen("mark") /\ ex' = NoEx /\ UNCHANGED child
    <3>1. Half' = Half /\ ~ex'.half
      BY <1>0, <2>1, <2>3 DEF Half, InHand
    <3> QED
      BY <2>1, <2>3, <3>1 DEF Marks, Same
  <2> QED
    BY <1>2, <2>2, <2>3 DEF ExMarkChild
<1>3. CASE ExMarkParent
  <2>1. ex.at \in Executed /\ ex.half /\ ex' = NoEx /\ UNCHANGED <<pm, child>>
    BY <1>3 DEF ExMarkParent, Executed
  <2>2. Half' \subseteq Half /\ Half \subseteq Half' \cup {ex.id} /\ ex.id \in Half /\ ~ex'.half
    BY <1>0, <2>1 DEF Half, InHand
  <2>3. CASE parent' = [parent EXCEPT ![ex.id] = ex.at]
    <3>1. IF d = ex.id THEN parent'[d] = ex.at ELSE parent'[d] = parent[d]
      BY <1>0, <2>3
    <3>2. d = ex.id => child[d] \in Executed
      BY <2>2 DEF MarkedRows, ChildFirst
    <3> QED
      BY <2>1, <2>2, <3>1, <3>2 DEF Marks, Same
  <2>4. CASE Seen("mark") /\ UNCHANGED parent
    <3>1. faults' # 0
      BY <1>0, <2>4, FaultsCount
    <3> QED
      BY <2>1, <2>2, <2>4, <3>1 DEF Marks, Same
  <2> QED
    BY <1>3, <2>3, <2>4 DEF ExMarkParent
<1> QED
  BY <1>1, <1>2, <1>3 DEF ExStep

\* The position manager does, for the tactical row and for the directive.
LEMMA PmMarks ==
  ASSUME TypeOK, MarkedRows, PmStep, NEW d \in Ids
  PROVE  Marks(d) /\ ex' = ex
<1>0. /\ pm \in PmHands /\ parent \in [Ids -> Statuses] /\ child \in [Ids -> Statuses]
      /\ blind \in Nat /\ faults \in Nat /\ Len(orders) \in Nat /\ NoPm.at = "idle"
  BY TypeParts, OrdersRead DEF HandsTyped, RowsTyped, CountsTyped, OrdersTyped, NoPm
<1> DEFINE Between == {"tacParent", "dirParent"}
<1>a. ASSUME NEW stages, NEW n, Goes(pm, pm', stages, n), stages \cap Between = {}
      PROVE  pm'.at \notin Between
  BY <1>0, <1>a DEF Goes
<1>1. CASE PmMarkChild
  <2>1. UNCHANGED <<ex, parent>> /\ pm.at \in {"tacChild", "dirChild"}
    BY <1>1 DEF PmMarkChild
  <2>2. CASE /\ child' = [child EXCEPT ![InHand] = "applied"]
             /\ pm' = [pm EXCEPT !.at = IF @ = "tacChild" THEN "tacParent" ELSE "dirParent"]
    <3>1. pm'.at \in Between /\ InHand' = InHand
      BY <1>0, <2>1, <2>2 DEF PmHands, InHand
    <3>2. Half' = Half \cup {InHand}
      BY <2>1, <3>1 DEF Half
    <3>3. IF d = InHand THEN child'[d] = "applied" ELSE child'[d] = child[d]
      BY <1>0, <2>2
    <3> QED
      BY <2>1, <3>2, <3>3 DEF Marks, Same, Executed
  <2>3. CASE Seen("mark") /\ pm' = Past(pm) /\ UNCHANGED child
    <3>1. Goes(pm, pm', {"dirChild", "close"}, pm.order)
      BY <1>0, <2>1, <2>3, Ways DEF Past, Goes
    <3>2. pm'.at \notin Between
      BY <3>1, <1>a
    <3>3. Half' = Half
      BY <2>1, <3>2 DEF Half
    <3> QED
      BY <2>1, <2>3, <3>3 DEF Marks, Same
  <2> QED
    BY <1>1, <2>1, <2>2, <2>3 DEF PmMarkChild
<1>2. CASE PmMarkParent
  <2>1. UNCHANGED <<ex, child>> /\ pm.at \in Between /\ InHand \in Half
    BY <1>2 DEF PmMarkParent, Half
  <2>2. pm'.at \notin Between
    <3>1. Goes(pm, pm', IF pm.at = "tacParent" THEN {"dirChild", "close"} ELSE {"close"}, pm.order)
      BY <1>0, <1>2, PmMoves
    <3> QED
      BY <3>1, <1>a
  <2>3. Half' \subseteq Half /\ Half \subseteq Half' \cup {InHand}
    BY <2>1, <2>2 DEF Half
  <2>4. CASE parent' = [parent EXCEPT ![InHand] = "applied"]
    <3>1. IF d = InHand THEN parent'[d] = "applied" ELSE parent'[d] = parent[d]
      BY <1>0, <2>4
    <3>2. d = InHand => child[d] \in Executed
      BY <2>1 DEF MarkedRows, ChildFirst
    <3> QED
      BY <2>1, <2>3, <3>1, <3>2 DEF Marks, Same, Executed
  <2>5. CASE Seen("mark") /\ UNCHANGED parent
    <3>1. faults' # 0
      BY <1>0, <2>5, FaultsCount
    <3> QED
      BY <2>1, <2>3, <2>5, <3>1 DEF Marks, Same
  <2> QED
    BY <1>2, <2>1, <2>4, <2>5 DEF PmMarkParent
<1>3. CASE \/ PmBooks \/ PmFetch \/ PmClose \/ PmInsert \/ PmOutcome
           \/ PmTrail \/ PmLook \/ PmCancel \/ PmStop \/ PmStopInsert
  <2>1. UNCHANGED <<ex, parent, child>> /\ pm.at \notin Between
    BY <1>0, <1>3 DEF PmBooks, PmFetch, PmClose, PmInsert, PmOutcome, PmTrail, PmLook, PmCancel,
                      PmStop, PmStopInsert, rowVars
  <2>2. pm'.at \notin Between
    <3>1. CASE PmBooks
      BY <1>0, <3>1 DEF PmBooks, PmHands, NoPm
    <3>2. CASE PmFetch
      BY <1>0, <3>2, PmFetched
    <3>3. CASE PmClose \/ PmInsert \/ PmOutcome \/ PmTrail \/ PmLook \/ PmCancel \/ PmStop \/ PmStopInsert
      <4>1. \E stages \in SUBSET (Stages \ Between), n \in Nat : Goes(pm, pm', stages, n)
        <5>1. pm.order \in Nat /\ Len(orders) + 1 \in Nat /\ 0 \in Nat
          BY <1>0 DEF PmHands
        <5>2. /\ {"cutInsert"} \in SUBSET (Stages \ Between) /\ {"closeInsert"} \in SUBSET (Stages \ Between)
              /\ {"outcome"} \in SUBSET (Stages \ Between) /\ {"settle"} \in SUBSET (Stages \ Between)
              /\ {"dirChild", "close"} \in SUBSET (Stages \ Between) /\ {} \in SUBSET (Stages \ Between)
              /\ {"dirChild", "close", "look", "stop"} \in SUBSET (Stages \ Between)
              /\ {"cancel", "stop"} \in SUBSET (Stages \ Between) /\ {"stop"} \in SUBSET (Stages \ Between)
              /\ {"stopInsert"} \in SUBSET (Stages \ Between)
          BY DEF Stages
        <5>3. CASE PmClose
          BY <1>0, <5>1, <5>2, <5>3, PmMoves
        <5>4. CASE PmInsert
          BY <1>0, <5>1, <5>2, <5>4, PmMoves
        <5>5. CASE PmOutcome
          BY <1>0, <5>1, <5>2, <5>5, PmMoves
        <5>6. CASE PmTrail \/ PmLook \/ PmCancel
          BY <1>0, <5>1, <5>2, <5>6, PmMoves
        <5>7. CASE PmStop \/ PmStopInsert
          BY <1>0, <5>1, <5>2, <5>7, PmMoves
        <5> QED
          BY <3>3, <5>3, <5>4, <5>5, <5>6, <5>7
      <4> QED
        BY <4>1, <1>a
    <3> QED
      BY <1>3, <3>1, <3>2, <3>3
  <2>3. Half' = Half
    BY <2>1, <2>2 DEF Half
  <2> QED
    BY <2>1, <2>3 DEF Marks, Same
<1> QED
  BY <1>1, <1>2, <1>3 DEF PmStep

LEMMA MarksStay ==
  ASSUME TypeOK, Verdicts, MarkedRows, Next
  PROVE  MarkedRows'
<1>0. faults \in Nat /\ blind \in Nat
  BY TypeParts DEF CountsTyped
<1>1. faults' = 0 => faults = 0
  BY <1>0, StepsClose
<1>2. (\A d \in Ids : Marks(d)) /\ (ex'.half => ex'.at \in Executed)
  <2>1. CASE RowStep
    <3>1. \A d \in Ids : Same(d) /\ UNCHANGED <<ex, pm>>
      BY <2>1, RowMarks
    <3>2. UNCHANGED <<ex, pm>>
      BY <2>1 DEF RowStep, SweepStep, InsertDecision, InsertChild, AutoApprove, Age, AdminVerdict, Expire
    <3> QED
      BY <3>1, <3>2 DEF Marks, Half, InHand, MarkedRows
  <2>2. CASE ExStep
    <3>1. \A d \in Ids : Marks(d)
      BY <2>2, ExMarks
    <3>2. ex.half => ex.at \in Executed
      BY DEF MarkedRows
    <3>3. ex \in ExHands /\ ~NoEx.half
      BY TypeParts DEF HandsTyped, NoEx
    <3>4. ex'.half => ex'.at \in Executed
      BY <2>2, <3>2, <3>3 DEF ExStep, ExFetch, ExLook, ExPlace, ExInsert, ExMarkChild, ExMarkParent,
                              ExHands, NoEx, Executed
    <3> QED
      BY <3>1, <3>4
  <2>3. CASE PmStep
    <3>1. \A d \in Ids : Marks(d)
      BY <2>3, PmMarks
    <3>2. ex' = ex
      BY <2>3 DEF PmStep, PmBooks, PmFetch, PmMarkChild, PmMarkParent, PmClose, PmInsert, PmOutcome,
                  PmTrail, PmLook, PmCancel, PmStop, PmStopInsert
    <3> QED
      BY <3>1, <3>2 DEF MarkedRows
  <2>4. CASE Crash
    <3>1. ~ex'.half /\ pm'.at = "idle" /\ UNCHANGED <<parent, child>> /\ faults' # 0
      BY <1>0, <2>4, FaultsCount DEF Crash, NoEx, NoPm, rowVars
    <3>2. Half' = {}
      BY <3>1 DEF Half
    <3> QED
      BY <3>1, <3>2 DEF Marks, Same
  <2>5. CASE OutsideStep /\ ~Crash
    <3>1. UNCHANGED <<parent, child, ex, pm>>
      BY <2>5 DEF OutsideStep, StopFires, Reconcile, Hidden, ManualEntry, Market, Switch, rowVars
    <3> QED
      BY <3>1 DEF Marks, Same, Half, InHand, MarkedRows
  <2> QED
    BY <2>1, <2>2, <2>3, <2>4, <2>5, NextParts
<1> QED
  BY <1>1, <1>2, MarksMove DEF MarkedRows

\* What is rejected, expired or not yet looked at is never traded, in any interleaving of the
\* sweeps, the operator, the expiry and the two loops; the two rows of a decision never
\* disagree about its verdict, although each is marked by a statement of its own and the marks
\* of the two loops may cross or fail; and without a failure they are both executed or neither.
THEOREM VerdictsAlwaysHold == Spec => []VerdictsHold
<1>1. Init => SweepsHold /\ Verdicts /\ MarkedRows
  <2>1. Init => MarkedRows
    BY DEF Init, MarkedRows, ChildFirst, ParentFollows, Half, NoEx, NoPm, Executed
  <2> QED
    BY <2>1, VerdictsStart
<1>2. TypeOK /\ SweepsHold /\ Verdicts /\ MarkedRows /\ [Next]_vars
        => SweepsHold' /\ Verdicts' /\ MarkedRows'
  <2>1. ASSUME TypeOK, Verdicts, MarkedRows, UNCHANGED vars PROVE MarkedRows'
    BY <2>1 DEF vars, rowVars, ghosts, failVars, MarkedRows, ChildFirst, ParentFollows, Half, InHand
  <2> QED
    BY <2>1, VerdictsStay, MarksStay
<1>3. TypeOK /\ Verdicts /\ MarkedRows => VerdictsHold
  BY VerdictsImply, MarksImply DEF VerdictsHold
<1> QED
  BY <1>1, <1>2, <1>3, TypeCorrect, PTL DEF Spec

---------------------------------------------------------------------------
(* One stop that is managed.                                              *)

\* The advice in hand has made the manager forget its stop and is not yet marked.
Unmarked == {"trail", "tacChild", "tacParent", "dirChild"}
Forgets == Asks(pm.dir, {"untrail"}) /\ pm.at \in Unmarked

\* The advice to stop trailing that has been followed.
Spent == {d \in Ids : what[d] = "untrail" /\ (child[d] \notin Open \/ (pm.dir = d /\ Forgets))}

\* The stop that is managed: none while the next one is placed, then the one whose row is
\* written, which becomes active_cid.
Managed == CASE pm.at = "stop"       -> {}
             [] pm.at = "stopInsert" -> {pm.order}
             [] OTHER                -> {cid}

\* The stops that rest at the venue and that nobody manages.
Loose == Resting \ Managed

\* The stages of a tick that closes on advice, and of one that moves the stop.
CutStages == {"cut", "cutInsert", "outcome"}
StopStages == {"look", "cancel", "stop", "stopInsert"}

Parts == {"partial", "full"}
ForgotHolds ==
  /\ Forgets => cid = 0
  /\ pm.at \in StopStages => Asks(pm.dir, Stops)
  /\ pm.at \in CutStages => Asks(pm.dir, Parts)
LooseHolds == config.mode = "managed" => Cardinality(Loose) <= faults + Cardinality(Spent)

\* What is written about a decision stays.
LEMMA WhatStays ==
  ASSUME TypeOK, Verdicts, Next
  PROVE  /\ config' = config
         /\ \A d \in Ids : what[d] # "none" => what'[d] = what[d]
<1>0. what \in [Ids -> {"none"} \cup Tactical \cup Directive]
  BY TypeParts DEF RowsTyped
<1>1. ASSUME NEW l \in Layers, InsertDecision(l), NEW d \in Ids, what[d] # "none"
      PROVE  what'[d] = what[d]
  <2>1. PICK e \in 1 .. config.rows, a \in Advised(l) :
          /\ \A c \in Ids : what[c] = "none" <=> c >= e
          /\ what' = [what EXCEPT ![e] = a]
    BY <1>1 DEF InsertDecision
  <2>2. e \in Ids /\ e \in Int
    BY TypeParts, ConfigTyped
  <2>3. e # d
    BY <1>1, <2>1, <2>2
  <2> QED
    BY <1>0, <2>1, <2>3
<1>2. UNCHANGED <<config, what>> \/ (config' = config /\ \E l \in Layers : InsertDecision(l))
  BY NextParts DEF RowStep, SweepStep, InsertDecision, InsertChild, AutoApprove, Age, AdminVerdict, Expire,
     OutsideStep, StopFires, Reconcile, Hidden, ManualEntry, Market, Switch, Crash, ExStep, ExFetch,
     ExLook, ExPlace, ExInsert, ExMarkChild, ExMarkParent, PmStep, PmBooks, PmFetch, PmMarkChild,
     PmMarkParent, PmClose, PmInsert, PmOutcome, PmTrail, PmLook, PmCancel, PmStop, PmStopInsert, rowVars
<1> QED
  BY <1>1, <1>2

\* The decision in hand is written down.
LEMMA HandWritten ==
  ASSUME TypeOK, Verdicts, pm.dir # 0
  PROVE  pm.dir \in Ids /\ what[pm.dir] # "none"
<1>1. pm.dir \in Ids
  BY TypeParts DEF HandsTyped, PmHands
<1>2. child[pm.dir] # "absent"
  BY <1>1 DEF Verdicts, Approvals, Hands, Approved
<1> QED
  BY <1>1, <1>2 DEF Verdicts, Unwritten

\* A tick that fetched a directive goes on to cut, to trail or to mark it.
LEMMA DirectiveLeads ==
  ASSUME pm \in PmHands, PmFetch, NewestApproved(Directive) # 0
  PROVE  /\ pm'.dir = NewestApproved(Directive)
         /\ pm'.at = "cut" \/ pm'.at \in Unmarked
         /\ pm'.at = "cut" => ToCut(NewestApproved(Directive), pm.qty) > 0
<1> DEFINE t == NewestApproved(Tactical)
           d == NewestApproved(Directive)
           c == ToCut(d, pm.qty)
<1>0. pm.qty \in Nat
  BY DEF PmHands
<1>1. PICK at \in {"cut", "trail", "fetch"}, hit \in BOOLEAN, q \in Nat :
        /\ t \in Ids \cup {0} /\ d \in Ids \cup {0}
        /\ at = "fetch" => pm' = ToTac(Fetch(t, d, at, hit, q))
        /\ at # "fetch" => pm' = Fetch(t, d, at, hit, q)
        /\ at = "cut" <=> c > 0
        /\ at = "trail" => Trailing(d)
        /\ q = IF c > 0 THEN c ELSE pm.qty
  BY <1>0, PmFetches, Zenon
<1>2. d # 0
  OBVIOUS
<1> HIDE DEF t, d, c
<1> DEFINE p == Fetch(t, d, at, hit, q)
<1>3. p \in PmHands /\ p.dir = d /\ p.at = at
  BY <1>1 DEF Fetch, PmHands, Stages
<1> HIDE DEF p
<1>4. CASE at = "fetch"
  <2>1. pm' \in {[p EXCEPT !.at = "tacChild"], [p EXCEPT !.at = "dirChild"]}
    BY <1>1, <1>2, <1>3, <1>4 DEF ToTac, ToDir, p
  <2>2. pm'.dir = d /\ pm'.at \in {"tacChild", "dirChild"}
    BY <1>3, <2>1 DEF PmHands
  <2> QED
    BY <2>2 DEF d, Unmarked
<1>5. CASE at # "fetch"
  <2>1. pm' = p
    BY <1>1, <1>5 DEF p
  <2> QED
    BY <1>1, <1>3, <1>5, <2>1 DEF c, d, Unmarked
<1> QED
  BY <1>4, <1>5

LEMMA UnmarkedMoves ==
  ASSUME PmStep, pm.at \in Unmarked
  PROVE  PmTrail \/ PmMarkChild \/ PmMarkParent
<1>1. ~PmBooks
  BY IdleTyped DEF PmBooks, Unmarked
<1>2. ~PmFetch /\ ~PmClose /\ ~PmInsert
  BY DEF PmFetch, PmClose, PmInsert, Unmarked
<1>3. ~PmOutcome /\ ~PmLook /\ ~PmCancel
  BY DEF PmOutcome, PmLook, PmCancel, Unmarked
<1>4. ~PmStop /\ ~PmStopInsert
  BY DEF PmStop, PmStopInsert, Unmarked
<1> QED
  BY <1>1, <1>2, <1>3, <1>4 DEF PmStep

LEMMA SpentStays ==
  ASSUME TypeOK, Verdicts, ForgotHolds, Next
  PROVE  \/ Spent \subseteq Spent'
         \/ Forgets /\ faults' = faults + 1 /\ Spent \subseteq Spent' \cup {pm.dir}
<1>0. RowsTyped /\ blind \in Nat /\ faults \in Nat /\ pm \in PmHands /\ 0 \notin Ids
  BY TypeParts DEF CountsTyped, HandsTyped, Ids
<1>1. \A d \in Ids : what[d] = "untrail" /\ child[d] \notin Open => d \in Spent'
  BY StepsClose, WhatStays DEF Spent
<1>2. CASE ~Forgets
  BY <1>1, <1>2 DEF Spent
<1>3. CASE Forgets
  <2>1. /\ pm.dir \in Ids /\ what[pm.dir] = "untrail" /\ what'[pm.dir] = "untrail"
        /\ pm.at \in Unmarked /\ cid = 0
        /\ Spent \subseteq Spent' \cup {pm.dir}
    BY <1>1, <1>3, HandWritten, WhatStays DEF Forgets, Asks, Spent, ForgotHolds
  <2>2. CASE pm' = pm
    <3>1. Forgets'
      BY <1>3, <2>1, <2>2 DEF Forgets, Asks
    <3> QED
      BY <2>1, <2>2, <3>1 DEF Spent
  <2>3. CASE Crash
    BY <1>0, <1>3, <2>1, <2>3, FaultsCount DEF Crash
  <2>4. ToDir(pm) = [pm EXCEPT !.at = "dirChild"]
    BY <1>0, <2>1 DEF ToDir
  <2>5. ASSUME pm'.dir = pm.dir, pm'.at \in Unmarked PROVE Spent \subseteq Spent'
    <3>1. Forgets'
      BY <1>0, <2>1, <2>5 DEF Forgets, Asks
    <3> QED
      BY <2>1, <2>5, <3>1 DEF Spent
  <2>6. ASSUME pm' = [pm EXCEPT !.at = "dirChild"] \/ pm' = [pm EXCEPT !.at = "tacParent"]
        PROVE  Spent \subseteq Spent'
    <3>1. pm'.dir = pm.dir /\ pm'.at \in Unmarked
      BY <1>0, <2>6 DEF PmHands, Unmarked
    <3> QED
      BY <2>5, <3>1
  <2>7. CASE PmTrail
    <3>1. ~Asks(pm.dir, Stops)
      BY <2>1 DEF Asks, Stops
    <3> QED
      BY <2>4, <2>6, <2>7, <3>1 DEF PmTrail
  <2>8. CASE PmMarkChild
    <3>1. CASE pm.at = "tacChild"
      BY <2>4, <2>6, <2>8, <3>1 DEF PmMarkChild, Past
    <3>2. CASE pm.at = "dirChild"
      <4>1. faults' = faults + 1 \/ child' = [child EXCEPT ![pm.dir] = "applied"]
        BY <1>0, <2>8, <3>2, FaultsCount DEF PmMarkChild, InHand
      <4>2. faults' = faults + 1 \/ pm.dir \in Spent'
        BY <1>0, <2>1, <4>1 DEF RowsTyped, Spent, Open
      <4> QED
        BY <1>3, <2>1, <4>2
    <3> QED
      BY <2>8, <3>1, <3>2 DEF PmMarkChild
  <2>9. CASE PmMarkParent
    BY <2>1, <2>4, <2>6, <2>9 DEF PmMarkParent, Past, Unmarked
  <2>10. pm' = pm \/ Crash \/ PmTrail \/ PmMarkChild \/ PmMarkParent
    <3>1. CASE PmStep
      BY <2>1, <3>1, UnmarkedMoves
    <3>2. CASE RowStep
      BY <3>2 DEF RowStep, SweepStep, InsertDecision, InsertChild, AutoApprove, Age, AdminVerdict, Expire
    <3>3. CASE OutsideStep
      BY <3>3 DEF OutsideStep, StopFires, Reconcile, Hidden, ManualEntry, Market, Switch
    <3>4. CASE ExStep
      BY <3>4 DEF ExStep, ExFetch, ExLook, ExPlace, ExInsert, ExMarkChild, ExMarkParent
    <3> QED
      BY <3>1, <3>2, <3>3, <3>4, NextParts
  <2> QED
    BY <2>2, <2>3, <2>7, <2>8, <2>9, <2>10
<1> QED
  BY <1>2, <1>3

\* A new order or a fill adds no stop that rests.
LEMMA RestingShrinks ==
  ASSUME TypeOK, RowStep \/ ExStep \/ OutsideStep \/ PmClose \/ PmInsert
  PROVE  Resting' \subseteq Resting
<1>0. /\ orders \in Seq(Order) /\ Len(orders) \in Nat /\ pm \in PmHands
      /\ config \in Configs
  BY TypeParts, OrdersRead DEF OrdersTyped, HandsTyped, RowsTyped
<1>1. CASE UNCHANGED orders
  BY <1>1 DEF Resting, Filled
<1>2. ASSUME NEW asked \in Int, NEW done \in Int, NEW at \in {"placed", "booked"}, Sent(asked, done, at)
      PROVE  Resting' \subseteq Resting
  <2>1. /\ Len(orders') = Len(orders) + 1 /\ orders'[Len(orders) + 1].at = at
        /\ \A j \in 1 .. Len(orders) : orders'[j] = orders[j]
    <3>1. at \in OrderAt
      BY <1>2 DEF OrderAt
    <3>2. /\ Len(orders') = Len(orders) + 1
          /\ orders'[Len(orders) + 1] = [asked |-> asked, done |-> done, at |-> at]
          /\ \A j \in 1 .. Len(orders) : orders'[j] = orders[j]
      BY <1>0, <1>2, <3>1, Sends
    <3> QED
      BY <3>2
  <2>2. ASSUME NEW j \in 1 .. Len(orders) + 1, orders'[j].at \in {"loose", "resting"}
        PROVE  j \in 1 .. Len(orders) /\ orders[j].at \in {"loose", "resting"}
    BY <1>0, <1>2, <2>1, <2>2
  <2> QED
    BY <2>1, <2>2 DEF Resting, Filled
<1>3. ASSUME Len(orders') = Len(orders),
             \A j \in 1 .. Len(orders) :
               orders'[j].at \in {"loose", "resting"} => orders[j].at \in {"loose", "resting"}
      PROVE  Resting' \subseteq Resting
  BY <1>3 DEF Resting, Filled
<1>4. CASE ExPlace
  <2>1. UNCHANGED orders \/ Sent(Signed(ex.id), Signed(ex.id), "placed")
    BY <1>4 DEF ExPlace
  <2>2. Signed(ex.id) \in Int
    BY DeskAssumption DEF Signed
  <2> QED
    BY <1>1, <1>2, <2>1, <2>2
<1>5. CASE ManualEntry
  BY <1>2, <1>5, DeskAssumption DEF ManualEntry
<1>6. CASE PmClose
  <2>1. UNCHANGED orders \/ Sent(-pm.qty, -Takes, "placed")
    BY <1>6 DEF PmClose
  <2>2. -pm.qty \in Int /\ -Takes \in Int
    <3>1. pm.qty \in Int /\ Takes \in Int
      BY <1>0, PositionTyped DEF Takes, Least, PmHands
    <3> QED
      BY <3>1
  <2> QED
    BY <1>1, <1>2, <2>1, <2>2
<1>7. CASE ExInsert \/ PmInsert
  <2>1. UNCHANGED orders \/ \E i \in {ex.order, pm.order} : Inserted(i)
    BY <1>7 DEF ExInsert, PmInsert
  <2>2. ASSUME NEW i, Inserted(i) PROVE Resting' \subseteq Resting
    BY <1>0, <1>3, <2>2, Inserts
  <2> QED
    BY <1>1, <2>1, <2>2
<1>8. CASE Reconcile \/ Hidden
  <2>1. PICK i \in 1 .. Len(orders), at \in {"placed", "booked"} : orders' = [orders EXCEPT ![i].at = at]
    BY <1>8 DEF Reconcile, Hidden
  <2>2. at \in OrderAt
    BY DEF OrderAt
  <2>3. Len(orders') = Len(orders)
        /\ \A j \in 1 .. Len(orders) : orders'[j].at = IF j = i THEN at ELSE orders[j].at
    BY <1>0, <2>1, <2>2, OrderRelabelled
  <2> QED
    BY <1>3, <2>3
<1>9. ASSUME NEW i \in 1 .. Len(orders), StopFires(i) PROVE Resting' \subseteq Resting
  <2>1. PICK o : /\ o.at \in {"taken", "placed"} /\ Len(orders') = Len(orders)
                 /\ \A j \in 1 .. Len(orders) : orders'[j] = IF j = i THEN o ELSE orders[j]
    <3>1. /\ Len(orders') = Len(orders)
          /\ \A j \in 1 .. Len(orders) :
               orders'[j] = IF j = i
                            THEN [asked |-> orders[i].asked, done |-> -Least(-orders[i].asked, Pos),
                                  at |-> IF orders[i].at = "resting" THEN "taken" ELSE "placed"]
                            ELSE orders[j]
      BY <1>0, <1>9, StopFills
    <3> QED
      BY <3>1
  <2>2. \A j \in 1 .. Len(orders) :
          orders'[j].at \in {"loose", "resting"} => orders[j].at \in {"loose", "resting"}
    BY <2>1
  <2> QED
    BY <1>3, <2>1, <2>2
<1>10. \/ UNCHANGED orders \/ ExPlace \/ ManualEntry \/ PmClose \/ ExInsert \/ PmInsert \/ Reconcile
       \/ Hidden \/ \E i \in 1 .. Len(orders) : StopFires(i)
  BY DEF RowStep, SweepStep, InsertDecision, InsertChild, AutoApprove, Age, AdminVerdict, Expire,
     OutsideStep, Market, Switch, Crash, ExStep, ExFetch, ExLook, ExMarkChild, ExMarkParent, venueVars
<1> QED
  BY <1>1, <1>4, <1>5, <1>6, <1>7, <1>8, <1>9, <1>10

\* A cancel takes the managed stop away.
LEMMA VoidRests ==
  ASSUME orders \in Seq(Order), orders' = Replaced
  PROVE  Resting' \subseteq Resting \ {cid}
<1>1. CASE cid \in Resting
  <2>1. orders' = [orders EXCEPT ![cid].at = "void"] /\ "void" \in OrderAt
    BY <1>1 DEF Replaced, OrderAt
  <2>2. Len(orders') = Len(orders)
        /\ \A j \in 1 .. Len(orders) : orders'[j].at = IF j = cid THEN "void" ELSE orders[j].at
    BY <2>1, OrderRelabelled
  <2> QED
    BY <2>2 DEF Resting, Filled
<1>2. CASE cid \notin Resting
  BY <1>2 DEF Replaced, Resting, Filled
<1> QED
  BY <1>1, <1>2

\* Only a failure and advice to stop trailing leave a stop behind, and each leaves one.
LEMMA LooseStays ==
  ASSUME TypeOK, Next
  PROVE  config.mode = "managed" =>
           \/ Loose' \subseteq Loose
           \/ /\ faults' = faults + 1 \/ (PmFetch /\ Asks(NewestApproved(Directive), {"untrail"}))
              /\ \E i \in Nat : Loose' \subseteq Loose \cup {i}
<1> SUFFICES ASSUME config.mode = "managed"
             PROVE  \/ Loose' \subseteq Loose
                    \/ /\ \/ faults' = faults + 1
                          \/ PmFetch /\ Asks(NewestApproved(Directive), {"untrail"})
                       /\ \E i \in Nat : Loose' \subseteq Loose \cup {i}
  OBVIOUS
<1>0. /\ orders \in Seq(Order) /\ Len(orders) \in Nat /\ cid \in Nat /\ pm.order \in Nat
      /\ pm \in PmHands /\ ex.order \in 0 .. Len(orders) /\ config \in Configs
      /\ blind \in Nat /\ faults \in Nat
  BY TypeParts, OrdersRead DEF OrdersTyped, HandsTyped, RowsTyped, CountsTyped
<1>1. Managed \subseteq {cid} \/ (pm.at = "stopInsert" /\ Managed = {pm.order})
  BY DEF Managed
<1>2. ASSUME Resting' \subseteq Resting, Managed' = Managed PROVE Loose' \subseteq Loose
  BY <1>2 DEF Loose
<1>3. CASE Crash
  <2>1. Resting' = Resting /\ faults' = faults + 1
    BY <1>0, <1>3, FaultsCount DEF Crash, Resting, Filled
  <2>2. PICK i \in Nat : Managed \subseteq {i}
    BY <1>0, <1>1
  <2> QED
    BY <2>1, <2>2 DEF Loose
<1>4. CASE RowStep \/ ExStep \/ (OutsideStep /\ ~Crash)
  <2>1. pm' = pm /\ cid' = cid
    BY <1>4 DEF RowStep, SweepStep, InsertDecision, InsertChild, AutoApprove, Age, AdminVerdict, Expire,
       ExStep, ExFetch, ExLook, ExPlace, ExInsert, ExMarkChild, ExMarkParent, OutsideStep, StopFires,
       Reconcile, Hidden, ManualEntry, Market, Switch, venueVars
  <2>2. Managed' = Managed
    BY <2>1 DEF Managed
  <2>3. Resting' \subseteq Resting
    BY <1>4, RestingShrinks
  <2> QED
    BY <1>2, <2>2, <2>3
<1>5. CASE PmStep
  <2>1. CASE PmBooks \/ PmMarkChild \/ PmMarkParent \/ PmOutcome \/ PmTrail
    <3>1. UNCHANGED <<orders, cid>> /\ pm.at \notin {"stop", "stopInsert"}
      BY <2>1, IdleTyped DEF PmBooks, PmMarkChild, PmMarkParent, PmOutcome, PmTrail, venueVars
    <3>2. Resting' = Resting
      BY <3>1 DEF Resting, Filled
    <3>3. pm'.at # "stopInsert"
      BY <1>0, <2>1, PmMoves, IdleTyped DEF PmBooks, Goes, PmHands
    <3>4. pm'.at = "stop" => Loose' \subseteq Loose
      <4>1. pm'.at = "stop" => PmTrail
        BY <1>0, <2>1, PmMoves, IdleTyped DEF PmBooks, Goes, PmHands
      <4>2. PmTrail /\ pm'.at = "stop" => cid = 0
        <5>1. \A at \in Stages : [pm EXCEPT !.at = at].at = at
          BY <1>0 DEF PmHands
        <5>2. Goes(pm, ToDir(pm), {"dirChild", "close"}, pm.order)
          BY <1>0, Ways
        <5>3. ToDir(pm).at # "stop"
          BY <5>2, IdleTyped DEF Goes
        <5>4. NoPm.at # "stop"
          BY IdleTyped
        <5> QED
          BY <5>1, <5>3, <5>4 DEF PmTrail, Stages
      <4>3. cid = 0 => cid \notin Resting
        BY DEF Resting, Filled
      <4> QED
        BY <3>1, <3>2, <4>1, <4>2, <4>3 DEF Loose, Managed
    <3> QED
      BY <3>1, <3>2, <3>3, <3>4 DEF Loose, Managed
  <2>2. CASE PmFetch
    <3>1. UNCHANGED orders /\ pm.at = "fetch" /\ cid' = IF Asks(NewestApproved(Directive), {"untrail"}) THEN 0 ELSE cid
      BY <2>2 DEF PmFetch
    <3>2. Resting' = Resting /\ Managed = {cid}
      BY <3>1 DEF Resting, Filled, Managed
    <3>3. pm'.at \notin {"stop", "stopInsert"}
      BY <1>0, <2>2, PmFetched, IdleTyped
    <3>4. Managed' = {cid'}
      BY <3>3 DEF Managed
    <3> QED
      BY <1>0, <2>2, <3>1, <3>2, <3>4 DEF Loose
  <2>3. CASE PmClose \/ PmInsert
    <3>1. Resting' \subseteq Resting
      BY <2>3, RestingShrinks
    <3>2. cid' = cid /\ pm.at \notin {"stop", "stopInsert"}
      BY <2>3 DEF PmClose, PmInsert
    <3>3. pm'.at \notin {"stop", "stopInsert"}
      BY <1>0, <2>3, PmMoves, IdleTyped DEF Goes
    <3> QED
      BY <1>2, <3>1, <3>2, <3>3 DEF Managed
  <2>4. CASE PmLook
    <3>1. UNCHANGED orders /\ pm.at = "look" /\ pm'.at # "stopInsert"
      BY <1>0, <2>4, PmMoves, IdleTyped DEF PmLook, Goes
    <3>2. Resting' = Resting /\ Managed = {cid}
      BY <3>1 DEF Resting, Filled, Managed
    <3>3. (cid' = cid /\ pm'.at # "stop") \/ cid \notin Resting
      BY <1>0, <2>4, IdleTyped DEF PmLook, PmHands
    <3> QED
      BY <3>1, <3>2, <3>3 DEF Loose, Managed
  <2>5. CASE PmCancel
    <3>1. pm.at = "cancel" /\ cid' = cid /\ pm'.at # "stopInsert"
      BY <1>0, <2>5, PmMoves, IdleTyped DEF PmCancel, Goes
    <3>2. Managed = {cid} /\ Managed' \subseteq {cid}
      BY <3>1 DEF Managed
    <3>3. CASE orders' = Replaced
      <4>1. Resting' \subseteq Resting \ {cid}
        BY <1>0, <3>3, VoidRests
      <4> QED
        BY <3>2, <4>1 DEF Loose
    <3>4. CASE Seen("refuse") /\ UNCHANGED orders
      <4>1. Resting' = Resting /\ faults' = faults + 1
        BY <1>0, <3>4, FaultsCount DEF Resting, Filled
      <4> QED
        BY <1>0, <3>2, <4>1 DEF Loose
    <3> QED
      BY <2>5, <3>3, <3>4 DEF PmCancel
  <2>6. CASE PmStop
    <3>1. pm.at = "stop" /\ cid' = cid /\ Loose = Resting
      BY <2>6 DEF PmStop, Loose, Managed
    <3>2. CASE UNCHANGED orders
      BY <3>1, <3>2 DEF Loose, Resting, Filled
    <3>3. CASE Sent(-pm.qty, 0, "loose")
      <4>1. Resting' \subseteq Resting \cup {Len(orders) + 1}
        <5>1. -pm.qty \in Int /\ 0 \in Int /\ "loose" \in OrderAt
          BY <1>0 DEF PmHands, OrderAt
        <5>2. Len(orders') = Len(orders) + 1 /\ \A j \in 1 .. Len(orders) : orders'[j] = orders[j]
          <6>1. PICK asked \in Int, done \in Int, at \in OrderAt : Sent(asked, done, at)
            BY <3>3, <5>1
          <6> QED
            BY <1>0, <6>1, Sends
        <5> QED
          BY <1>0, <5>2 DEF Resting, Filled
      <4>2. faults' = faults + 1 \/ pm' = [pm EXCEPT !.at = "stopInsert", !.order = Len(orders) + 1]
        BY <1>0, <2>6, FaultsCount DEF PmStop
      <4>3. CASE faults' = faults + 1
        BY <1>0, <3>1, <4>1, <4>3 DEF Loose
      <4>4. CASE pm' = [pm EXCEPT !.at = "stopInsert", !.order = Len(orders) + 1]
        <5>1. pm'.at = "stopInsert" /\ pm'.order = Len(orders) + 1
          BY <1>0, <4>4 DEF PmHands
        <5> QED
          BY <3>1, <4>1, <5>1 DEF Loose, Managed
      <4> QED
        BY <4>2, <4>3, <4>4
    <3> QED
      BY <2>6, <3>2, <3>3 DEF PmStop
  <2>7. CASE PmStopInsert
    <3>1. pm.at = "stopInsert" /\ cid' = pm.order /\ pm'.at \notin {"stop", "stopInsert"}
      <4>1. pm'.at \notin {"stop", "stopInsert"}
        BY <1>0, <2>7, PmMoves, IdleTyped DEF Goes
      <4> QED
        BY <2>7, <4>1 DEF PmStopInsert
    <3>2. Managed = {pm.order} /\ Managed' = {pm.order}
      BY <3>1 DEF Managed
    <3>3. Resting' \subseteq Resting
      <4>1. /\ Len(orders') = Len(orders)
            /\ \A j \in 1 .. Len(orders) :
                 \/ orders'[j].at = orders[j].at
                 \/ orders'[j].at = IF orders[j].at = "loose" THEN "resting" ELSE "taken"
        BY <1>0, <2>7, StopBooked
      <4> QED
        BY <4>1 DEF Resting, Filled
    <3> QED
      BY <1>2, <3>2, <3>3
  <2> QED
    BY <1>5, <2>1, <2>2, <2>3, <2>4, <2>5, <2>6, <2>7 DEF PmStep
<1> QED
  BY <1>3, <1>4, <1>5, NextParts

\* The manager has no stop while it has forgotten one, and places or closes only when asked to.
LEMMA ForgotStays ==
  ASSUME TypeOK, Verdicts, ForgotHolds, Next
  PROVE  ForgotHolds'
<1>0. RowsTyped /\ pm \in PmHands /\ 0 \notin Ids
  BY TypeParts DEF HandsTyped, Ids
<1>1. ASSUME NEW kinds, "none" \notin kinds
      PROVE  /\ pm'.dir = pm.dir /\ Asks(pm.dir, kinds) => Asks(pm.dir, kinds)'
             /\ pm'.dir = pm.dir /\ Asks(pm.dir, kinds)' => Asks(pm.dir, kinds)
  BY <1>0, <1>1, HandWritten, WhatStays DEF Asks
<1>2. "none" \notin Stops /\ "none" \notin Parts /\ "none" \notin {"untrail"}
  BY DEF Stops, Parts
<1>3. CASE UNCHANGED <<pm, cid>>
  BY <1>1, <1>2, <1>3 DEF ForgotHolds, Forgets, StopStages, CutStages
<1>4. CASE Crash \/ PmBooks
  <2>1. pm'.dir = 0 /\ pm'.at \in {"idle", "fetch"}
    BY <1>0, <1>4, IdleTyped DEF Crash, PmBooks, PmHands
  <2> QED
    BY <2>1 DEF ForgotHolds, Forgets, Asks, CutStages, StopStages
<1>5. CASE PmFetch
  <2> DEFINE e == NewestApproved(Directive)
  <2>1. /\ what' = what /\ cid' = IF Asks(e, {"untrail"}) THEN 0 ELSE cid
        /\ \/ pm' = NoPm
           \/ /\ pm'.dir = e /\ pm'.at \in {"cut", "trail", "tacChild", "dirChild", "close"}
              /\ pm'.at = "cut" => ToCut(e, pm.qty) > 0
    BY <1>0, <1>5, PmFetched DEF PmFetch, rowVars
  <2>2. pm'.at = "cut" => Asks(e, Parts)
    BY <2>1, IdleTyped DEF ToCut, Asks, Parts
  <2> HIDE DEF e
  <2> QED
    BY <2>1, <2>2, IdleTyped DEF ForgotHolds, Forgets, Asks, CutStages, StopStages
<1>s. Len(orders) \in Nat
  BY TypeParts, OrdersRead DEF OrdersTyped
<1>6. CASE PmMarkChild \/ PmMarkParent
  <2>1. pm'.at \notin CutStages \cup StopStages /\ cid' = cid /\ (pm' = NoPm \/ pm'.dir = pm.dir)
    BY <1>0, <1>s, <1>6, PmMoves, IdleTyped
       DEF Goes, CutStages, StopStages, PmMarkChild, PmMarkParent, venueVars
  <2>2. Forgets' => Forgets
    <3>1. Forgets' => pm'.dir = pm.dir /\ Asks(pm.dir, {"untrail"})' /\ pm'.at \in Unmarked
      BY <2>1, IdleTyped DEF Forgets, Unmarked
    <3>2. pm'.at \in Unmarked => pm.at \in Unmarked
      BY <1>0, <1>s, <1>6, PmMoves, IdleTyped DEF Goes, PmMarkChild, PmMarkParent, Unmarked
    <3> QED
      BY <1>1, <1>2, <3>1, <3>2 DEF Forgets
  <2> QED
    BY <2>1, <2>2 DEF ForgotHolds
<1>7. CASE PmClose \/ PmInsert \/ PmOutcome
  <2>1. \/ pm'.at \in {"idle", "closeInsert", "settle", "close"}
        \/ pm.at \in CutStages /\ pm'.dir = pm.dir /\ pm'.at \in CutStages \cup {"dirChild"}
    BY <1>0, <1>s, <1>7, PmMoves, IdleTyped DEF PmClose, PmInsert, PmOutcome, Goes, CutStages
  <2>2. pm.at \in CutStages /\ pm'.dir = pm.dir => Asks(pm.dir, Parts)'
    BY <1>1, <1>2 DEF ForgotHolds
  <2>3. Asks(pm.dir, Parts)' => ~Forgets'
    BY DEF Forgets, Asks, Parts
  <2>4. ~Forgets' \/ pm'.at \notin Unmarked
    BY <2>1, <2>2, <2>3 DEF Unmarked
  <2>5. ~Forgets'
    BY <2>4 DEF Forgets
  <2> QED
    BY <2>1, <2>2, <2>5 DEF ForgotHolds, CutStages, StopStages
<1>8. CASE PmTrail
  <2>1. CASE pm' = ToDir(pm)
    <3>1. Goes(pm, pm', {"dirChild", "close"}, pm.order)
      BY <1>0, <2>1, Ways
    <3>2. pm.at = "trail" /\ cid' = cid
      BY <1>8 DEF PmTrail, venueVars
    <3>3. Forgets' => Forgets
      BY <1>1, <1>2, <3>1, <3>2, IdleTyped DEF Goes, Forgets, Unmarked
    <3> QED
      BY <3>1, <3>2, <3>3, IdleTyped DEF Goes, ForgotHolds, CutStages, StopStages
  <2>2. CASE Asks(pm.dir, Stops) /\ pm' = [pm EXCEPT !.at = IF config.mode = "managed" /\ cid # 0
                                                             THEN "look" ELSE "stop"]
    <3>1. pm'.dir = pm.dir /\ pm'.at \in {"look", "stop"}
      BY <1>0, <2>2 DEF PmHands
    <3> QED
      BY <1>1, <1>2, <2>2, <3>1 DEF ForgotHolds, Forgets, Unmarked, CutStages, StopStages
  <2>3. CASE pm' = NoPm
    BY <2>3, IdleTyped DEF ForgotHolds, Forgets, Unmarked, CutStages, StopStages
  <2> QED
    BY <1>8, <2>1, <2>2, <2>3 DEF PmTrail
<1>9. CASE PmLook \/ PmCancel \/ PmStop \/ PmStopInsert
  <2>1. Asks(pm.dir, Stops)
    BY <1>9 DEF PmLook, PmCancel, PmStop, PmStopInsert, ForgotHolds, StopStages
  <2>2. pm' = NoPm \/ (pm'.dir = pm.dir /\ pm'.at \in StopStages \cup {"dirChild", "close"})
    BY <1>0, <1>s, <1>9, PmMoves DEF Goes, StopStages
  <2>3. CASE pm' = NoPm
    BY <2>3, IdleTyped DEF ForgotHolds, Forgets, Unmarked, CutStages, StopStages
  <2>4. CASE pm'.dir = pm.dir /\ pm'.at \in StopStages \cup {"dirChild", "close"}
    <3>1. Asks(pm.dir, Stops)'
      BY <1>1, <1>2, <2>1, <2>4
    <3>2. ~Forgets'
      BY <3>1 DEF Forgets, Asks, Stops
    <3> QED
      BY <2>4, <3>1, <3>2 DEF ForgotHolds, CutStages, StopStages
  <2> QED
    BY <2>2, <2>3, <2>4
<1>10. UNCHANGED <<pm, cid>> \/ Crash \/ PmStep
  BY NextParts DEF RowStep, SweepStep, InsertDecision, InsertChild, AutoApprove, Age, AdminVerdict, Expire,
     OutsideStep, StopFires, Reconcile, Hidden, ManualEntry, Market, Switch, ExStep, ExFetch, ExLook,
     ExPlace, ExInsert, ExMarkChild, ExMarkParent, venueVars
<1> QED
  BY <1>3, <1>4, <1>5, <1>6, <1>7, <1>8, <1>9, <1>10 DEF PmStep

LEMMA DecisionsFinite == \A S \in SUBSET Ids : IsFiniteSet(S) /\ Cardinality(S) \in Nat
<1>1. IsFiniteSet(Ids)
  BY DeskAssumption, FS_Interval DEF Ids
<1> QED
  BY <1>1, FS_Subset, FS_CardinalityType

\* While the managed stop is forgotten, a failure leaves none behind.
LEMMA ForgottenHolds ==
  ASSUME TypeOK, ForgotHolds, Forgets, Next
  PROVE  Loose' \subseteq Loose
<1>0. pm.at \in Unmarked /\ cid = 0 /\ Asks(pm.dir, {"untrail"}) /\ pm \in PmHands /\ Len(orders) \in Nat
  BY TypeParts, OrdersRead DEF Forgets, ForgotHolds, HandsTyped, OrdersTyped
<1>1. Loose = Resting
  <2>1. 0 \notin Resting
    BY DEF Resting, Filled
  <2> QED
    BY <1>0, <2>1 DEF Loose, Managed, Unmarked
<1>2. CASE PmStep
  <2>1. PmTrail \/ PmMarkChild \/ PmMarkParent
    BY <1>0, <1>2, UnmarkedMoves
  <2>2. Resting' = Resting
    BY <2>1 DEF PmTrail, PmMarkChild, PmMarkParent, venueVars, Resting, Filled
  <2> QED
    BY <1>1, <2>2 DEF Loose
<1>3. CASE RowStep \/ ExStep \/ OutsideStep
  <2>1. Resting' \subseteq Resting
    BY <1>3, RestingShrinks
  <2> QED
    BY <1>1, <2>1 DEF Loose
<1> QED
  BY <1>2, <1>3, NextParts

LEMMA LooseStaysHeld ==
  ASSUME TypeOK, Verdicts, ForgotHolds, LooseHolds, Next
  PROVE  LooseHolds'
<1>0. RowsTyped /\ blind \in Nat /\ faults \in Nat /\ pm \in PmHands /\ 0 \notin Ids
      /\ orders \in Seq(Order) /\ cid \in 0 .. Len(orders)
  BY TypeParts DEF CountsTyped, HandsTyped, OrdersTyped, Ids
<1>1. SUFFICES ASSUME config.mode = "managed"
               PROVE  Cardinality(Loose') <= faults' + Cardinality(Spent')
  BY WhatStays DEF LooseHolds
<1>2. /\ IsFiniteSet(Loose) /\ IsFiniteSet(Spent) /\ IsFiniteSet(Spent')
      /\ Cardinality(Loose) \in Nat /\ Cardinality(Spent) \in Nat /\ Cardinality(Spent') \in Nat
  <2>1. IsFiniteSet(Loose) /\ Cardinality(Loose) \in Nat
    BY <1>0, FilledFinite, FS_Subset, FS_CardinalityType DEF Loose, Resting
  <2>2. Spent \in SUBSET Ids /\ Spent' \in SUBSET Ids
    BY DEF Spent
  <2> QED
    BY <2>1, <2>2, DecisionsFinite
<1>3. faults' \in {faults, faults + 1} /\ Cardinality(Loose) <= faults + Cardinality(Spent)
  BY <1>1, StepsClose DEF LooseHolds
<1>4. \/ Spent \subseteq Spent'
      \/ Forgets /\ faults' = faults + 1 /\ Spent \subseteq Spent' \cup {pm.dir}
  BY SpentStays
<1>5. Cardinality(Spent) <= Cardinality(Spent') \/
      (Forgets /\ faults' = faults + 1 /\ Cardinality(Spent) <= Cardinality(Spent') + 1)
  BY <1>2, <1>4, OneMore
<1>6. CASE Loose' \subseteq Loose
  <2>1. Cardinality(Loose') <= Cardinality(Loose) /\ Cardinality(Loose') \in Nat
    BY <1>2, <1>6, FS_Subset, FS_CardinalityType
  <2> QED
    BY <1>0, <1>2, <1>3, <1>5, <2>1
<1>7. ASSUME NEW i \in Nat, Loose' \subseteq Loose \cup {i}
      PROVE  Cardinality(Loose') <= Cardinality(Loose) + 1 /\ Cardinality(Loose') \in Nat
  BY <1>2, <1>7, OneMore
<1>8. CASE faults' = faults + 1 /\ \E i \in Nat : Loose' \subseteq Loose \cup {i}
  <2>1. Cardinality(Loose') <= Cardinality(Loose) + 1 /\ Cardinality(Loose') \in Nat
    BY <1>7, <1>8
  <2>2. CASE Forgets
    <3>1. Loose' \subseteq Loose
      BY <2>2, ForgottenHolds
    <3> QED
      BY <1>6, <3>1
  <2>3. CASE ~Forgets
    BY <1>0, <1>2, <1>3, <1>5, <1>8, <2>1, <2>3
  <2> QED
    BY <2>2, <2>3
<1>9. CASE PmFetch /\ Asks(NewestApproved(Directive), {"untrail"})
           /\ \E i \in Nat : Loose' \subseteq Loose \cup {i}
  <2> DEFINE e == NewestApproved(Directive)
  <2>1. e \in Ids /\ what[e] = "untrail" /\ child[e] = "approved"
    BY <1>9, ApprovedFound DEF Asks
  <2>2. pm.at = "fetch" /\ faults' = faults /\ UNCHANGED <<what, child>>
    BY <1>0, <1>9, FaultsCount DEF PmFetch, rowVars
  <2>3. pm'.dir = e /\ pm'.at \in Unmarked
    <3>1. ToCut(e, pm.qty) = 0
      BY <2>1 DEF ToCut, Asks
    <3> QED
      BY <1>0, <1>9, <2>1, <3>1, DirectiveLeads
  <2> HIDE DEF e
  <2>4. Forgets' /\ ~Forgets
    BY <1>0, <2>1, <2>2, <2>3 DEF Forgets, Asks, Unmarked
  <2>5. e \notin Spent /\ Spent' = Spent \cup {e}
    BY <2>1, <2>2, <2>3, <2>4 DEF Spent, Open
  <2>6. Cardinality(Spent') = Cardinality(Spent) + 1
    BY <1>2, <2>5, OneMore
  <2>7. Cardinality(Loose') <= Cardinality(Loose) + 1 /\ Cardinality(Loose') \in Nat
    BY <1>7, <1>9
  <2> QED
    BY <1>0, <1>2, <1>3, <2>2, <2>6, <2>7
<1> QED
  BY <1>1, <1>6, <1>8, <1>9, LooseStays

\* The stops that rest are the managed one, those left behind for each failure, and those that
\* were forgotten for advice that was followed.
LEMMA LooseImplies ==
  ASSUME TypeOK, LooseHolds
  PROVE  OneManagedStop
<1> DEFINE told == {d \in Ids : what[d] = "untrail"}
<1>0. orders \in Seq(Order) /\ faults \in Nat
  BY TypeParts DEF OrdersTyped, CountsTyped
<1>1. SUFFICES ASSUME config.mode = "managed"
               PROVE  Cardinality(Resting) <= 1 + faults + Cardinality(told)
  BY DEF OneManagedStop
<1>2. IsFiniteSet(Loose) /\ Cardinality(Loose) \in Nat
  BY <1>0, FilledFinite, FS_Subset, FS_CardinalityType DEF Loose, Resting
<1>3. PICK i : Resting \subseteq Loose \cup {i}
  <2>1. PICK i : Managed \subseteq {i}
    BY DEF Managed
  <2> QED
    BY <2>1 DEF Loose
<1>4. Cardinality(Resting) <= Cardinality(Loose) + 1 /\ Cardinality(Resting) \in Nat
  BY <1>2, <1>3, OneMore
<1>5. Spent \subseteq told /\ told \in SUBSET Ids
  BY DEF Spent
<1>6. Cardinality(Spent) <= Cardinality(told) /\ Cardinality(Spent) \in Nat /\ Cardinality(told) \in Nat
  BY <1>5, DecisionsFinite, FS_Subset
<1> QED
  BY <1>0, <1>1, <1>2, <1>4, <1>6 DEF LooseHolds

\* Managed trailing keeps one stop at the venue, plus one for each failure and for each advice
\* to stop trailing: whatever look-ups, cancels and placings were refused or lost their answers,
\* whatever rows of a stop were not written, and however often the worker died.
THEOREM OneManagedStopHolds == Spec => []OneManagedStop
<1>1. Init => SweepsHold /\ Verdicts /\ ForgotHolds /\ LooseHolds
  <2>1. ASSUME Init PROVE SweepsHold /\ Verdicts /\ ForgotHolds /\ LooseHolds
    <3>1. SweepsHold /\ Verdicts
      BY <2>1, VerdictsStart
    <3>2. ForgotHolds
      BY <2>1, IdleTyped DEF Init, ForgotHolds, Forgets, Unmarked, CutStages, StopStages
    <3>3. Loose = {} /\ Spent = {}
      BY <2>1, IdleTyped DEF Init, Loose, Resting, Filled, Spent, Open
    <3>4. Cardinality({}) = 0
      BY FS_EmptySet
    <3> QED
      BY <2>1, <3>1, <3>2, <3>3, <3>4 DEF Init, LooseHolds
  <2> QED
    BY <2>1
<1>2. TypeOK /\ SweepsHold /\ Verdicts /\ ForgotHolds /\ LooseHolds /\ [Next]_vars
        => SweepsHold' /\ Verdicts' /\ ForgotHolds' /\ LooseHolds'
  <2>1. ASSUME TypeOK, SweepsHold, Verdicts, ForgotHolds, LooseHolds, Next
        PROVE  SweepsHold' /\ Verdicts' /\ ForgotHolds' /\ LooseHolds'
    BY <2>1, VerdictsStay, ForgotStays, LooseStaysHeld
  <2>2. ASSUME TypeOK, SweepsHold, Verdicts, ForgotHolds, LooseHolds, UNCHANGED vars
        PROVE  SweepsHold' /\ Verdicts' /\ ForgotHolds' /\ LooseHolds'
    BY <2>2, VerdictsStay DEF vars, rowVars, venueVars, failVars, ForgotHolds, Forgets, Asks, LooseHolds,
                              Managed, Loose, Resting, Filled, Spent
  <2> QED
    BY <2>1, <2>2
<1>3. TypeOK /\ LooseHolds => OneManagedStop
  BY LooseImplies
<1> QED
  BY <1>1, <1>2, <1>3, TypeCorrect, PTL DEF Spec

---------------------------------------------------------------------------
(* No entry on top of an entry.                                           *)

\* A stop that has not fired has filled nothing, and it sells.
Unfilled == {"loose", "resting", "void"}
StopsAsk ==
  \A i \in 1 .. Len(orders) :
    orders[i].at \in Unfilled => orders[i].done = 0 /\ orders[i].asked <= 0

\* Dry, every order fills in full and at once, and only an entry that is being recorded
\* is not yet in the rows.
DryFills ==
  ~config.live =>
    /\ pm.at \notin StopStages \cup {"trail"}
    /\ \A i \in 1 .. Len(orders) :
         /\ orders[i].at \in {"placed", "booked"} /\ orders[i].asked = orders[i].done
         /\ blind = 0 /\ orders[i].at = "placed" /\ orders[i].done > 0
              => ex.at = "insert" /\ i = ex.order

\* While nothing hides the position, it is within an entry, and what is about to be placed
\* does not take it beyond.
Stacks ==
  blind = 0 =>
    /\ Pos <= Unit + Unit * manual
    /\ ex.at = "place" /\ what[ex.id] = "buy" => Pos <= Unit * manual
    /\ config.live => /\ Pos >= -Unit
                      /\ ex.at = "place" /\ what[ex.id] # "buy" => Pos >= 0

\* What every order did.
Done == [i \in 1 .. Len(orders) |-> orders[i].done]
AllDone == SumFunctionOnSet(Done, 1 .. Len(orders))

LEMMA DoneTyped ==
  ASSUME orders \in Seq(Order)
  PROVE  /\ IsFiniteSet(1 .. Len(orders)) /\ Done \in [1 .. Len(orders) -> Int]
         /\ \A i \in 1 .. Len(orders) : Done[i] \in Int
<1>1. Len(orders) \in Nat /\ \A i \in 1 .. Len(orders) : orders[i].done \in Int
  BY OrdersRead
<1>2. IsFiniteSet(1 .. Len(orders))
  BY <1>1, FS_Interval
<1> QED
  BY <1>1, <1>2 DEF Done

LEMMA PosIsAll == orders \in Seq(Order) /\ StopsAsk => Pos = AllDone
<1> SUFFICES ASSUME orders \in Seq(Order), StopsAsk PROVE Pos = AllDone
  OBVIOUS
<1> DEFINE S == 1 .. Len(orders)
           T == Filled({"placed", "taken", "booked"})
<1>1. IsFiniteSet(S) /\ \A i \in S : Done[i] \in Int
  BY DoneTyped
<1>2. T \in SUBSET S /\ \A i \in S \ T : Done[i] = 0
  <2>1. \A i \in S : orders[i].at \in OrderAt
    BY OrdersRead
  <2> QED
    BY <2>1 DEF Filled, Done, StopsAsk, OrderAt, Unfilled
<1>3. Pos = SumFunctionOnSet(Done, T)
  BY DEF Pos, Done
<1> HIDE DEF S, T
<1>4. SumFunctionOnSet(Done, S) = SumFunctionOnSet(Done, T)
  BY <1>1, <1>2, SumSkips
<1> QED
  BY <1>3, <1>4 DEF AllDone, S

\* The position moves by what one more order did, by what a stop that fires did, and by
\* nothing else.
LEMMA AllDoneGrows ==
  ASSUME orders \in Seq(Order), orders' \in Seq(Order), Len(orders') = Len(orders) + 1,
         \A i \in 1 .. Len(orders) : orders'[i].done = orders[i].done
  PROVE  AllDone' = AllDone + orders'[Len(orders) + 1].done
<1> DEFINE n == Len(orders)
           S == 1 .. n
           f == [i \in 1 .. Len(orders') |-> orders'[i].done]
<1>0. n \in Nat /\ (1 .. Len(orders')) = S \cup {n + 1} /\ n + 1 \notin S
  <2>1. n \in Nat
    BY OrdersRead
  <2> QED
    BY <2>1
<1>1. IsFiniteSet(S) /\ \A i \in S : Done[i] \in Int
  BY DoneTyped
<1>2. \A i \in 1 .. Len(orders') : f[i] \in Int
  <2>1. \A o \in Order : o.done \in Int
    BY DEF Order
  <2> QED
    BY <2>1
<1>3. \A i \in S : f[i] = Done[i]
  BY <1>0 DEF Done
<1>4. f[n + 1] = orders'[n + 1].done
  BY <1>0
<1>5. AllDone' = SumFunctionOnSet(f, 1 .. Len(orders')) /\ AllDone = SumFunctionOnSet(Done, S)
  BY DEF AllDone, Done
<1> HIDE DEF f, S
<1>6. SumFunctionOnSet(f, S \cup {n + 1}) = SumFunctionOnSet(f, S) + f[n + 1]
  BY <1>0, <1>1, <1>2, SumAdds
<1>7. SumFunctionOnSet(f, S) = SumFunctionOnSet(Done, S)
  BY <1>0, <1>1, <1>3, SumAgrees
<1> QED
  BY <1>0, <1>4, <1>5, <1>6, <1>7

LEMMA OneMoves ==
  ASSUME NEW n \in Nat, NEW f \in [1 .. n -> Int], NEW e \in [1 .. n -> Int], NEW i \in 1 .. n,
         \A j \in 1 .. n : j # i => e[j] = f[j]
  PROVE  SumFunctionOnSet(e, 1 .. n) = SumFunctionOnSet(f, 1 .. n) + e[i] - f[i]
<1> DEFINE S == 1 .. n
<1>1. IsFiniteSet(S)
  BY FS_Interval
<1>2. /\ \A y \in S : f[y] \in Int
      /\ i \in S /\ e[i] \in Int /\ \A y \in S \ {i} : e[y] = f[y]
  OBVIOUS
<1> HIDE DEF S
<1>3. SumFunctionOnSet(e, S) = SumFunctionOnSet(f, S) + e[i] - f[i]
  BY <1>1, <1>2, SumMoves, ZenonT(30)
<1> QED
  BY <1>3 DEF S

LEMMA AllDoneMoves ==
  ASSUME orders \in Seq(Order), orders' \in Seq(Order), Len(orders') = Len(orders),
         NEW i \in 1 .. Len(orders),
         \A j \in 1 .. Len(orders) : j # i => orders'[j].done = orders[j].done
  PROVE  AllDone' = AllDone + orders'[i].done - orders[i].done
<1> DEFINE n == Len(orders)
           f == [j \in 1 .. n |-> orders'[j].done]
<1>1. n \in Nat /\ \A j \in 1 .. n : orders'[j].done \in Int
  <2>1. \A o \in Order : o.done \in Int
    BY DEF Order
  <2> QED
    BY <2>1
<1>2. Done \in [1 .. n -> Int]
  BY DoneTyped
<1>3. f \in [1 .. n -> Int] /\ f[i] = orders'[i].done
  BY <1>1
<1>4. Done[i] = orders[i].done /\ \A j \in 1 .. n : j # i => f[j] = Done[j]
  BY DEF Done
<1>5. AllDone' = SumFunctionOnSet(f, 1 .. n) /\ AllDone = SumFunctionOnSet(Done, 1 .. n) /\ i \in 1 .. n
  BY DEF AllDone, Done
<1> HIDE DEF f, n
<1>6. SumFunctionOnSet(f, 1 .. n) = SumFunctionOnSet(Done, 1 .. n) + f[i] - Done[i]
  BY <1>1, <1>2, <1>3, <1>4, <1>5, OneMoves
<1> QED
  BY <1>3, <1>4, <1>5, <1>6

LEMMA AllDoneSame ==
  ASSUME orders \in Seq(Order), Len(orders') = Len(orders),
         \A j \in 1 .. Len(orders) : orders'[j].done = orders[j].done
  PROVE  AllDone' = AllDone
<1>1. Done' = Done
  BY DEF Done
<1> QED
  BY <1>1 DEF AllDone

\* Dry, the rows show no less than the venue, unless an entry is being recorded.
LEMMA RowsShow ==
  ASSUME orders \in Seq(Order), StopsAsk, DryFills, ~config.live, blind = 0, ex.at # "insert"
  PROVE  Pos <= Net
<1> DEFINE S == 1 .. Len(orders)
           T == Filled({"booked"})
           asked == [i \in 1 .. Len(orders) |-> orders[i].asked]
           shown == [i \in 1 .. Len(orders) |-> IF orders[i].at = "booked" THEN orders[i].asked ELSE 0]
<1>1. IsFiniteSet(S) /\ T \in SUBSET S /\ IsFiniteSet(T) /\ \A i \in S : Done[i] \in Int
  BY DoneTyped, FilledFinite
<1>2. \A i \in S : orders[i].asked \in Int
  BY OrdersRead
<1>3. \A i \in S : asked[i] \in Int /\ shown[i] \in Int
  BY <1>2
<1>4. \A i \in S : Done[i] <= shown[i]
  <2>1. ASSUME NEW i \in S PROVE orders[i].done <= shown[i]
    <3>1. CASE orders[i].at = "booked"
      BY <1>2, <3>1 DEF DryFills
    <3>2. CASE orders[i].at # "booked"
      <4>1. ~(orders[i].done > 0)
        BY <3>2 DEF DryFills
      <4>2. orders[i].done \in Int
        BY OrdersRead
      <4> QED
        BY <3>2, <4>1, <4>2
    <3> QED
      BY <3>1, <3>2
  <2> QED
    BY <2>1 DEF Done
<1>5. (\A i \in T : shown[i] = asked[i]) /\ (\A i \in S \ T : shown[i] = 0)
  BY DEF Filled
<1>6. Pos = SumFunctionOnSet(Done, S) /\ Net = SumFunctionOnSet(asked, T)
  BY PosIsAll DEF AllDone, Net
<1> HIDE DEF S, T, asked, shown
<1>7. SumFunctionOnSet(Done, S) <= SumFunctionOnSet(shown, S)
  BY <1>1, <1>3, <1>4, SumMonotone
<1>8. SumFunctionOnSet(shown, S) = SumFunctionOnSet(shown, T)
  BY <1>1, <1>3, <1>5, SumSkips
<1>9. SumFunctionOnSet(shown, T) = SumFunctionOnSet(asked, T)
  BY <1>1, <1>5, SumAgrees
<1> QED
  BY <1>6, <1>7, <1>8, <1>9

\* What is recorded of an order changes; what it asked and did stays.
Relabels ==
  /\ Len(orders') = Len(orders)
  /\ \A j \in 1 .. Len(orders) :
       /\ orders'[j].at \in Unfilled => orders[j].at \in Unfilled
       /\ orders'[j].asked = orders[j].asked /\ orders'[j].done = orders[j].done

LEMMA OrderSteps ==
  ASSUME TypeOK, Next
  PROVE  \/ UNCHANGED orders
         \/ ExPlace /\ ex.at = "place" /\ Sent(Signed(ex.id), Signed(ex.id), "placed")
         \/ ManualEntry
         \/ PmClose /\ Takes > 0 /\ Sent(-pm.qty, -Takes, "placed")
         \/ (ExInsert \/ PmInsert \/ Reconcile \/ Hidden \/ PmCancel \/ PmStopInsert) /\ Relabels
         \/ \E i \in 1 .. Len(orders) : StopFires(i)
         \/ PmStop /\ Sent(-pm.qty, 0, "loose")
<1>0. orders \in Seq(Order) /\ Len(orders) \in Nat
  BY TypeParts, OrdersRead DEF OrdersTyped
<1>1. ASSUME NEW i, Inserted(i) PROVE Relabels
  <2>1. /\ Len(orders') = Len(orders)
        /\ \A j \in 1 .. Len(orders) :
              /\ orders'[j].at = orders[j].at \/ (j = i /\ orders'[j].at \in {"taken", "booked"})
              /\ orders'[j].asked = orders[j].asked /\ orders'[j].done = orders[j].done
    BY <1>0, <1>1, Inserts
  <2> QED
    BY <2>1 DEF Relabels, Unfilled
<1>2. ASSUME NEW i, NEW at \in OrderAt, orders' = [orders EXCEPT ![i].at = at],
             at \notin Unfilled \/ (i \in 1 .. Len(orders) => orders[i].at \in Unfilled)
      PROVE  Relabels
  <2>1. /\ Len(orders') = Len(orders)
        /\ \A j \in 1 .. Len(orders) :
             /\ orders'[j].at = IF j = i THEN at ELSE orders[j].at
             /\ orders'[j].asked = orders[j].asked /\ orders'[j].done = orders[j].done
    BY <1>0, <1>2, OrderRelabelled
  <2> QED
    BY <1>2, <2>1 DEF Relabels
<1>7. CASE Reconcile \/ Hidden
  <2>1. PICK i \in 1 .. Len(orders), at \in {"placed", "booked"} : orders' = [orders EXCEPT ![i].at = at]
    BY <1>7 DEF Reconcile, Hidden
  <2>2. at \in OrderAt /\ at \notin Unfilled
    BY DEF OrderAt, Unfilled
  <2> QED
    BY <1>2, <1>7, <2>1, <2>2
<1>8. CASE PmCancel
  <2>1. UNCHANGED orders \/ (orders' = [orders EXCEPT ![cid].at = "void"] /\ cid \in Resting)
    BY <1>8 DEF PmCancel, Replaced
  <2>2. "void" \in OrderAt /\ (cid \in Resting => orders[cid].at \in Unfilled)
    BY DEF OrderAt, Resting, Filled, Unfilled
  <2> QED
    BY <1>2, <1>8, <2>1, <2>2
<1>9. CASE PmStopInsert
  <2>1. /\ Len(orders') = Len(orders)
        /\ \A j \in 1 .. Len(orders) :
             /\ \/ orders'[j].at = orders[j].at
                \/ orders'[j].at = IF orders[j].at = "loose" THEN "resting" ELSE "taken"
             /\ orders'[j].asked = orders[j].asked /\ orders'[j].done = orders[j].done
    BY <1>0, <1>9, StopBooked
  <2> QED
    BY <1>9, <2>1 DEF Relabels, Unfilled
<1>3. CASE ExStep
  BY <1>1, <1>3 DEF ExStep, ExFetch, ExLook, ExPlace, ExInsert, ExMarkChild, ExMarkParent, venueVars
<1>4. CASE PmStep
  <2>1. CASE PmBooks \/ PmFetch \/ PmMarkChild \/ PmMarkParent \/ PmOutcome \/ PmTrail \/ PmLook
    BY <2>1 DEF PmBooks, PmFetch, PmMarkChild, PmMarkParent, PmOutcome, PmTrail, PmLook, venueVars
  <2>2. CASE PmClose \/ PmInsert \/ PmStop
    BY <1>1, <2>2 DEF PmClose, PmInsert, PmStop
  <2> QED
    BY <1>4, <1>8, <1>9, <2>1, <2>2 DEF PmStep
<1>5. CASE RowStep
  BY <1>5 DEF RowStep, SweepStep, InsertDecision, InsertChild, AutoApprove, Age, AdminVerdict, Expire,
     venueVars
<1>6. CASE OutsideStep
  BY <1>6, <1>7 DEF OutsideStep, Market, Switch, Crash, venueVars
<1> QED
  BY <1>3, <1>4, <1>5, <1>6, NextParts

LEMMA SignedTyped == \A d \in Ids \cup {0} : Signed(d) \in {Unit, -Unit} /\ Signed(d) \in Int
BY DeskAssumption DEF Signed

LEMMA TakesTyped ==
  ASSUME TypeOK
  PROVE  pm.qty \in Nat /\ Takes \in Int /\ Pos \in Int /\ Net \in Int
         /\ (config.live => Takes <= Pos) /\ (~config.live => Takes = pm.qty)
<1>1. pm.qty \in Nat /\ Pos \in Int /\ Net \in Int
  BY TypeParts, PositionTyped DEF HandsTyped, PmHands, OrdersTyped
<1> QED
  BY <1>1 DEF Takes, Least

LEMMA StopsAskStay ==
  ASSUME TypeOK, StopsAsk, Next
  PROVE  StopsAsk'
<1>0. orders \in Seq(Order) /\ Len(orders) \in Nat /\ pm.qty \in Nat
  BY TypeParts, OrdersRead, TakesTyped DEF OrdersTyped
<1>1. ASSUME NEW asked \in Int, NEW done \in Int, NEW at \in {"placed", "booked"}, Sent(asked, done, at)
      PROVE  StopsAsk'
  <2>1. at \in OrderAt
    BY <1>1 DEF OrderAt
  <2>2. /\ Len(orders') = Len(orders) + 1 /\ \A j \in 1 .. Len(orders) : orders'[j] = orders[j]
        /\ orders'[Len(orders) + 1] = [asked |-> asked, done |-> done, at |-> at]
    BY <1>0, <1>1, <2>1, Sends
  <2>3. ASSUME NEW j \in 1 .. Len(orders'), orders'[j].at \in Unfilled
        PROVE  j \in 1 .. Len(orders)
    BY <1>0, <1>1, <2>2, <2>3 DEF Unfilled
  <2> QED
    BY <2>2, <2>3 DEF StopsAsk
<1>2. CASE UNCHANGED orders
  BY <1>2 DEF StopsAsk
<1>3. CASE ExPlace /\ Sent(Signed(ex.id), Signed(ex.id), "placed")
  BY <1>1, <1>3, SignedTyped, TypeParts DEF HandsTyped, ExHands
<1>4. CASE ManualEntry
  BY <1>1, <1>4, DeskAssumption DEF ManualEntry
<1>5. CASE PmClose /\ Sent(-pm.qty, -Takes, "placed")
  BY <1>1, <1>5, TakesTyped
<1>6. CASE Relabels
  BY <1>6 DEF Relabels, StopsAsk
<1>7. ASSUME NEW i \in 1 .. Len(orders), StopFires(i) PROVE StopsAsk'
  <2>1. /\ Len(orders') = Len(orders)
        /\ \A j \in 1 .. Len(orders) :
             orders'[j] = IF j = i
                          THEN [asked |-> orders[i].asked, done |-> -Least(-orders[i].asked, Pos),
                                at |-> IF orders[i].at = "resting" THEN "taken" ELSE "placed"]
                          ELSE orders[j]
    BY <1>0, <1>7, StopFills
  <2>2. orders'[i].at \notin Unfilled /\ \A j \in 1 .. Len(orders) : j # i => orders'[j] = orders[j]
    BY <2>1 DEF Unfilled
  <2> QED
    BY <2>1, <2>2 DEF StopsAsk
<1>8. CASE PmStop /\ Sent(-pm.qty, 0, "loose")
  <2>1. -pm.qty \in Int /\ 0 \in Int /\ "loose" \in OrderAt /\ -pm.qty <= 0
    BY <1>0 DEF OrderAt
  <2>2. /\ Len(orders') = Len(orders) + 1 /\ \A j \in 1 .. Len(orders) : orders'[j] = orders[j]
        /\ orders'[Len(orders) + 1] = [asked |-> -pm.qty, done |-> 0, at |-> "loose"]
    <3>1. ASSUME NEW asked \in Int, NEW done \in Int, NEW at \in OrderAt, Sent(asked, done, at)
          PROVE  /\ Len(orders') = Len(orders) + 1 /\ \A j \in 1 .. Len(orders) : orders'[j] = orders[j]
                 /\ orders'[Len(orders) + 1] = [asked |-> asked, done |-> done, at |-> at]
      BY <1>0, <3>1, Sends
    <3> QED
      BY <1>8, <2>1, <3>1
  <2>3. \A j \in 1 .. Len(orders') : j \in 1 .. Len(orders) \/ j = Len(orders) + 1
    BY <1>0, <2>2
  <2>4. orders'[Len(orders) + 1].done = 0 /\ orders'[Len(orders) + 1].asked <= 0
    BY <2>1, <2>2
  <2> QED
    BY <2>2, <2>3, <2>4 DEF StopsAsk
<1> QED
  BY <1>2, <1>3, <1>4, <1>5, <1>6, <1>7, <1>8, OrderSteps

\* What hides the position is never undone.
LEMMA BlindGrows ==
  ASSUME TypeOK, Next
  PROVE  /\ blind' \in {blind, blind + 1} /\ (blind' = 0 => blind = 0) /\ (Fine => blind' = blind)
         /\ \A k : Blinding(k) => blind' # 0
<1>0. blind \in Nat /\ faults \in Nat /\ RowsTyped
  BY TypeParts DEF CountsTyped
<1>2. blind' = blind \/ \E k : Blinding(k)
  <2>1. CASE RowStep
    BY <1>0, <2>1, FaultsCount DEF RowStep, SweepStep, InsertDecision, InsertChild, AutoApprove, Age,
       AdminVerdict, Expire
  <2>2. CASE OutsideStep
    BY <1>0, <2>2, FaultsCount
       DEF OutsideStep, StopFires, Reconcile, Hidden, ManualEntry, Market, Switch, Crash
  <2>3. CASE ExStep
    BY <1>0, <2>3, FaultsCount
       DEF ExStep, ExFetch, ExLook, ExPlace, ExInsert, ExMarkChild, ExMarkParent
  <2>4. CASE PmStep
    BY <1>0, <2>4, FaultsCount
       DEF PmStep, PmBooks, PmFetch, PmMarkChild, PmMarkParent, PmClose, PmInsert, PmOutcome, PmTrail,
           PmLook, PmCancel, PmStop, PmStopInsert
  <2> QED
    BY <2>1, <2>2, <2>3, <2>4, NextParts
<1> QED
  BY <1>0, <1>2, FaultsCount

\* What DryFills says of an order.
DryOrder(i) ==
  /\ orders[i].at \in {"placed", "booked"} /\ orders[i].asked = orders[i].done
  /\ blind = 0 /\ orders[i].at = "placed" /\ orders[i].done > 0 => ex.at = "insert" /\ i = ex.order

LEMMA DryFillsStay ==
  ASSUME TypeOK, DryFills, Next
  PROVE  DryFills'
<1>0. /\ RowsTyped /\ orders \in Seq(Order) /\ Len(orders) \in Nat /\ pm \in PmHands /\ ex \in ExHands
      /\ pm.qty \in Nat /\ blind \in Nat /\ faults \in Nat /\ Signed(ex.id) \in Int
      /\ ex.order \in 0 .. Len(orders)
  BY TypeParts, OrdersRead, TakesTyped, SignedTyped DEF OrdersTyped, HandsTyped, CountsTyped, ExHands
<1>1. config' = config
  BY NextParts DEF RowStep, SweepStep, InsertDecision, InsertChild, AutoApprove, Age, AdminVerdict, Expire,
     OutsideStep, StopFires, Reconcile, Hidden, ManualEntry, Market, Switch, Crash, ExStep, ExFetch, ExLook,
     ExPlace, ExInsert, ExMarkChild, ExMarkParent, PmStep, PmBooks, PmFetch, PmMarkChild, PmMarkParent,
     PmClose, PmInsert, PmOutcome, PmTrail, PmLook, PmCancel, PmStop, PmStopInsert
<1> DEFINE Live == StopStages \cup {"trail"}
<1>2. ~config.live => pm.at \notin Live /\ \A i \in 1 .. Len(orders) : DryOrder(i)
  BY DEF DryFills, DryOrder
<1>3. ASSUME ~config.live PROVE pm'.at \notin Live
  <2>1. ASSUME PmFetch PROVE pm'.at \notin Live
    BY <1>0, <1>3, <2>1, PmFetched, IdleTyped DEF Trailing, StopStages
  <2>2. ASSUME PmMarkChild \/ PmMarkParent \/ PmClose \/ PmInsert \/ PmOutcome \/ PmBooks \/ Crash
        PROVE  pm'.at \notin Live
    <3>1. PmBooks => pm'.at = "fetch"
      BY <1>0, IdleTyped DEF PmBooks, PmHands
    <3> QED
      BY <1>0, <2>2, <3>1, PmMoves, IdleTyped DEF Goes, Crash, StopStages
  <2>3. pm' = pm \/ Crash \/ PmStep
    BY NextParts DEF RowStep, SweepStep, InsertDecision, InsertChild, AutoApprove, Age, AdminVerdict, Expire,
       OutsideStep, StopFires, Reconcile, Hidden, ManualEntry, Market, Switch, ExStep, ExFetch, ExLook,
       ExPlace, ExInsert, ExMarkChild, ExMarkParent
  <2>4. ~PmTrail /\ ~PmLook /\ ~PmCancel /\ ~PmStop /\ ~PmStopInsert
    BY <1>2, <1>3 DEF PmTrail, PmLook, PmCancel, PmStop, PmStopInsert, StopStages
  <2> QED
    BY <1>2, <1>3, <2>1, <2>2, <2>3, <2>4 DEF PmStep
<1>4. SUFFICES ASSUME ~config.live, \A i \in 1 .. Len(orders) : DryOrder(i), pm.at \notin Live
               PROVE  \A i \in 1 .. Len(orders') : DryOrder(i)'
  BY <1>1, <1>2, <1>3 DEF DryFills, DryOrder
<1>5. ASSUME NEW asked \in Int, NEW done \in Int, NEW at \in {"placed", "booked"}, Sent(asked, done, at),
             asked = done, at = "placed" /\ done > 0 => ex'.at = "insert" /\ ex'.order = Len(orders) + 1,
             ex' = ex \/ ex.at # "insert"
      PROVE  \A i \in 1 .. Len(orders') : DryOrder(i)'
  <2>1. at \in OrderAt
    BY <1>5 DEF OrderAt
  <2>2. /\ Len(orders') = Len(orders) + 1 /\ \A j \in 1 .. Len(orders) : orders'[j] = orders[j]
        /\ orders'[Len(orders) + 1] = [asked |-> asked, done |-> done, at |-> at]
    BY <1>0, <1>5, <2>1, Sends
  <2>3. \A i \in 1 .. Len(orders') : i \in 1 .. Len(orders) \/ i = Len(orders) + 1
    BY <1>0, <2>2
  <2>4. \A i \in 1 .. Len(orders) : DryOrder(i)'
    BY <1>4, <1>5, <2>2, BlindGrows DEF DryOrder
  <2>5. ASSUME NEW n, n = Len(orders) + 1 PROVE DryOrder(n)'
    <3>1. orders'[n].at = at /\ orders'[n].asked = asked /\ orders'[n].done = done
      BY <2>2, <2>5
    <3> QED
      BY <1>5, <2>5, <3>1 DEF DryOrder
  <2> QED
    BY <2>3, <2>4, <2>5
<1>6. CASE ExPlace /\ ~UNCHANGED orders
  <2>1. /\ ex.at = "place" /\ Sent(Signed(ex.id), Signed(ex.id), "placed")
        /\ ex' = [ex EXCEPT !.at = "insert", !.order = Len(orders) + 1]
    BY <1>4, <1>6 DEF ExPlace
  <2>2. ex'.at = "insert" /\ ex'.order = Len(orders) + 1
    BY <1>0, <2>1 DEF ExHands
  <2> QED
    BY <1>0, <1>5, <2>1, <2>2
<1>7. CASE ManualEntry
  BY <1>5, <1>7, DeskAssumption DEF ManualEntry
<1>8. CASE PmClose /\ ~UNCHANGED orders
  <2>1. Sent(-pm.qty, -pm.qty, "placed") /\ pm.qty > 0 /\ ex' = ex
    BY <1>4, <1>8, TakesTyped DEF PmClose
  <2>2. -pm.qty \in Int /\ ~(-pm.qty > 0)
    BY <1>0
  <2> QED
    BY <1>5, <2>1, <2>2
<1>9. ASSUME NEW i, Inserted(i), ex' = ex \/ i = ex.order
      PROVE  \A j \in 1 .. Len(orders') : DryOrder(j)'
  <2>1. /\ Len(orders') = Len(orders)
        /\ \A j \in 1 .. Len(orders) :
              /\ orders'[j].at = orders[j].at \/ (j = i /\ orders'[j].at \in {"taken", "booked"})
              /\ orders'[j].asked = orders[j].asked /\ orders'[j].done = orders[j].done
        /\ i \in 1 .. Len(orders) => orders'[i].at = "booked"
    BY <1>0, <1>4, <1>9, Inserts
  <2>2. ASSUME NEW j \in 1 .. Len(orders) PROVE DryOrder(j)'
    <3>1. CASE j = i
      BY <1>4, <2>1, <2>2, <3>1 DEF DryOrder
    <3>2. CASE j # i
      <4>1. orders'[j].at = orders[j].at /\ DryOrder(j)
        BY <1>4, <2>1, <3>2
      <4> QED
        BY <1>9, <2>1, <3>2, <4>1, BlindGrows DEF DryOrder
    <3> QED
      BY <3>1, <3>2
  <2> QED
    BY <2>1, <2>2
<1>10. CASE UNCHANGED orders /\ (ex' = ex \/ ex.at # "insert" \/ blind' # 0)
  <2>1. ASSUME NEW j \in 1 .. Len(orders) PROVE DryOrder(j)'
    BY <1>4, <1>10, BlindGrows DEF DryOrder
  <2> QED
    BY <1>10, <2>1
<1>11. CASE ExInsert
  <2>1. Inserted(ex.order) \/ (UNCHANGED orders /\ Blinding("insert"))
    BY <1>11 DEF ExInsert
  <2> QED
    BY <1>9, <1>10, <2>1, BlindGrows
<1>12. CASE PmInsert
  <2>1. Inserted(pm.order) \/ UNCHANGED orders
    BY <1>12 DEF PmInsert
  <2>2. ex' = ex
    BY <1>12 DEF PmInsert
  <2> QED
    BY <1>9, <1>10, <2>1, <2>2
<1>13. /\ ~Reconcile /\ ~Hidden /\ ~PmCancel /\ ~PmStop /\ ~PmStopInsert
       /\ \A i \in 1 .. Len(orders) : ~StopFires(i)
  BY <1>4 DEF Reconcile, Hidden, PmCancel, PmStop, PmStopInsert, StopFires, Resting, Filled, DryOrder,
              StopStages
<1>14. \/ ExPlace /\ ~UNCHANGED orders
       \/ PmClose /\ ~UNCHANGED orders
       \/ ManualEntry \/ ExInsert \/ PmInsert
       \/ UNCHANGED orders /\ (ex' = ex \/ ex.at # "insert" \/ blind' # 0)
  <2>1. CASE UNCHANGED orders
    <3>1. ex' = ex \/ ex.at # "insert" \/ ExInsert \/ Blinding("crash")
      BY NextParts, IdleTyped DEF RowStep, SweepStep, InsertDecision, InsertChild, AutoApprove, Age, AdminVerdict,
         Expire, OutsideStep, StopFires, Reconcile, Hidden, ManualEntry, Market, Switch, Crash, ExStep,
         ExFetch, ExLook, ExPlace, ExMarkChild, ExMarkParent, PmStep, PmBooks, PmFetch, PmMarkChild,
         PmMarkParent, PmClose, PmInsert, PmOutcome, PmTrail, PmLook, PmCancel, PmStop, PmStopInsert
    <3> QED
      BY <2>1, <3>1, BlindGrows
  <2>2. CASE ~UNCHANGED orders
    BY <1>13, <2>2, OrderSteps
  <2> QED
    BY <2>1, <2>2
<1> QED
  BY <1>6, <1>7, <1>8, <1>10, <1>11, <1>12, <1>14

\* How a step moves the position.
LEMMA PosSteps ==
  ASSUME TypeOK, orders' \in Seq(Order), StopsAsk, StopsAsk', Next
  PROVE  \/ Pos' = Pos /\ ~ManualEntry
         \/ ExPlace /\ ex.at = "place" /\ Pos' = Pos + Signed(ex.id)
         \/ ManualEntry /\ Pos' = Pos + Unit
         \/ PmClose /\ Takes > 0 /\ Pos' = Pos - Takes
         \/ (\E i \in 1 .. Len(orders) : StopFires(i)) /\ Pos' >= 0 /\ Pos' <= Pos
<1>0. /\ orders \in Seq(Order) /\ Len(orders) \in Nat /\ Signed(ex.id) \in Int
      /\ pm.qty \in Nat /\ Takes \in Int /\ Pos \in Int
  BY TypeParts, OrdersRead, TakesTyped, SignedTyped DEF OrdersTyped, HandsTyped, ExHands
<1>1. Pos = AllDone /\ Pos' = AllDone'
  <2>1. Pos = AllDone
    BY <1>0, PosIsAll
  <2>2. Pos' = AllDone'
    <3>1. (orders \in Seq(Order) /\ StopsAsk => Pos = AllDone)'
      BY PosIsAll, PTL
    <3> QED
      BY <3>1
  <2> QED
    BY <2>1, <2>2
<1>2. ASSUME NEW asked \in Int, NEW done \in Int, NEW at \in OrderAt, Sent(asked, done, at)
      PROVE  Pos' = Pos + done
  <2>1. /\ Len(orders') = Len(orders) + 1 /\ \A j \in 1 .. Len(orders) : orders'[j] = orders[j]
        /\ orders'[Len(orders) + 1] = [asked |-> asked, done |-> done, at |-> at]
    BY <1>0, <1>2, Sends
  <2>2. orders'[Len(orders) + 1].done = done
    BY <2>1
  <2>3. AllDone' = AllDone + orders'[Len(orders) + 1].done
    BY <1>0, <2>1, AllDoneGrows
  <2> QED
    BY <1>1, <2>2, <2>3
<1>3. "placed" \in OrderAt /\ "booked" \in OrderAt
  BY DEF OrderAt
<1>a. ManualEntry => Pos' = Pos + Unit /\ Pos' # Pos
  <2>1. ManualEntry => Pos' = Pos + Unit
    BY <1>2, <1>3, DeskAssumption DEF ManualEntry
  <2> QED
    BY <1>0, <2>1, DeskAssumption
<1>4. CASE UNCHANGED orders
  <2>1. Pos' = Pos
    BY <1>4 DEF Pos, Filled
  <2> QED
    BY <1>a, <2>1
<1>5. CASE ExPlace /\ ex.at = "place" /\ Sent(Signed(ex.id), Signed(ex.id), "placed")
  BY <1>0, <1>2, <1>3, <1>5
<1>6. CASE ManualEntry
  BY <1>6, <1>a
<1>7. CASE PmClose /\ Takes > 0 /\ Sent(-pm.qty, -Takes, "placed")
  <2>1. Pos' = Pos + (-Takes)
    BY <1>0, <1>2, <1>3, <1>7
  <2> QED
    BY <1>0, <1>7, <2>1
<1>8. CASE (ExInsert \/ PmInsert \/ Reconcile \/ Hidden \/ PmCancel \/ PmStopInsert) /\ Relabels
  <2>1. AllDone' = AllDone
    BY <1>0, <1>8, AllDoneSame DEF Relabels
  <2> QED
    BY <1>1, <1>a, <2>1
<1>9. ASSUME NEW i \in 1 .. Len(orders), StopFires(i) PROVE Pos' >= 0 /\ Pos' <= Pos
  <2> DEFINE fill == -Least(-orders[i].asked, Pos)
             to == IF orders[i].at = "resting" THEN "taken" ELSE "placed"
             o == [asked |-> orders[i].asked, done |-> fill, at |-> to]
  <2>1. /\ fill \in Int /\ Len(orders') = Len(orders)
        /\ \A j \in 1 .. Len(orders) : orders'[j] = IF j = i THEN o ELSE orders[j]
    BY <1>0, <1>9, StopFills
  <2>2. orders'[i].done = fill /\ \A j \in 1 .. Len(orders) : j # i => orders'[j].done = orders[j].done
    BY <2>1
  <2>3. Pos > 0 /\ orders[i].done = 0 /\ orders[i].asked <= 0 /\ orders[i].asked \in Int
    BY <1>0, <1>9, OrdersRead DEF StopFires, Resting, Filled, StopsAsk, Unfilled
  <2>4. fill <= 0 /\ fill >= -Pos
    BY <1>0, <2>3 DEF Least
  <2> HIDE DEF fill, to, o
  <2>5. AllDone' = AllDone + fill - 0
    BY <1>0, <2>1, <2>2, <2>3, AllDoneMoves
  <2> QED
    BY <1>0, <1>1, <2>1, <2>4, <2>5
<1>10. CASE PmStop /\ Sent(-pm.qty, 0, "loose")
  <2>1. -pm.qty \in Int /\ 0 \in Int /\ "loose" \in OrderAt
    BY <1>0 DEF OrderAt
  <2>2. Pos' = Pos + 0
    BY <1>2, <1>10, <2>1
  <2> QED
    BY <1>0, <1>a, <2>2
<1> QED
  BY <1>4, <1>5, <1>6, <1>7, <1>8, <1>9, <1>10, OrderSteps

\* What is being entered is a decision.
EntersOne == ex.at \in {"look", "place"} => ex.id \in Ids

LEMMA EntersOneStays ==
  ASSUME TypeOK, EntersOne, Next
  PROVE  EntersOne'
<1>0. ex \in ExHands
  BY TypeParts DEF HandsTyped
<1>1. CASE ex' = ex
  BY <1>1 DEF EntersOne
<1>2. CASE Crash \/ ExMarkChild \/ ExMarkParent \/ ExInsert \/ ExPlace
  <2>1. ex'.at \in {"idle", "applied", "insert", "failed"}
    BY <1>0, <1>2, IdleTyped DEF Crash, ExMarkChild, ExMarkParent, ExInsert, ExPlace, ExHands
  <2> QED
    BY <2>1 DEF EntersOne
<1>3. CASE ExFetch
  <2>1. NewestApproved(Tactical) \in Ids
    BY <1>3, ApprovedFound DEF ExFetch
  <2>2. ex'.id = NewestApproved(Tactical)
    BY <1>3, IdleTyped DEF ExFetch, ExHands
  <2> QED
    BY <2>1, <2>2 DEF EntersOne
<1>4. CASE ExLook
  <2>1. ex' = NoEx \/ (ex'.id = ex.id /\ ex.at = "look")
    BY <1>0, <1>4 DEF ExLook, ExHands
  <2> QED
    BY <2>1, IdleTyped DEF EntersOne
<1> QED
  BY <1>1, <1>2, <1>3, <1>4, NextParts
     DEF RowStep, SweepStep, InsertDecision, InsertChild, AutoApprove, Age, AdminVerdict, Expire,
         OutsideStep, StopFires, Reconcile, Hidden, ManualEntry, Market, Switch, ExStep, PmStep, PmBooks,
         PmFetch, PmMarkChild, PmMarkParent, PmClose, PmInsert, PmOutcome, PmTrail, PmLook, PmCancel,
         PmStop, PmStopInsert

LEMMA StacksStay ==
  ASSUME TypeOK, Verdicts, StopsAsk, StopsAsk', DryFills, EntersOne, Stacks, orders' \in Seq(Order), Next
  PROVE  Stacks'
<1>0. /\ orders \in Seq(Order) /\ Unit \in Nat /\ Unit >= 2 /\ manual \in Nat /\ Unit * manual \in Nat
      /\ Pos \in Int /\ Net \in Int /\ Takes \in Int /\ ex \in ExHands /\ blind \in Nat /\ faults \in Nat
      /\ config' = config
  BY TypeParts, TakesTyped, WhatStays, DeskAssumption DEF OrdersTyped, CountsTyped, HandsTyped
<1>1. Pos' \in Int
  <2>1. (orders \in Seq(Order) => Pos \in Int)'
    BY PositionTyped, PTL
  <2> QED
    BY <2>1
<1>2. SUFFICES ASSUME blind' = 0
               PROVE  /\ Pos' <= Unit + Unit * manual'
                      /\ ex'.at = "place" /\ what'[ex'.id] = "buy" => Pos' <= Unit * manual'
                      /\ config.live => /\ Pos' >= -Unit
                                        /\ ex'.at = "place" /\ what'[ex'.id] # "buy" => Pos' >= 0
  BY <1>0 DEF Stacks
<1>3. /\ blind = 0 /\ Pos <= Unit + Unit * manual
      /\ ex.at = "place" /\ what[ex.id] = "buy" => Pos <= Unit * manual
      /\ config.live => /\ Pos >= -Unit
                        /\ ex.at = "place" /\ what[ex.id] # "buy" => Pos >= 0
  BY <1>2, BlindGrows DEF Stacks
<1>4. manual' = manual \/ ManualEntry
  BY NextParts DEF RowStep, SweepStep, InsertDecision, InsertChild, AutoApprove, Age, AdminVerdict, Expire,
     OutsideStep, StopFires, Reconcile, Hidden, Market, Switch, Crash, ExStep, ExFetch, ExLook, ExPlace,
     ExInsert, ExMarkChild, ExMarkParent, PmStep, PmBooks, PmFetch, PmMarkChild, PmMarkParent, PmClose,
     PmInsert, PmOutcome, PmTrail, PmLook, PmCancel, PmStop, PmStopInsert, ghosts
<1>5. ManualEntry => manual' = manual + 1 /\ Unit * manual' = Unit * manual + Unit
  <2>1. ManualEntry => manual' = manual + 1
    BY DEF ManualEntry
  <2>2. Unit * (manual + 1) = Unit * manual + Unit
    BY <1>0
  <2> QED
    BY <2>1, <2>2
\* What is about to be placed was decided on, or has just been looked at.
<1>6. CASE ExLook
  <2>1. \/ ex' = NoEx
        \/ /\ ex'.id = ex.id /\ what' = what
           /\ \E seen \in {Pos, Net} : /\ ~AlreadyIn(ex.id, seen)
                                       /\ config.live => seen = Pos
                                       /\ ~config.live => seen = Net
    <3>1. PICK seen \in {Pos, Net} :
            /\ config.live => seen = Pos \/ Blinding("risk")
            /\ ~config.live => seen = Net
            /\ ex' = IF AlreadyIn(ex.id, seen) THEN NoEx ELSE [ex EXCEPT !.at = "place"]
      BY <1>6 DEF ExLook
    <3>2. ~Blinding("risk") /\ what' = what
      BY <1>2, <1>6, BlindGrows DEF ExLook, rowVars
    <3>3. ~AlreadyIn(ex.id, seen) => ex'.id = ex.id
      BY <1>0, <3>1 DEF ExHands
    <3> QED
      BY <3>1, <3>2, <3>3
  <2>2. Pos' = Pos /\ manual' = manual /\ ex.at = "look"
    BY <1>6 DEF ExLook, venueVars, ghosts, Pos, Filled
  <2>3. ~config.live => Pos <= Net
    BY <1>0, <1>3, <2>2, RowsShow
  <2>4. CASE ex' = NoEx
    BY <1>0, <1>3, <2>2, <2>4, IdleTyped
  <2>5. CASE ex' # NoEx
    <3>1. ex'.id = ex.id /\ what' = what
      BY <2>1, <2>5
    <3>2. PICK seen \in {Pos, Net} : /\ ~AlreadyIn(ex.id, seen)
                                     /\ config.live => seen = Pos
                                     /\ ~config.live => seen = Net
      BY <2>1, <2>5
    <3>3. Pos <= seen /\ seen \in Int /\ (config.live => Pos = seen)
      BY <1>0, <2>3, <3>2
    <3>4. (what[ex.id] = "buy" => seen <= 0) /\ (what[ex.id] # "buy" => seen >= 0)
      BY <3>2, <3>3 DEF AlreadyIn
    <3>5. (what[ex.id] = "buy" => Pos <= 0) /\ (config.live /\ what[ex.id] # "buy" => Pos >= 0)
      BY <1>0, <3>3, <3>4
    <3> QED
      BY <1>0, <1>3, <2>2, <3>1, <3>5
  <2> QED
    BY <2>4, <2>5
<1>7. CASE ~ExLook
  <2>1. ex'.at = "place" => ex' = ex /\ ex.at = "place"
    <3>1. ex' = ex \/ Crash \/ ExStep
      BY NextParts DEF RowStep, SweepStep, InsertDecision, InsertChild, AutoApprove, Age, AdminVerdict, Expire,
         OutsideStep, StopFires, Reconcile, Hidden, ManualEntry, Market, Switch, PmStep, PmBooks, PmFetch,
         PmMarkChild, PmMarkParent, PmClose, PmInsert, PmOutcome, PmTrail, PmLook, PmCancel, PmStop,
         PmStopInsert
    <3>2. Crash \/ (ExStep /\ ~ExLook) => ex'.at # "place"
      BY <1>0, IdleTyped DEF Crash, ExStep, ExFetch, ExPlace, ExInsert, ExMarkChild, ExMarkParent, ExHands
    <3> QED
      BY <1>7, <3>1, <3>2
  <2>2. ex'.at = "place" => what'[ex'.id] = what[ex.id]
    <3>1. ASSUME ex'.at = "place" PROVE what'[ex.id] = what[ex.id]
      <4>1. ex.id \in Ids
        BY <2>1, <3>1 DEF EntersOne
      <4>2. child[ex.id] # "absent"
        BY <4>1 DEF Verdicts, Approvals, Hands, Approved
      <4> QED
        BY <4>1, <4>2, WhatStays DEF Verdicts, Unwritten
    <3> QED
      BY <2>1, <3>1
  <2>3. CASE Pos' = Pos /\ ~ManualEntry
    BY <1>3, <1>4, <2>1, <2>2, <2>3
  <2>4. CASE ExPlace /\ ex.at = "place" /\ Pos' = Pos + Signed(ex.id)
    <3>1. ex'.at # "place" /\ manual' = manual
      BY <1>0, <2>4, IdleTyped DEF ExPlace, ExHands
    <3>2. CASE what[ex.id] = "buy"
      BY <1>0, <1>3, <2>4, <3>1, <3>2 DEF Signed
    <3>3. CASE what[ex.id] # "buy"
      BY <1>0, <1>3, <2>4, <3>1, <3>3 DEF Signed
    <3> QED
      BY <3>2, <3>3
  <2>5. CASE ManualEntry /\ Pos' = Pos + Unit
    BY <1>0, <1>1, <1>3, <1>5, <2>1, <2>2, <2>5
  <2>6. CASE PmClose /\ Takes > 0 /\ Pos' = Pos - Takes
    <3>1. manual' = manual /\ Pos' <= Pos /\ (config.live => Pos' >= 0)
      <4>1. manual' = manual
        BY <2>6 DEF PmClose
      <4> QED
        BY <1>0, <2>6, <4>1, TakesTyped
    <3> QED
      BY <1>0, <1>1, <1>3, <2>1, <2>2, <3>1
  <2>7. CASE (\E i \in 1 .. Len(orders) : StopFires(i)) /\ Pos' >= 0 /\ Pos' <= Pos
    <3>1. manual' = manual
      BY <2>7 DEF StopFires, ghosts
    <3> QED
      BY <1>0, <1>1, <1>3, <2>1, <2>2, <2>7, <3>1
  <2> QED
    BY <2>3, <2>4, <2>5, <2>6, <2>7, PosSteps
<1> QED
  BY <1>6, <1>7

StackParts == StopsAsk /\ DryFills /\ EntersOne /\ Stacks

LEMMA StartsFlat ==
  ASSUME Init
  PROVE  StackParts
<1>1. Len(orders) = 0 /\ ex.at = "idle" /\ pm.at = "idle" /\ manual = 0 /\ Unit \in Nat
  BY IdleTyped, DeskAssumption DEF Init
<1>2. StopsAsk /\ DryFills /\ EntersOne
  BY <1>1 DEF StopsAsk, DryFills, EntersOne, StopStages
<1>3. Pos = 0
  <2>1. Filled({"placed", "taken", "booked"}) = {}
    BY <1>1 DEF Filled
  <2> QED
    BY <2>1, SumEmpty DEF Pos
<1>4. Unit * manual = 0
  BY <1>1
<1> QED
  BY <1>1, <1>2, <1>3, <1>4 DEF StackParts, Stacks

\* While no failure hides the position, entries do not stack on one another and, live, a close
\* does not turn the position around, however the loops, the fills and the hand interleave.
THEOREM NoStackingHolds == Spec => []NoStacking
<1>1. Init => SweepsHold /\ Verdicts /\ StackParts
  <2>1. ASSUME Init PROVE SweepsHold /\ Verdicts
    BY <2>1, VerdictsStart
  <2> QED
    BY <2>1, StartsFlat
<1>2. TypeOK /\ TypeOK' /\ SweepsHold /\ Verdicts /\ StackParts /\ [Next]_vars
        => SweepsHold' /\ Verdicts' /\ StackParts'
  <2>1. ASSUME TypeOK, TypeOK', SweepsHold, Verdicts, StackParts, Next
        PROVE  SweepsHold' /\ Verdicts' /\ StackParts'
    <3>1. SweepsHold' /\ Verdicts'
      BY <2>1, VerdictsStay
    <3>2. StopsAsk' /\ DryFills' /\ EntersOne'
      BY <2>1, StopsAskStay, DryFillsStay, EntersOneStays DEF StackParts
    <3>3. orders' \in Seq(Order)
      BY <2>1 DEF TypeOK
    <3>4. Stacks'
      BY <2>1, <3>2, <3>3, StacksStay DEF StackParts
    <3> QED
      BY <3>1, <3>2, <3>4 DEF StackParts
  <2>2. ASSUME TypeOK, SweepsHold, Verdicts, StackParts, UNCHANGED vars
        PROVE  SweepsHold' /\ Verdicts' /\ StackParts'
    BY <2>2, VerdictsStay DEF vars, rowVars, venueVars, ghosts, failVars, StackParts, StopsAsk, DryFills,
                              EntersOne, Stacks, Pos, Filled
  <2> QED
    BY <2>1, <2>2
<1>3. TypeOK /\ StackParts => NoStacking
  <2>1. ASSUME TypeOK, StackParts PROVE NoStacking
    <3>1. Unit * (1 + manual) = Unit + Unit * manual
      BY <2>1, TypeParts, DeskAssumption DEF CountsTyped
    <3> QED
      BY <2>1, <3>1 DEF StackParts, Stacks, NoStacking
  <2> QED
    BY <2>1
<1> QED
  BY <1>1, <1>2, <1>3, TypeCorrect, PTL DEF Spec

=============================================================================
