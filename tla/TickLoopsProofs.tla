--------------------------- MODULE TickLoopsProofs ---------------------------
(* What holds of the two loops that act on quotes, for every value of the     *)
(* constants: of the setup watcher (SetupWatcher), and of the tick dispatcher *)
(* with its store and rows (PositionTracking).                                *)
EXTENDS SetupWatcher, PositionTracking, TLAPS

\* How far the pass over a row has got.
Early == {"trail", "koruma", "approach"}
Dispatching == {"event", "side", "close", "card", "post"}
InHand == Early \cup {"detect"} \cup Dispatching
HasEvent == pc \in {"side", "close", "card", "post"}

\* The rows that were read and are not dispatched yet, and the one that is being.
Fresh(s) == s \in todo \/ (cur = s /\ pc \in Early \cup {"detect"})
Passing(s) == cur = s /\ pc \in Dispatching

\* TypeOK, and what is in hand.
Typed ==
  /\ TypeOK
  /\ pc \in InHand => cur \in Setups /\ mid > 0
  /\ pc \notin InHand => cur = NoSetup
  /\ cur \notin todo
  /\ pc = "idle" => todo = {}

\* What this pass closes its row for, if it closes it.
Verdict(s) == IF StopReached(s) THEN StopKind(s) ELSE "tp_final"

\* A row that is in hand was open when it was read, and only another loop or this pass
\* has closed it since.
ClosingAt(s) ==
  /\ row[s].open => row[s].reason = "none"
  /\ Fresh(s) \/ Passing(s) => (row[s].reason = "none" => row[s].open)
  /\ Fresh(s) => row[s].reason \in {"none", "other"}
  /\ Passing(s) => row[s].reason \in {"none", "other", Verdict(s)}
Closing == \A s \in Setups : ClosingAt(s)

\* The stop is crossed alone, and a terminal event gives the verdict of the pass.
Queued ==
  pc \in Dispatching =>
    /\ \A n \in DOMAIN queue :
         /\ queue[n].kind \in {"entry_touched", "sl_hit", "tp_hit"}
         /\ queue[n].kind = "sl_hit" => StopReached(cur)
         /\ queue[n].kind = "tp_hit" => ~StopReached(cur) /\ queue[n].tp \in Levels
    /\ HasEvent /\ ev.kind \in Terminal => ev.kind = Verdict(cur)
    /\ HasEvent /\ ev.kind \in {"tp_hit", "tp_partial", "tp_final"} => ev.tp \in Levels

\* A row whose stop has not gone behind entry_sl, and is ahead of it under a trail and when
\* it was closed as trail_stop.
Tightened(s, r) ==
  /\ ~Ahead(s, EntrySl[s], r.sl)
  /\ r.anchor > 0 \/ r.reason = "trail_stop" => Ahead(s, r.sl, EntrySl[s])

\* A stop is never behind the one the tick has read, and before the advice of this pass a row
\* only has a trail the tick has read too.
StopsAt(s) ==
  /\ pc # "idle" => ~Ahead(s, snap[s].sl, row[s].sl)
  /\ s \in todo \/ (cur = s /\ pc \in Early) => (row[s].anchor > 0 => snap[s].anchor > 0)
  /\ StoredSl[s] = EntrySl[s] => Tightened(s, row[s]) /\ Tightened(s, snap[s])
Stops == \A s \in Setups : StopsAt(s)

\* What the outboxes hold of a row: a level whose bit is set, at most once, the reason of a
\* closed row; nothing yet for a row that is fresh, and only the verdict once it is dispatched.
CardedAt(s) ==
  /\ \A i \in Levels : tpCards[s][i] <= 1 /\ (tpCards[s][i] > 0 => i \in row[s].hits)
  /\ posts[s] > 0 => ~row[s].open
  /\ \A k \in cards[s] : ~row[s].open /\ row[s].reason \in {k, "other"}
  /\ \A k, l \in cards[s] : k = l
  /\ Fresh(s) => row[s].hits = snap[s].hits /\ cards[s] = {} /\ posts[s] = 0
  /\ Passing(s) => cards[s] \subseteq {Verdict(s)}

\* What is still to be announced for the row in hand: levels not announced, each once, the
\* one at hand with its bit set; and the close of a row that is closed.
Announcing ==
  /\ pc \in Dispatching =>
       /\ \A n \in DOMAIN queue : queue[n].kind = "tp_hit" => tpCards[cur][queue[n].tp] = 0
       /\ \A m, n \in DOMAIN queue :
            m # n /\ queue[m].kind = "tp_hit" /\ queue[n].kind = "tp_hit" => queue[m].tp # queue[n].tp
  /\ pc \in {"side", "close", "card"} /\ ev.kind \in {"tp_hit", "tp_partial"} =>
       /\ tpCards[cur][ev.tp] = 0
       /\ pc # "side" => ev.tp \in row[cur].hits
       /\ \A n \in DOMAIN queue : queue[n].kind = "tp_hit" => queue[n].tp # ev.tp
  /\ pc \in {"card", "post"} /\ ev.kind \in Terminal => ~row[cur].open

\* DbPersist loses neither the bit nor the close.
Reliable == dep.kinds \cap {"bit", "close"} = {}
Carded == Reliable => Announcing /\ \A s \in Setups : CardedAt(s)

---------------------------------------------------------------------------
(* Prices.                                                                *)

\* Of two or three stops the tightest is one of them, and none is ahead of it.
LEMMA TightestOfTwo ==
  ASSUME NEW s, NEW x \in Int, NEW y \in Int
  PROVE  /\ Tightest(s, {x, y}) \in {x, y}
         /\ ~Ahead(s, x, Tightest(s, {x, y})) /\ ~Ahead(s, y, Tightest(s, {x, y}))
<1>1. \E z \in {x, y} : \A w \in {x, y} : ~Ahead(s, w, z)
  BY DEF Ahead
<1>2. /\ Tightest(s, {x, y}) \in {x, y}
      /\ \A w \in {x, y} : ~Ahead(s, w, Tightest(s, {x, y}))
  BY <1>1 DEF Tightest
<1> QED
  BY <1>2

LEMMA TightestOfThree ==
  ASSUME NEW s, NEW x \in Int, NEW y \in Int, NEW z \in Int
  PROVE  /\ Tightest(s, {x, y, z}) \in Int
         /\ ~Ahead(s, z, Tightest(s, {x, y, z}))
<1>1. \E u \in {x, y, z} : \A w \in {x, y, z} : ~Ahead(s, w, u)
  <2>1. PICK t \in {x, y} : ~Ahead(s, x, t) /\ ~Ahead(s, y, t)
    BY DEF Ahead
  <2>2. CASE Ahead(s, z, t)
    BY <2>1, <2>2 DEF Ahead
  <2>3. CASE ~Ahead(s, z, t)
    BY <2>1, <2>3
  <2> QED
    BY <2>2, <2>3
<1>2. /\ Tightest(s, {x, y, z}) \in {x, y, z}
      /\ \A w \in {x, y, z} : ~Ahead(s, w, Tightest(s, {x, y, z}))
  BY <1>1 DEF Tightest
<1> QED
  BY <1>2

\* A quotient of integers is one.
LEMMA Quotient ==
  ASSUME NEW a \in Int, NEW b \in Nat \ {0}
  PROVE  a \div b \in Int
OBVIOUS

\* What the trail and the ratchet compute are integers, and a gain has a positive reference.
LEMMA TrailTyped ==
  ASSUME NEW s, NEW x \in Nat
  PROVE  TrailSl(s, x) \in Int
<1>1. TrailPermille \in Nat
  BY TuningAssumption
<1> DEFINE k == IF s \in Long THEN 1000 - TrailPermille ELSE 1000 + TrailPermille
<1>2. k \in Int
  BY <1>1
<1>3. x * k \in Int
  <2> HIDE DEF k
  <2> QED
    BY <1>2
<1>4. (x * k) \div 1000 \in Int
  <2> HIDE DEF k
  <2> QED
    BY <1>3, Quotient
<1> QED
  BY <1>4 DEF TrailSl

LEMMA GainTyped ==
  ASSUME NEW s, NEW ref \in Nat \ {0}, NEW x \in Nat
  PROVE  Gain(s, ref, x) \in Int
<1> DEFINE g == IF s \in Long THEN x - ref ELSE ref - x
<1>1. g * 1000 \in Int
  OBVIOUS
<1>2. (g * 1000) \div ref \in Int
  <2> HIDE DEF g
  <2> QED
    BY <1>1, Quotient
<1> QED
  BY <1>2 DEF Gain

LEMMA LockedTyped ==
  ASSUME NEW s \in Setups, NEW cum \in Nat
  PROVE  Locked(s, cum) \in Int
<1>1. Buffer \in Nat /\ Entry[s] \in Nat
  BY TuningAssumption, LevelsAssumption
<1> DEFINE net == IF cum > Buffer THEN cum - Buffer ELSE 0
           k == IF s \in Long THEN 1000 + net ELSE 1000 - net
<1>2. net \in Int
  BY <1>1
<1>3. k \in Int
  <2> HIDE DEF net
  <2> QED
    BY <1>2
<1>4. Entry[s] * k \in Int
  <2> HIDE DEF k
  <2> QED
    BY <1>1, <1>3
<1>5. (Entry[s] * k) \div 1000 \in Int
  <2> HIDE DEF k
  <2> QED
    BY <1>4, Quotient
<1> QED
  BY <1>5 DEF Locked

---------------------------------------------------------------------------
(* Types.                                                                 *)

\* A row, and what is in hand, field by field.
LEMMA RowFields ==
  ASSUME NEW r \in Rows
  PROVE  /\ r.open \in BOOLEAN /\ r.reason \in Terminal \cup {"none", "other"}
         /\ r.sl \in Int /\ r.anchor \in Nat /\ r.advised \in 0 .. 3 /\ r.hits \in SUBSET Levels
         /\ r.touched \in BOOLEAN /\ r.ref \in Nat /\ r.cum \in Nat /\ r.day \in Nat
BY DEF Rows

LEMMA InsertedTyped ==
  ASSUME NEW s \in Setups, NEW b \in BOOLEAN
  PROVE  Inserted(s) \in Rows /\ [Inserted(s) EXCEPT !.open = b] \in Rows
<1> DEFINE r == Inserted(s)
           f == [r EXCEPT !.open = b]
<1>1. StoredSl[s] \in Int
  BY LevelsAssumption
<1>2. r \in Rows
  BY <1>1 DEF Inserted, Rows, Levels
<1>3. f \in Rows
  <2> HIDE DEF r
  <2> QED
    BY <1>2 DEF Rows
<1> QED
  BY <1>2, <1>3

\* run_trail_advance, run_poz_koruma and handle_tp_approach write one row: its stop is left or
\* made no looser than the one the tick has read, and its anchor is left, or moved, or set
\* where the stop is tightened.
StopWrite(s, r) ==
  /\ row' = [row EXCEPT ![s] = r]
  /\ r.open = row[s].open /\ r.reason = row[s].reason /\ r.hits = row[s].hits
  /\ r.sl = row[s].sl \/ ~Ahead(s, snap[s].sl, r.sl)
  /\ \/ r.anchor = row[s].anchor
     \/ snap[s].anchor > 0 /\ ~Ahead(s, snap[s].sl, r.sl)
     \/ pc = "approach" /\ Ahead(s, r.sl, snap[s].sl)

LEMMA AdvanceWrites ==
  ASSUME Typed, NEW s \in Setups, AdvanceTrail(s)
  PROVE  \E r \in Rows : StopWrite(s, r)
<1> DEFINE x == Tightest(s, {TrailSl(s, mid), snap[s].sl})
           r == [row[s] EXCEPT !.anchor = mid, !.sl = x]
<1>1. /\ row \in [Setups -> Rows] /\ row[s] \in Rows /\ snap[s] \in Rows /\ snap[s].sl \in Int
      /\ mid \in Nat
  BY RowFields DEF Typed, TypeOK
<1>2. TrailSl(s, mid) \in Int
  BY <1>1, TrailTyped
<1>3. x \in Int /\ ~Ahead(s, snap[s].sl, x)
  <2>1. x \in {TrailSl(s, mid), snap[s].sl} /\ ~Ahead(s, snap[s].sl, x)
    BY <1>1, <1>2, TightestOfTwo
  <2> QED
    BY <1>1, <1>2, <2>1, Zenon
<1>4. CASE row' = row
  <2>1. row' = [row EXCEPT ![s] = row[s]]
    BY <1>1, <1>4
  <2>2. StopWrite(s, row[s])
    BY <2>1 DEF StopWrite
  <2> QED
    BY <1>1, <2>2
<1>5. CASE snap[s].anchor > 0 /\ row' = [row EXCEPT ![s].anchor = mid, ![s].sl = x]
  <2>1. row' = [row EXCEPT ![s] = r]
    BY <1>1, <1>5
  <2> HIDE DEF x
  <2>2. r \in Rows /\ r.sl = x /\ r.open = row[s].open /\ r.reason = row[s].reason /\ r.hits = row[s].hits
    BY <1>1, <1>3 DEF Rows
  <2> HIDE DEF r
  <2>3. StopWrite(s, r)
    BY <1>3, <1>5, <2>1, <2>2 DEF StopWrite
  <2> QED
    BY <2>2, <2>3
<1>6. row' = row \/ (snap[s].anchor > 0 /\ row' = [row EXCEPT ![s].anchor = mid, ![s].sl = x])
  BY DEF AdvanceTrail
<1> QED
  BY <1>4, <1>5, <1>6

LEMMA RatchetWrites ==
  ASSUME Typed, NEW s \in Setups, PozKoruma(s)
  PROVE  \E r \in Rows : StopWrite(s, r)
<1> DEFINE ref == IF snap[s].ref = 0 THEN Entry[s] ELSE snap[s].ref
           cum == snap[s].cum + Gain(s, ref, mid)
           x == Ratcheted(s, cum)
           moved == [row[s] EXCEPT !.ref = mid, !.day = day, !.cum = snap[s].cum]
           locked == [row[s] EXCEPT !.ref = mid, !.day = day, !.cum = cum, !.sl = x]
<1>1. /\ row \in [Setups -> Rows] /\ row[s] \in Rows /\ snap[s] \in Rows
      /\ mid \in Nat /\ day \in Nat
  BY DEF Typed, TypeOK
<1>2. snap[s].cum \in Nat /\ snap[s].sl \in Int /\ snap[s].ref \in Nat
  BY <1>1, RowFields
<1>3. ref \in Nat \ {0}
  BY <1>2, LevelsAssumption
<1>4. Gain(s, ref, mid) \in Int
  <2> HIDE DEF ref
  <2> QED
    BY <1>1, <1>3, GainTyped
<1>5. CASE row' = row
  <2>1. row' = [row EXCEPT ![s] = row[s]]
    BY <1>1, <1>5
  <2>2. StopWrite(s, row[s])
    BY <2>1 DEF StopWrite
  <2> QED
    BY <1>1, <2>2
<1>6. CASE row' = [row EXCEPT ![s].ref = mid, ![s].day = day, ![s].cum = snap[s].cum]
  <2>1. row' = [row EXCEPT ![s] = moved]
    BY <1>1, <1>6
  <2>2. /\ moved \in Rows /\ moved.sl = row[s].sl /\ moved.open = row[s].open
        /\ moved.reason = row[s].reason /\ moved.hits = row[s].hits /\ moved.anchor = row[s].anchor
    BY <1>1, <1>2 DEF Rows
  <2> HIDE DEF moved
  <2>3. StopWrite(s, moved)
    BY <2>1, <2>2 DEF StopWrite
  <2> QED
    BY <2>2, <2>3
<1>7. CASE /\ ~(Gain(s, ref, mid) < MinGain)
           /\ row' = [row EXCEPT ![s].ref = mid, ![s].day = day, ![s].cum = cum, ![s].sl = x]
  <2>1. cum \in Nat
    <3>1. MinGain \in Nat
      BY TuningAssumption
    <3> HIDE DEF ref
    <3> QED
      BY <1>2, <1>4, <1>7, <3>1
  <2>2. Locked(s, cum) \in Int /\ EntrySl[s] \in Int
    <3> HIDE DEF cum
    <3> QED
      BY <2>1, LockedTyped, LevelsAssumption
  <2>3. x \in Int /\ ~Ahead(s, snap[s].sl, x)
    <3> HIDE DEF cum
    <3> QED
      BY <1>2, <2>2, TightestOfThree DEF Ratcheted
  <2>4. row' = [row EXCEPT ![s] = locked]
    BY <1>1, <1>7
  <2> HIDE DEF cum, x
  <2>5. /\ locked \in Rows /\ locked.sl = x /\ locked.open = row[s].open
        /\ locked.reason = row[s].reason /\ locked.hits = row[s].hits /\ locked.anchor = row[s].anchor
    BY <1>1, <2>1, <2>3 DEF Rows
  <2> HIDE DEF locked
  <2>6. StopWrite(s, locked)
    BY <2>3, <2>4, <2>5 DEF StopWrite
  <2> QED
    BY <2>5, <2>6
<1>8. \/ row' = row
      \/ row' = [row EXCEPT ![s].ref = mid, ![s].day = day, ![s].cum = snap[s].cum]
      \/ /\ ~(Gain(s, ref, mid) < MinGain)
         /\ row' = [row EXCEPT ![s].ref = mid, ![s].day = day, ![s].cum = cum, ![s].sl = x]
  BY DEF PozKoruma, RatchetWrite
<1> QED
  BY <1>5, <1>6, <1>7, <1>8

LEMMA AdviceWrites ==
  ASSUME Typed, NEW s \in Setups, Approach(s)
  PROVE  \E r \in Rows : StopWrite(s, r)
<1>1. /\ row \in [Setups -> Rows] /\ row[s] \in Rows /\ snap[s] \in Rows /\ mid \in Nat
      /\ snap[s].sl \in Int
  BY RowFields DEF Typed, TypeOK
<1>2. TrailSl(s, mid) \in Int
  BY <1>1, TrailTyped
<1>3. ASSUME NEW i \in Levels, row' = [row EXCEPT ![s].advised = i]
      PROVE  \E r \in Rows : StopWrite(s, r)
  <2> DEFINE r == [row[s] EXCEPT !.advised = i]
  <2>1. row' = [row EXCEPT ![s] = r]
    BY <1>1, <1>3
  <2>2. /\ r \in Rows /\ r.sl = row[s].sl /\ r.open = row[s].open
        /\ r.reason = row[s].reason /\ r.hits = row[s].hits /\ r.anchor = row[s].anchor
    BY <1>1 DEF Rows, Levels
  <2> HIDE DEF r
  <2>3. StopWrite(s, r)
    BY <2>1, <2>2 DEF StopWrite
  <2> QED
    BY <2>2, <2>3
<1>4. ASSUME NEW i \in Levels, Ahead(s, TrailSl(s, mid), snap[s].sl),
             row' = [[row EXCEPT ![s].advised = i] EXCEPT ![s].anchor = mid, ![s].sl = TrailSl(s, mid)]
      PROVE  \E r \in Rows : StopWrite(s, r)
  <2> DEFINE r == [row[s] EXCEPT !.advised = i, !.anchor = mid, !.sl = TrailSl(s, mid)]
  <2>1. row' = [row EXCEPT ![s] = r]
    BY <1>1, <1>4
  <2>2. /\ r \in Rows /\ r.sl = TrailSl(s, mid) /\ r.open = row[s].open
        /\ r.reason = row[s].reason /\ r.hits = row[s].hits
    <3> DEFINE x == TrailSl(s, mid)
    <3>1. x \in Int
      BY <1>2
    <3> HIDE DEF x
    <3> DEFINE g == [row[s] EXCEPT !.advised = i]
    <3>2. g \in Rows /\ g.open = row[s].open /\ g.reason = row[s].reason /\ g.hits = row[s].hits
      BY <1>1 DEF Rows, Levels
    <3>3. r = [g EXCEPT !.anchor = mid, !.sl = x]
      BY <1>1 DEF Rows, x
    <3> HIDE DEF g, r
    <3>4. /\ [g EXCEPT !.anchor = mid, !.sl = x] \in Rows
          /\ [g EXCEPT !.anchor = mid, !.sl = x].sl = x
          /\ [g EXCEPT !.anchor = mid, !.sl = x].open = g.open
          /\ [g EXCEPT !.anchor = mid, !.sl = x].reason = g.reason
          /\ [g EXCEPT !.anchor = mid, !.sl = x].hits = g.hits
      BY <1>1, <3>1, <3>2 DEF Rows
    <3> QED
      BY <3>2, <3>3, <3>4 DEF x
  <2>3. ~Ahead(s, snap[s].sl, TrailSl(s, mid))
    BY <1>1, <1>2, <1>4 DEF Ahead
  <2> HIDE DEF r
  <2>4. StopWrite(s, r)
    BY <1>4, <2>1, <2>2, <2>3 DEF StopWrite, Approach
  <2> QED
    BY <2>2, <2>4
<1>5. CASE row' = row
  <2>1. row' = [row EXCEPT ![s] = row[s]]
    BY <1>1, <1>5
  <2>2. StopWrite(s, row[s])
    BY <2>1 DEF StopWrite
  <2> QED
    BY <1>1, <2>2
<1>6. row' = row \/ \E i \in Levels : \E a \in ApproachActions(s, i) : Advise(s, i, a)
  BY DEF Approach
<1>7. ASSUME NEW i \in Levels, NEW a, Advise(s, i, a)
      PROVE  \E r \in Rows : StopWrite(s, r)
  <2>1. \/ row' = [row EXCEPT ![s].advised = i]
        \/ /\ Ahead(s, TrailSl(s, mid), snap[s].sl)
           /\ row' = [[row EXCEPT ![s].advised = i] EXCEPT ![s].anchor = mid, ![s].sl = TrailSl(s, mid)]
    BY <1>7 DEF Advise
  <2> QED
    BY <1>3, <1>4, <2>1
<1> QED
  BY <1>5, <1>6, <1>7

\* What the three of them do besides the row.
LEMMA StopStep ==
  ASSUME Typed, NEW s \in Setups, AdvanceTrail(s) \/ PozKoruma(s) \/ Approach(s)
  PROVE  /\ cur = s /\ pc \in Early /\ pc' \in {"koruma", "approach", "detect"}
         /\ pc = "approach" => pc' = "detect"
         /\ UNCHANGED <<worldVars, passVars, eventVars, outVars>>
         /\ faults' \in Nat
         /\ \E r \in Rows : StopWrite(s, r)
<1>1. faults \in Nat
  BY DEF Typed, TypeOK
<1>2. CASE AdvanceTrail(s)
  <2>1. \E r \in Rows : StopWrite(s, r)
    BY <1>2, AdvanceWrites
  <2> QED
    BY <1>1, <1>2, <2>1 DEF AdvanceTrail, Early, Fail
<1>3. CASE PozKoruma(s)
  <2>1. \E r \in Rows : StopWrite(s, r)
    BY <1>3, RatchetWrites
  <2> QED
    BY <1>1, <1>3, <2>1 DEF PozKoruma, Early, Fail
<1>4. CASE Approach(s)
  <2>1. \E r \in Rows : StopWrite(s, r)
    BY <1>4, AdviceWrites
  <2> QED
    BY <1>1, <1>4, <2>1 DEF Approach, Early, Fail
<1> QED
  BY <1>2, <1>3, <1>4

\* MarkSide sets one column of the row, and CloseTerminal closes it while it is open.
LEMMA SideWrites ==
  ASSUME Typed, Queued, NEW s \in Setups, MarkSide(s)
  PROVE  /\ row' \in [Setups -> Rows]
         /\ \A t \in Setups : /\ row'[t].open = row[t].open /\ row'[t].reason = row[t].reason
                              /\ row'[t].sl = row[t].sl /\ row'[t].anchor = row[t].anchor
                              /\ row[t].hits \subseteq row'[t].hits
                              /\ t # s => row'[t] = row[t]
         /\ Reliable /\ ev.kind \in {"tp_hit", "tp_partial"} => ev.tp \in row'[s].hits
<1>1. /\ row \in [Setups -> Rows] /\ row[s] \in Rows /\ ev \in Events
  BY DEF Typed, TypeOK
<1> DEFINE touched == [row[s] EXCEPT !.touched = TRUE]
           hit == [row[s] EXCEPT !.hits = row[s].hits \cup HitBit(ev.tp)]
<1>2. CASE row' = row /\ (Reliable => ev.kind \notin {"tp_hit", "tp_partial"})
  BY <1>1, <1>2
<1>3. CASE row' = [row EXCEPT ![s].touched = TRUE] /\ ev.kind = "entry_touched"
  <2>1. row' = [row EXCEPT ![s] = touched]
    BY <1>1, <1>3
  <2>2. /\ touched \in Rows /\ touched.open = row[s].open /\ touched.reason = row[s].reason
        /\ touched.sl = row[s].sl /\ touched.anchor = row[s].anchor /\ touched.hits = row[s].hits
    BY <1>1 DEF Rows
  <2> HIDE DEF touched
  <2> QED
    BY <1>1, <1>3, <2>1, <2>2
<1>4. CASE row' = [row EXCEPT ![s].hits = @ \cup HitBit(ev.tp)] /\ ev.tp \in Levels
  <2>1. row' = [row EXCEPT ![s] = hit]
    BY <1>1, <1>4
  <2>2. /\ hit \in Rows /\ hit.open = row[s].open /\ hit.reason = row[s].reason
        /\ hit.sl = row[s].sl /\ hit.anchor = row[s].anchor /\ row[s].hits \subseteq hit.hits
        /\ ev.tp \in hit.hits
    BY <1>1, <1>4 DEF Rows, HitBit
  <2> HIDE DEF hit
  <2> QED
    BY <1>1, <2>1, <2>2
<1>5. ev.kind \in {"tp_hit", "tp_partial", "tp_final"} => ev.tp \in Levels
  BY DEF Queued, HasEvent, Dispatching, MarkSide
<1>6. Reliable => ~Fail("bit")
  BY DEF Reliable, Fail
<1> QED
  BY <1>2, <1>3, <1>4, <1>5, <1>6 DEF MarkSide

LEMMA CloseWrites ==
  ASSUME Typed, NEW s \in Setups, CloseTerminal(s)
  PROVE  \/ row' = row /\ (ev.kind \in Terminal /\ row[s].open => "close" \in dep.kinds)
         \/ /\ ev.kind \in Terminal /\ row[s].open
            /\ \E r \in Rows : /\ row' = [row EXCEPT ![s] = r]
                               /\ ~r.open /\ r.reason = ev.kind /\ r.sl = row[s].sl
                               /\ r.anchor = row[s].anchor /\ r.hits = row[s].hits
<1>1. /\ row \in [Setups -> Rows] /\ row[s] \in Rows
  BY DEF Typed, TypeOK
<1> DEFINE r == [row[s] EXCEPT !.open = FALSE, !.reason = ev.kind]
<1>2. CASE row' = row /\ (ev.kind \in Terminal /\ row[s].open => "close" \in dep.kinds)
  BY <1>2
<1>3. CASE /\ ev.kind \in Terminal /\ row[s].open
           /\ row' = [row EXCEPT ![s].open = FALSE, ![s].reason = ev.kind]
  <2>1. row' = [row EXCEPT ![s] = r]
    BY <1>1, <1>3
  <2>2. /\ r \in Rows /\ ~r.open /\ r.reason = ev.kind /\ r.sl = row[s].sl
        /\ r.anchor = row[s].anchor /\ r.hits = row[s].hits
    BY <1>1, <1>3 DEF Rows
  <2> HIDE DEF r
  <2> QED
    BY <1>3, <2>1, <2>2
<1> QED
  BY <1>2, <1>3 DEF CloseTerminal, CloseRow, Fail

---------------------------------------------------------------------------
(* What a pass detects.                                                   *)

\* Targets up to level i, in order, each newly reached, perhaps after the entry.
TargetsUpTo(s, i, q) ==
  /\ q \in Seq(Events)
  /\ \A n \in DOMAIN q :
       \/ q[n].kind = "entry_touched"
       \/ q[n].kind = "tp_hit" /\ q[n].tp \in 1 .. i /\ New(s, q[n].tp)
  /\ \A m, n \in DOMAIN q :
       m # n /\ q[m].kind = "tp_hit" /\ q[n].kind = "tp_hit" => q[m].tp # q[n].tp

LEMMA NextTarget ==
  ASSUME NEW s \in Setups, NEW i \in Levels, NEW q, TargetsUpTo(s, i - 1, q)
  PROVE  TargetsUpTo(s, i, q \o TpEvent(s, i))
<1>1. q \in Seq(Events)
  BY DEF TargetsUpTo
<1>2. CASE ~New(s, i)
  <2>1. q \o TpEvent(s, i) = q
    BY <1>1, <1>2 DEF TpEvent
  <2> QED
    BY <2>1 DEF TargetsUpTo, Levels
<1>3. CASE New(s, i)
  <2> DEFINE e == Event("tp_hit", i)
             p == q \o <<e>>
  <2>1. e \in Events /\ e.kind = "tp_hit" /\ e.tp = i
    BY DEF Events, Event, Kinds, Levels
  <2> HIDE DEF e
  <2>2. /\ p \in Seq(Events) /\ DOMAIN p = 1 .. (Len(q) + 1)
        /\ \A n \in DOMAIN q : p[n] = q[n]
        /\ p[Len(q) + 1] = e /\ DOMAIN q = 1 .. Len(q) /\ Len(q) \in Nat
    BY <1>1, <2>1
  <2> HIDE DEF p
  <2>3. \A n \in DOMAIN q : q[n].kind = "tp_hit" => q[n].tp \in 1 .. (i - 1)
    BY DEF TargetsUpTo
  <2>4. \A n \in DOMAIN p : n \in DOMAIN q \/ n = Len(q) + 1
    BY <2>2
  <2>5. \A n \in DOMAIN p :
          \/ p[n].kind = "entry_touched"
          \/ p[n].kind = "tp_hit" /\ p[n].tp \in 1 .. i /\ New(s, p[n].tp)
    <3> SUFFICES ASSUME NEW n \in DOMAIN p
                 PROVE  \/ p[n].kind = "entry_touched"
                        \/ p[n].kind = "tp_hit" /\ p[n].tp \in 1 .. i /\ New(s, p[n].tp)
      OBVIOUS
    <3>1. CASE n = Len(q) + 1
      BY <1>3, <2>1, <2>2, <3>1 DEF Levels
    <3>2. CASE n \in DOMAIN q
      BY <2>2, <3>2 DEF TargetsUpTo, Levels
    <3> QED
      BY <2>4, <3>1, <3>2
  <2>6. \A m, n \in DOMAIN p :
          m # n /\ p[m].kind = "tp_hit" /\ p[n].kind = "tp_hit" => p[m].tp # p[n].tp
    <3> SUFFICES ASSUME NEW m \in DOMAIN p, NEW n \in DOMAIN p, m # n,
                        p[m].kind = "tp_hit", p[n].kind = "tp_hit"
                 PROVE  p[m].tp # p[n].tp
      OBVIOUS
    <3>1. CASE m \in DOMAIN q /\ n \in DOMAIN q
      BY <2>2, <3>1 DEF TargetsUpTo
    <3>2. CASE m = Len(q) + 1 /\ n \in DOMAIN q
      BY <2>1, <2>2, <2>3, <3>2 DEF Levels
    <3>3. CASE m \in DOMAIN q /\ n = Len(q) + 1
      BY <2>1, <2>2, <2>3, <3>3 DEF Levels
    <3> QED
      BY <2>4, <3>1, <3>2, <3>3
  <2>7. TpEvent(s, i) = <<e>>
    BY <1>3 DEF TpEvent, e
  <2> QED
    BY <2>2, <2>5, <2>6, <2>7 DEF TargetsUpTo, p
<1> QED
  BY <1>2, <1>3

\* The stop alone, or the targets, behind the entry if that is new.
LEMMA TransitionsAre ==
  ASSUME NEW s \in Setups
  PROVE  /\ StopReached(s) =>
              /\ Transitions(s) \in Seq(Events)
              /\ \A n \in DOMAIN Transitions(s) : Transitions(s)[n].kind \in {"entry_touched", "sl_hit"}
         /\ ~StopReached(s) => TargetsUpTo(s, 3, Transitions(s))
<1> DEFINE e == Event("entry_touched", 0)
           h == Event("sl_hit", 0)
           q == TpEvent(s, 1) \o TpEvent(s, 2) \o TpEvent(s, 3)
<1>1. e \in Events /\ e.kind = "entry_touched" /\ h \in Events /\ h.kind = "sl_hit"
  BY DEF Events, Event, Kinds, Terminal
<1>2. TargetsUpTo(s, 3, q)
  <2>1. TargetsUpTo(s, 0, <<>>)
    BY DEF TargetsUpTo
  <2>2. TargetsUpTo(s, 1, <<>> \o TpEvent(s, 1))
    <3>1. 1 \in Levels /\ 1 - 1 = 0
      BY DEF Levels
    <3>2. TargetsUpTo(s, 1 - 1, <<>>)
      BY <2>1, <3>1
    <3> QED
      BY <3>1, <3>2, NextTarget
  <2>3. TpEvent(s, 1) \in Seq(Events)
    <3> DEFINE t == Event("tp_hit", 1)
    <3>1. t \in Events
      BY DEF Events, Event, Kinds
    <3>2. TpEvent(s, 1) = <<t>> \/ TpEvent(s, 1) = <<>>
      BY DEF TpEvent
    <3> HIDE DEF t
    <3>3. <<t>> \in Seq(Events) /\ <<>> \in Seq(Events)
      BY <3>1
    <3> QED
      BY <3>2, <3>3, Zenon
  <2>4. TargetsUpTo(s, 1, TpEvent(s, 1))
    BY <2>2, <2>3
  <2>5. TargetsUpTo(s, 2, TpEvent(s, 1) \o TpEvent(s, 2))
    BY <2>4, NextTarget DEF Levels
  <2> QED
    BY <2>5, NextTarget DEF Levels
<1>3. EntryEvent(s) = <<>> \/ EntryEvent(s) = <<e>>
  BY DEF EntryEvent
<1> HIDE DEF e, h, q
<1>4. CASE StopReached(s)
  <2>1. Transitions(s) = EntryEvent(s) \o <<h>>
    BY <1>4 DEF Transitions, h
  <2>2. Transitions(s) = <<h>> \/ Transitions(s) = <<e>> \o <<h>>
    <3>1. <<>> \o <<h>> = <<h>>
      OBVIOUS
    <3> QED
      BY <1>3, <2>1, <3>1
  <2>3. /\ <<h>> \in Seq(Events)
        /\ \A n \in DOMAIN <<h>> : <<h>>[n].kind \in {"entry_touched", "sl_hit"}
    BY <1>1
  <2>4. /\ <<e>> \o <<h>> \in Seq(Events)
        /\ \A n \in DOMAIN (<<e>> \o <<h>>) : (<<e>> \o <<h>>)[n].kind \in {"entry_touched", "sl_hit"}
    <3> DEFINE p == <<e>> \o <<h>>
    <3>1. p \in Seq(Events) /\ DOMAIN p = 1 .. 2 /\ p[1] = e /\ p[2] = h
      BY <1>1
    <3> HIDE DEF p
    <3>2. \A n \in DOMAIN p : p[n].kind \in {"entry_touched", "sl_hit"}
      BY <1>1, <3>1
    <3> QED
      BY <3>1, <3>2 DEF p
  <2> QED
    BY <1>4, <2>2, <2>3, <2>4
<1>5. CASE ~StopReached(s)
  <2>1. Transitions(s) = EntryEvent(s) \o q
    BY <1>5 DEF Transitions, q
  <2>2. q \in Seq(Events)
    BY <1>2 DEF TargetsUpTo
  <2>3. CASE EntryEvent(s) = <<>>
    BY <1>2, <1>5, <2>1, <2>2, <2>3
  <2>4. CASE EntryEvent(s) = <<e>>
    <3> DEFINE p == <<e>> \o q
    <3>1. /\ p \in Seq(Events) /\ DOMAIN p = 1 .. (Len(q) + 1) /\ p[1] = e
          /\ \A n \in DOMAIN q : p[n + 1] = q[n]
          /\ DOMAIN q = 1 .. Len(q) /\ Len(q) \in Nat
      BY <1>1, <2>2
    <3> HIDE DEF p
    <3>2. \A n \in DOMAIN p : p[n] = e \/ (n - 1 \in DOMAIN q /\ p[n] = q[n - 1])
      <4> SUFFICES ASSUME NEW n \in DOMAIN p, n # 1
                   PROVE  n - 1 \in DOMAIN q /\ p[n] = q[n - 1]
        BY <3>1
      <4> QED
        BY <3>1
    <3>3. \A n \in DOMAIN p :
            \/ p[n].kind = "entry_touched"
            \/ p[n].kind = "tp_hit" /\ p[n].tp \in 1 .. 3 /\ New(s, p[n].tp)
      BY <1>1, <1>2, <3>2 DEF TargetsUpTo
    <3>4. ASSUME NEW m \in DOMAIN p, NEW n \in DOMAIN p, m # n,
                 p[m].kind = "tp_hit", p[n].kind = "tp_hit"
          PROVE  p[m].tp # p[n].tp
      <4>1. p[m] # e /\ p[n] # e
        BY <1>1, <3>4
      <4>2. /\ m - 1 \in DOMAIN q /\ p[m] = q[m - 1]
            /\ n - 1 \in DOMAIN q /\ p[n] = q[n - 1]
        BY <3>2, <4>1
      <4>3. m - 1 # n - 1
        BY <3>1, <3>4
      <4> QED
        BY <1>2, <3>4, <4>2, <4>3 DEF TargetsUpTo
    <3>5. TargetsUpTo(s, 3, p)
      BY <3>1, <3>3, <3>4 DEF TargetsUpTo
    <3> QED
      BY <1>5, <2>1, <2>4, <3>5 DEF p
  <2> QED
    BY <1>3, <2>3, <2>4
<1> QED
  BY <1>4, <1>5

---------------------------------------------------------------------------
(* Typed and Queued are inductive together: a level to mark is one because  *)
(* of what was queued.                                                     *)

LEMMA TypedInit == Init => Typed /\ Queued
<1> SUFFICES ASSUME Init PROVE Typed /\ Queued
  OBVIOUS
<1>1. row \in [Setups -> Rows] /\ snap \in [Setups -> Rows]
  <2>1. ASSUME NEW s \in Setups
        PROVE  Inserted(s) \in Rows /\ [Inserted(s) EXCEPT !.open = s \in dep.open] \in Rows
    <3> DEFINE b == s \in dep.open
    <3>1. b \in BOOLEAN
      OBVIOUS
    <3> HIDE DEF b
    <3>2. Inserted(s) \in Rows /\ [Inserted(s) EXCEPT !.open = b] \in Rows
      BY <3>1, InsertedTyped
    <3> QED
      BY <3>2 DEF b
  <2> QED
    BY <2>1, Zenon DEF Init
<1>2. cur = NoSetup /\ NoSetup \notin Setups /\ pc = "idle" /\ todo = {} /\ mid = 0
  BY SetupsAssumption DEF Init
<1>3. TypeOK
  BY <1>1, <1>2 DEF TypeOK, Init, NoEvent, Event, Events
<1> QED
  BY <1>2, <1>3 DEF Typed, Queued, InHand, Early, Dispatching

\* Typed, in the form the steps use.
LEMMA Hand ==
  ASSUME Typed
  PROVE  /\ NoSetup \notin Setups /\ NoSetup \notin todo /\ todo \subseteq Setups
         /\ cur \in Setups <=> pc \in InHand
         /\ row \in [Setups -> Rows] /\ snap \in [Setups -> Rows]
BY SetupsAssumption DEF Typed, TypeOK

LEMMA TypedWorld ==
  ASSUME Typed, NEW s \in Setups,
         CloseByOther(s) \/ (\E x \in Prices[s] : Quote(s, x))
  PROVE  Typed'
<1>1. CASE CloseByOther(s)
  <2>1. row' \in [Setups -> Rows]
    <3> DEFINE r == [row[s] EXCEPT !.open = FALSE, !.reason = "other"]
    <3>1. row' = [row EXCEPT ![s] = r] /\ row[s] \in Rows
      BY <1>1, Hand DEF CloseByOther, CloseRow
    <3>2. r \in Rows
      BY <3>1 DEF Rows
    <3> HIDE DEF r
    <3> QED
      BY <3>1, <3>2, Hand
  <2> QED
    BY <1>1, <2>1 DEF Typed, TypeOK, CloseByOther, worldVars, passVars, eventVars, outVars
<1>2. CASE \E x \in Prices[s] : Quote(s, x)
  <2>1. PICK x \in Prices[s] : Quote(s, x)
    BY <1>2
  <2>2. x \in Nat
    BY LevelsAssumption
  <2>3. quote' \in [Setups -> Nat]
    BY <2>1, <2>2 DEF Typed, TypeOK, Quote
  <2> QED
    BY <2>1, <2>3 DEF Typed, TypeOK, Quote, passVars, eventVars, outVars
<1> QED
  BY <1>1, <1>2

LEMMA TypedTick ==
  ASSUME Typed, TickRead \/ EndTick \/ Restart \/ NewDay
  PROVE  Typed'
<1>1. CASE TickRead
  BY <1>1, Hand DEF Typed, TypeOK, TickRead, OpenRows, InHand, Early, Dispatching, worldVars, eventVars, outVars
<1>2. CASE EndTick
  BY <1>2, Hand DEF Typed, TypeOK, EndTick, InHand, Early, Dispatching, worldVars, passVars, eventVars, outVars
<1>3. CASE Restart
  <2>1. faults' \in Nat
    BY <1>3 DEF Restart, Fail, Typed, TypeOK
  <2>2. queue' \in Seq(Events) /\ ev' \in Events /\ quote' \in [Setups -> Nat]
    BY <1>3 DEF Restart, NoEvent, Event, Events
  <2> QED
    BY <1>3, <2>1, <2>2, Hand DEF Typed, TypeOK, Restart, InHand, Early, Dispatching, outVars
<1>4. CASE NewDay
  <2>1. day' \in Nat
    BY <1>4 DEF NewDay, Typed, TypeOK
  <2> QED
    BY <1>4, <2>1 DEF Typed, TypeOK, NewDay, passVars, eventVars, outVars
<1> QED
  BY <1>1, <1>2, <1>3, <1>4

\* A row whose pass begins has a quote, and is not to be read again in this tick.
LEMMA TypedRow ==
  ASSUME Typed, NEW s \in Setups, NextRow(s) \/ EndRow(s)
  PROVE  Typed'
<1>1. CASE NextRow(s)
  <2>1. CASE quote[s] = 0
    BY <1>1, <2>1, Hand DEF Typed, TypeOK, NextRow, InHand, Early, Dispatching, worldVars, eventVars, outVars
  <2>2. CASE quote[s] # 0
    <3>1. quote[s] \in Nat /\ quote[s] > 0
      BY <2>2 DEF Typed, TypeOK
    <3> QED
      BY <1>1, <2>2, <3>1, Hand DEF Typed, TypeOK, NextRow, InHand, Early, Dispatching, worldVars, eventVars, outVars
  <2> QED
    BY <2>1, <2>2
<1>2. CASE EndRow(s)
  BY <1>2, Hand DEF Typed, TypeOK, EndRow, InHand, Early, Dispatching, worldVars, eventVars, outVars
<1> QED
  BY <1>1, <1>2

LEMMA TypedStop ==
  ASSUME Typed, NEW s \in Setups, AdvanceTrail(s) \/ PozKoruma(s) \/ Approach(s)
  PROVE  Typed'
<1>1. PICK r \in Rows : StopWrite(s, r)
  BY StopStep
<1>2. row' \in [Setups -> Rows]
  BY <1>1, Hand DEF StopWrite
<1> QED
  BY <1>2, StopStep DEF Typed, TypeOK, InHand, Early, worldVars, passVars, eventVars, outVars

LEMMA TypedDetect ==
  ASSUME Typed, NEW s \in Setups, Detect(s)
  PROVE  Typed'
<1>1. queue' \in Seq(Events)
  BY TransitionsAre DEF Detect, TargetsUpTo
<1> QED
  BY <1>1, Hand DEF Typed, TypeOK, Detect, InHand, Early, Dispatching, worldVars, passVars, outVars

\* What is decided for a transition: its kind, and its level.
LEMMA Decided ==
  ASSUME Typed, Queued, NEW s \in Setups, DecideEvent(s)
  PROVE  /\ ev' \in Events
         /\ queue[1].kind = "tp_hit" =>
              /\ ev'.kind \in {"tp_hit", "tp_partial", "tp_final", "sl_ratcheted"}
              /\ ev'.tp = queue[1].tp
         /\ queue[1].kind = "sl_hit" => ev'.kind = StopKind(s)
         /\ queue[1].kind = "entry_touched" => ev'.kind = "entry_touched"
         /\ queue[1].kind \in {"tp_hit", "sl_hit", "entry_touched"}
         /\ 1 \in DOMAIN queue
<1>1. queue \in Seq(Events) /\ queue # <<>> /\ pc = "event" /\ cur = s
  BY DEF Typed, TypeOK, DecideEvent
<1>2. 1 \in DOMAIN queue /\ queue[1] = Head(queue) /\ queue[1] \in Events
  BY <1>1
<1>3. queue[1].kind \in {"tp_hit", "sl_hit", "entry_touched"}
  BY <1>1, <1>2 DEF Queued, Dispatching
<1>4. CASE queue[1].kind = "tp_hit"
  <2>1. PICK a \in HitActions(s, queue[1].tp) : ev' = Event(KindOf(a), queue[1].tp)
    BY <1>2, <1>4 DEF DecideEvent
  <2>2. KindOf(a) \in {"tp_hit", "tp_partial", "tp_final", "sl_ratcheted"}
    BY DEF KindOf
  <2>3. queue[1].tp \in 0 .. 3
    BY <1>2 DEF Events
  <2> QED
    BY <1>2, <1>4, <2>1, <2>2, <2>3 DEF Event, Events, Kinds, Terminal
<1>5. CASE queue[1].kind = "sl_hit"
  <2>1. ev' = Event(StopKind(s), 0)
    BY <1>2, <1>5 DEF DecideEvent
  <2>2. StopKind(s) \in {"trail_stop", "sl_hit"}
    BY DEF StopKind
  <2> QED
    BY <1>2, <1>5, <2>1, <2>2 DEF Event, Events, Kinds, Terminal
<1>6. CASE queue[1].kind = "entry_touched"
  BY <1>2, <1>6 DEF DecideEvent
<1> QED
  BY <1>2, <1>3, <1>4, <1>5, <1>6

\* What is left of the queue.
LEMMA Dequeued ==
  ASSUME Typed, NEW s \in Setups, DecideEvent(s)
  PROVE  /\ queue' \in Seq(Events)
         /\ \A n \in DOMAIN queue' : n + 1 \in DOMAIN queue /\ queue'[n] = queue[n + 1] /\ n + 1 # 1
         /\ \A m, n \in DOMAIN queue' : m # n => m + 1 # n + 1
BY DEF Typed, TypeOK, DecideEvent

LEMMA TypedDecide ==
  ASSUME Typed, Queued, NEW s \in Setups, DecideEvent(s)
  PROVE  Typed'
<1>1. queue' \in Seq(Events) /\ ev' \in Events
  BY Decided, Dequeued
<1>2. pc = "event" /\ pc' = "side" /\ UNCHANGED <<row, worldVars, passVars, outVars, faults>>
  BY DEF DecideEvent
<1> QED
  BY <1>1, <1>2 DEF Typed, TypeOK, InHand, Early, Dispatching, worldVars, passVars, outVars

LEMMA TypedPersist ==
  ASSUME Typed, Queued, NEW s \in Setups, MarkSide(s) \/ CloseTerminal(s)
  PROVE  Typed'
<1>1. faults' \in Nat
  BY DEF MarkSide, CloseTerminal, Fail, Typed, TypeOK
<1>2. CASE MarkSide(s)
  <2>1. row' \in [Setups -> Rows]
    BY <1>2, SideWrites
  <2> QED
    BY <1>1, <1>2, <2>1 DEF Typed, TypeOK, MarkSide, InHand, Early, Dispatching, worldVars, passVars, eventVars, outVars
<1>3. CASE CloseTerminal(s)
  <2>1. row' \in [Setups -> Rows]
    BY <1>3, CloseWrites, Hand
  <2> QED
    BY <1>1, <1>3, <2>1 DEF Typed, TypeOK, CloseTerminal, InHand, Early, Dispatching, worldVars, passVars, eventVars, outVars
<1> QED
  BY <1>2, <1>3

LEMMA TypedSend ==
  ASSUME Typed, NEW s \in Setups, SendCard(s) \/ SendPost(s)
  PROVE  Typed'
<1>1. CASE SendCard(s)
  <2>1. faults' \in Nat
    BY <1>1 DEF SendCard, Fail, Typed, TypeOK
  <2>2. cards' \in [Setups -> SUBSET Terminal]
    <3>1. cards \in [Setups -> SUBSET Terminal]
      BY DEF Typed, TypeOK
    <3>2. \/ cards' = cards
          \/ ev.kind \in Terminal /\ cards' = [cards EXCEPT ![s] = cards[s] \cup {ev.kind}]
      BY <1>1 DEF SendCard
    <3> QED
      BY <3>1, <3>2
  <2>3. tpCards' \in [Setups -> [Levels -> 0 .. 2]]
    <3>1. tpCards \in [Setups -> [Levels -> 0 .. 2]]
      BY DEF Typed, TypeOK
    <3>2. CASE tpCards' = tpCards
      BY <3>1, <3>2
    <3>3. CASE tpCards' = [tpCards EXCEPT ![s][ev.tp] = @ + 1] /\ tpCards[s][ev.tp] < 2
      <4> DEFINE f == [tpCards[s] EXCEPT ![ev.tp] = @ + 1]
      <4>1. tpCards[s] \in [Levels -> 0 .. 2]
        BY <3>1
      <4>2. f \in [Levels -> 0 .. 2]
        <5>1. CASE ev.tp \in Levels
          <6>1. tpCards[s][ev.tp] + 1 \in 0 .. 2
            BY <3>3, <4>1, <5>1
          <6> QED
            BY <4>1, <6>1
        <5>2. CASE ev.tp \notin Levels
          BY <4>1, <5>2
        <5> QED
          BY <5>1, <5>2
      <4>3. tpCards' = [tpCards EXCEPT ![s] = f]
        BY <3>1, <3>3
      <4> HIDE DEF f
      <4> QED
        BY <3>1, <4>2, <4>3
    <3> QED
      BY <1>1, <3>2, <3>3 DEF SendCard
  <2> QED
    BY <1>1, <2>1, <2>2, <2>3 DEF Typed, TypeOK, SendCard, InHand, Early, Dispatching, worldVars, passVars, eventVars
<1>2. CASE SendPost(s)
  <2>1. posts' \in [Setups -> 0 .. 2]
    <3>1. posts \in [Setups -> 0 .. 2]
      BY DEF Typed, TypeOK
    <3> QED
      BY <1>2, <3>1 DEF SendPost
  <2>2. ev' \in Events
    BY <1>2 DEF SendPost, NoEvent, Event, Events
  <2> QED
    BY <1>2, <2>1, <2>2 DEF Typed, TypeOK, SendPost, InHand, Early, Dispatching, worldVars, passVars
<1> QED
  BY <1>1, <1>2

\* The verdict of a pass rests on the copy and the quote in hand.
LEMMA SameVerdict ==
  ASSUME UNCHANGED <<snap, mid>>, NEW s
  PROVE  /\ Verdict(s)' = Verdict(s) /\ StopReached(s)' = StopReached(s)
         /\ Verdict(s) \in {"tp_final", "sl_hit", "trail_stop"}
         /\ StopKind(s) \in {"sl_hit", "trail_stop"}
BY DEF Verdict, StopReached, StopKind, Ahead

LEMMA QueuedKept ==
  ASSUME Queued, UNCHANGED <<snap, mid, cur>>, pc \in Dispatching,
         queue' = queue, HasEvent' => HasEvent /\ ev' = ev
  PROVE  Queued'
<1> SUFFICES ASSUME (pc \in Dispatching)'
             PROVE  /\ \A n \in DOMAIN queue' :
                         /\ queue'[n].kind \in {"entry_touched", "sl_hit", "tp_hit"}
                         /\ queue'[n].kind = "sl_hit" => StopReached(cur)'
                         /\ queue'[n].kind = "tp_hit" => ~StopReached(cur)' /\ queue'[n].tp \in Levels
                    /\ HasEvent' /\ ev'.kind \in Terminal => ev'.kind = Verdict(cur)'
                    /\ HasEvent' /\ ev'.kind \in {"tp_hit", "tp_partial", "tp_final"} => ev'.tp \in Levels
  BY DEF Queued
<1>1. Verdict(cur)' = Verdict(cur) /\ StopReached(cur)' = StopReached(cur)
  BY DEF Verdict, StopReached, StopKind, Ahead
<1> QED
  BY <1>1 DEF Queued

LEMMA QueuedDetect ==
  ASSUME Typed, NEW s \in Setups, Detect(s)
  PROVE  Queued'
<1>1. cur' = s /\ queue' = Transitions(s) /\ pc' = "event" /\ UNCHANGED <<snap, mid>>
  BY DEF Detect, passVars
<1>2. StopReached(s)' = StopReached(s)
  BY <1>1, SameVerdict
<1>3. \A n \in DOMAIN queue' :
        /\ queue'[n].kind \in {"entry_touched", "sl_hit", "tp_hit"}
        /\ queue'[n].kind = "sl_hit" => StopReached(s)
        /\ queue'[n].kind = "tp_hit" => ~StopReached(s) /\ queue'[n].tp \in Levels
  BY <1>1, TransitionsAre DEF TargetsUpTo, Levels
<1>4. ~HasEvent'
  BY <1>1 DEF HasEvent
<1>5. StopReached(cur)' = StopReached(s)
  BY <1>1 DEF StopReached, Ahead
<1> QED
  BY <1>1, <1>3, <1>4, <1>5 DEF Queued

LEMMA QueuedDecide ==
  ASSUME Typed, Queued, NEW s \in Setups, DecideEvent(s)
  PROVE  Queued'
<1>1. cur = s /\ cur' = s /\ pc = "event" /\ pc \in Dispatching /\ UNCHANGED <<snap, mid>>
  BY DEF DecideEvent, passVars, Dispatching
<1>2. Verdict(cur)' = Verdict(s) /\ StopReached(cur)' = StopReached(s)
  BY <1>1 DEF Verdict, StopReached, StopKind, Ahead
<1>3. \A n \in DOMAIN queue' :
        /\ queue'[n].kind \in {"entry_touched", "sl_hit", "tp_hit"}
        /\ queue'[n].kind = "sl_hit" => StopReached(s)
        /\ queue'[n].kind = "tp_hit" => ~StopReached(s) /\ queue'[n].tp \in Levels
  BY <1>1, Dequeued DEF Queued
<1>4. ev'.kind \in Terminal => ev'.kind = Verdict(s)
  BY <1>1, Decided DEF Queued, Verdict, Terminal
<1>5. ev'.kind \in {"tp_hit", "tp_partial", "tp_final"} => ev'.tp \in Levels
  <2>1. StopKind(s) \in {"sl_hit", "trail_stop"}
    BY DEF StopKind
  <2> QED
    BY <1>1, <2>1, Decided DEF Queued
<1> QED
  BY <1>1, <1>2, <1>3, <1>4, <1>5 DEF Queued

LEMMA QueuedStep ==
  ASSUME Typed, Queued, [Next]_vars
  PROVE  Queued'
<1>1. ASSUME pc' \notin Dispatching
      PROVE  Queued'
  BY <1>1 DEF Queued
<1>2. ASSUME UNCHANGED <<pc, passVars, eventVars>>
      PROVE  Queued'
  <2>1. CASE pc \in Dispatching
    BY <1>2, <2>1, QueuedKept DEF passVars, eventVars, HasEvent
  <2> QED
    BY <1>1, <1>2, <2>1
<1>3. ASSUME NEW s \in Setups, CloseByOther(s) \/ (\E x \in Prices[s] : Quote(s, x))
      PROVE  Queued'
  BY <1>2, <1>3 DEF CloseByOther, Quote
<1>4. CASE NewDay \/ UNCHANGED vars
  BY <1>2, <1>4 DEF NewDay, vars
<1>5. CASE TickRead \/ EndTick \/ Restart
  BY <1>1, <1>5 DEF TickRead, EndTick, Restart, Dispatching
<1>6. ASSUME NEW s \in Setups, NextRow(s) \/ EndRow(s)
      PROVE  Queued'
  BY <1>1, <1>6 DEF NextRow, EndRow, Dispatching
<1>7. ASSUME NEW s \in Setups, AdvanceTrail(s) \/ PozKoruma(s) \/ Approach(s)
      PROVE  Queued'
  BY <1>1, <1>7, StopStep DEF Dispatching
<1>8. ASSUME NEW s \in Setups, MarkSide(s) \/ CloseTerminal(s) \/ SendCard(s) \/ SendPost(s)
      PROVE  Queued'
  <2>1. pc \in Dispatching /\ queue' = queue /\ UNCHANGED <<snap, mid, cur>>
    BY <1>8 DEF MarkSide, CloseTerminal, SendCard, SendPost, Dispatching, eventVars, passVars
  <2>2. HasEvent' => HasEvent /\ ev' = ev
    BY <1>8 DEF MarkSide, CloseTerminal, SendCard, SendPost, HasEvent, eventVars
  <2> QED
    BY <2>1, <2>2, QueuedKept
<1> QED
  BY <1>3, <1>4, <1>5, <1>6, <1>7, <1>8, QueuedDetect, QueuedDecide DEF Next, WatcherStep, PassStep

LEMMA TypedStep ==
  ASSUME Typed, Queued, [Next]_vars
  PROVE  Typed'
<1>1. CASE UNCHANGED vars
  BY <1>1 DEF Typed, TypeOK, InHand, Early, Dispatching, vars, worldVars, passVars, eventVars, outVars
<1> QED
  BY <1>1, TypedWorld, TypedTick, TypedRow, TypedStop, TypedDetect, TypedDecide, TypedPersist, TypedSend
     DEF Next, WatcherStep, PassStep

LEMMA TypedAlways == Spec => [](Typed /\ Queued)
<1>1. (Typed /\ Queued) /\ [Next]_vars => (Typed /\ Queued)'
  BY TypedStep, QueuedStep
<1> QED
  BY <1>1, TypedInit, PTL DEF Spec

\* setup_watcher_loop: the rows, the copies, the queue and the outboxes keep their types.
THEOREM TypeCorrect == Spec => []TypeOK
<1>1. Typed => TypeOK
  BY DEF Typed
<1> QED
  BY <1>1, TypedAlways, PTL

---------------------------------------------------------------------------
(* The phases of a row.                                                   *)

\* Only the read of a tick makes rows fresh or changes the copies, a fresh row may come to be
\* dispatched, and a row is dispatched for the quote it was detected with.
LEMMA Phases ==
  ASSUME Typed, [Next]_vars, ~TickRead
  PROVE  /\ snap' = snap
         /\ \A s \in Setups : /\ Fresh(s)' => Fresh(s)
                              /\ Passing(s)' => Fresh(s) \/ (Passing(s) /\ mid' = mid)
<1>1. CASE UNCHANGED <<pc, passVars>>
  BY <1>1 DEF passVars, Fresh, Passing
<1>2. CASE \E t \in Setups : CloseByOther(t) \/ \E x \in Prices[t] : Quote(t, x)
  BY <1>1, <1>2 DEF CloseByOther, Quote
<1>3. CASE NewDay \/ UNCHANGED vars
  BY <1>1, <1>3 DEF NewDay, vars
<1>4. CASE EndTick \/ Restart
  BY <1>4, SetupsAssumption, Hand DEF EndTick, Restart, Fresh, Passing, Early, Dispatching, passVars
<1>5. ASSUME NEW t \in Setups, NextRow(t) \/ EndRow(t)
      PROVE  /\ snap' = snap
             /\ \A s \in Setups : /\ Fresh(s)' => Fresh(s)
                                  /\ Passing(s)' => Fresh(s) \/ (Passing(s) /\ mid' = mid)
  BY <1>5, SetupsAssumption, Hand DEF NextRow, EndRow, Fresh, Passing, Early, Dispatching, InHand
<1>6. ASSUME NEW t \in Setups, AdvanceTrail(t) \/ PozKoruma(t) \/ Approach(t)
      PROVE  /\ snap' = snap
             /\ \A s \in Setups : /\ Fresh(s)' => Fresh(s)
                                  /\ Passing(s)' => Fresh(s) \/ (Passing(s) /\ mid' = mid)
  BY <1>6, StopStep DEF Fresh, Passing, Early, Dispatching, passVars
<1>7. ASSUME NEW t \in Setups, \/ Detect(t) \/ DecideEvent(t) \/ MarkSide(t) \/ CloseTerminal(t)
                               \/ SendCard(t) \/ SendPost(t)
      PROVE  /\ snap' = snap
             /\ \A s \in Setups : /\ Fresh(s)' => Fresh(s)
                                  /\ Passing(s)' => Fresh(s) \/ (Passing(s) /\ mid' = mid)
  BY <1>7 DEF Detect, DecideEvent, MarkSide, CloseTerminal, SendCard, SendPost, Fresh, Passing,
              Early, Dispatching, passVars
<1> QED
  BY <1>2, <1>3, <1>4, <1>5, <1>6, <1>7 DEF Next, WatcherStep, PassStep

\* A row that is being dispatched is not to be read again.
LEMMA OnePhase ==
  ASSUME Typed, NEW s \in Setups, Passing(s)
  PROVE  ~Fresh(s)
BY DEF Typed, Fresh, Passing, Early, Dispatching

---------------------------------------------------------------------------
(* Who closes a row.                                                      *)

LEMMA ClosingInit == Init => Closing
<1> SUFFICES ASSUME Init PROVE Closing
  OBVIOUS
<1>1. \A s \in Setups : row[s].reason = "none"
  BY DEF Init, Inserted
<1>2. \A s \in Setups : ~Fresh(s) /\ ~Passing(s)
  BY SetupsAssumption DEF Init, Fresh, Passing
<1> QED
  BY <1>1, <1>2 DEF Closing, ClosingAt

LEMMA ClosingKept ==
  ASSUME Typed, Closing, [Next]_vars, ~TickRead,
         \A s \in Setups : row'[s].open = row[s].open /\ row'[s].reason = row[s].reason
  PROVE  Closing'
<1> SUFFICES ASSUME NEW s \in Setups
             PROVE  ClosingAt(s)'
  BY DEF Closing
<1>1. /\ Fresh(s)' => Fresh(s)
      /\ Passing(s)' => Fresh(s) \/ (Passing(s) /\ Verdict(s)' = Verdict(s))
  BY Phases, SameVerdict
<1> QED
  BY <1>1 DEF Closing, ClosingAt

\* The writes of the pass to a row, but the close.
LEMMA ClosedAsBefore ==
  ASSUME Typed, Queued, [Next]_vars, ~TickRead,
         \A t \in Setups : ~CloseByOther(t) /\ ~CloseTerminal(t)
  PROVE  /\ row' \in [Setups -> Rows]
         /\ \A s \in Setups : row'[s].open = row[s].open /\ row'[s].reason = row[s].reason
<1>1. CASE row' = row
  BY <1>1, Hand
<1>2. ASSUME NEW t \in Setups, AdvanceTrail(t) \/ PozKoruma(t) \/ Approach(t)
      PROVE  \A s \in Setups : row'[s].open = row[s].open /\ row'[s].reason = row[s].reason
  <2>1. PICK r \in Rows : StopWrite(t, r)
    BY <1>2, StopStep
  <2> QED
    BY <2>1, Hand DEF StopWrite
<1>3. ASSUME NEW t \in Setups, MarkSide(t)
      PROVE  \A s \in Setups : row'[s].open = row[s].open /\ row'[s].reason = row[s].reason
  BY <1>3, SideWrites
<1>4. row' \in [Setups -> Rows]
  BY TypedStep, Hand DEF Typed, TypeOK
<1>5. \/ row' = row
      \/ \E t \in Setups : AdvanceTrail(t) \/ PozKoruma(t) \/ Approach(t)
      \/ \E t \in Setups : MarkSide(t)
  BY DEF Next, WatcherStep, PassStep, vars, Quote, NewDay, EndTick, Restart, NextRow, Detect, DecideEvent,
         SendCard, SendPost, EndRow
<1> QED
  BY <1>1, <1>2, <1>3, <1>4, <1>5

LEMMA ClosingStep ==
  ASSUME Typed, Queued, Closing, [Next]_vars
  PROVE  Closing'
<1>1. CASE TickRead
  <2> SUFFICES ASSUME NEW s \in Setups
               PROVE  ClosingAt(s)'
    BY DEF Closing
  <2>1. ~Passing(s)' /\ (Fresh(s)' => row[s].open) /\ row' = row
    BY <1>1 DEF TickRead, Fresh, Passing, Early, Dispatching, OpenRows
  <2> QED
    BY <2>1 DEF Closing, ClosingAt
<1>2. ASSUME NEW t \in Setups, CloseByOther(t), ~TickRead
      PROVE  Closing'
  <2> SUFFICES ASSUME NEW s \in Setups
               PROVE  ClosingAt(s)'
    BY DEF Closing
  <2>1. CASE s = t
    <3>1. ~row'[s].open /\ row'[s].reason = "other"
      BY <1>2, <2>1, Hand DEF CloseByOther, CloseRow, Rows
    <3> QED
      BY <3>1 DEF ClosingAt
  <2>2. CASE s # t
    <3>1. row'[s] = row[s]
      BY <1>2, <2>2, Hand DEF CloseByOther, CloseRow
    <3>2. /\ Fresh(s)' => Fresh(s)
          /\ Passing(s)' => Fresh(s) \/ (Passing(s) /\ Verdict(s)' = Verdict(s))
      BY <1>2, Phases, SameVerdict
    <3> QED
      BY <3>1, <3>2 DEF Closing, ClosingAt
  <2> QED
    BY <2>1, <2>2
<1>3. ASSUME NEW t \in Setups, CloseTerminal(t), ~TickRead
      PROVE  Closing'
  <2>1. CASE row' = row
    BY <1>3, <2>1, ClosingKept
  <2>2. CASE row' # row
    <3>1. PICK r \in Rows : /\ row' = [row EXCEPT ![t] = r]
                            /\ ~r.open /\ r.reason = ev.kind
      BY <1>3, <2>2, CloseWrites
    <3>2. ev.kind = Verdict(t) /\ ev.kind # "none"
      BY <1>3, <2>2, CloseWrites DEF CloseTerminal, Queued, HasEvent, Dispatching, Terminal
    <3>3. UNCHANGED <<snap, mid>> /\ Passing(t) /\ ~Fresh(t)
      BY <1>3, OnePhase DEF CloseTerminal, passVars, Passing, Dispatching
    <3> SUFFICES ASSUME NEW s \in Setups
                 PROVE  ClosingAt(s)'
      BY DEF Closing
    <3>4. /\ Fresh(s)' => Fresh(s)
          /\ Passing(s)' => Fresh(s) \/ (Passing(s) /\ Verdict(s)' = Verdict(s))
      BY <1>3, Phases, SameVerdict
    <3>5. Verdict(s)' = Verdict(s)
      BY <3>3, SameVerdict
    <3>6. CASE s = t
      <4>1. row'[s] = r
        BY <3>1, <3>6, Hand
      <4> QED
        BY <3>1, <3>2, <3>3, <3>4, <3>5, <3>6, <4>1 DEF ClosingAt
    <3>7. CASE s # t
      <4>1. row'[s] = row[s]
        BY <3>1, <3>7, Hand
      <4> QED
        BY <3>4, <4>1 DEF Closing, ClosingAt
    <3> QED
      BY <3>6, <3>7
  <2> QED
    BY <2>1, <2>2
<1> QED
  BY <1>1, <1>2, <1>3, ClosedAsBefore, ClosingKept

---------------------------------------------------------------------------
(* Stops.                                                                 *)

\* Stops of a position are ordered.
LEMMA StopOrder ==
  ASSUME NEW s, NEW x \in Int, NEW y \in Int, NEW z \in Int
  PROVE  /\ ~Ahead(s, x, x)
         /\ Ahead(s, x, y) => ~Ahead(s, y, x)
         /\ x # y /\ ~Ahead(s, y, x) => Ahead(s, x, y)
         /\ ~Ahead(s, x, y) /\ ~Ahead(s, y, z) => ~Ahead(s, x, z)
         /\ ~Ahead(s, x, y) /\ Ahead(s, x, z) => Ahead(s, y, z)
         /\ Ahead(s, x, y) /\ ~Ahead(s, z, y) => Ahead(s, x, z)
BY DEF Ahead

LEMMA StopsTyped ==
  ASSUME Typed, NEW s \in Setups
  PROVE  row[s].sl \in Int /\ snap[s].sl \in Int /\ EntrySl[s] \in Int
BY Hand, RowFields, LevelsAssumption

LEMMA StopsInit == Init => Stops
<1> SUFFICES ASSUME Init, NEW s \in Setups
             PROVE  StopsAt(s)
  BY DEF Stops
<1>1. /\ row[s].sl = StoredSl[s] /\ snap[s].sl = StoredSl[s]
      /\ row[s].anchor = 0 /\ snap[s].anchor = 0
      /\ row[s].reason = "none" /\ snap[s].reason = "none"
  BY DEF Init, Inserted
<1>2. EntrySl[s] \in Int
  BY LevelsAssumption
<1>3. pc = "idle" /\ todo = {}
  BY DEF Init
<1> QED
  BY <1>1, <1>2, <1>3, StopOrder DEF StopsAt, Tightened, Early

\* What a step leaves of it, of which only the read, the writes of stops and the closes need
\* more.
LEMMA StopsKept ==
  ASSUME Stops, snap' = snap, pc' # "idle" => pc # "idle",
         NEW s \in Setups,
         row'[s].sl = row[s].sl, row'[s].anchor = row[s].anchor,
         row'[s].reason = "trail_stop" => row[s].reason = "trail_stop",
         (s \in todo \/ (cur = s /\ pc \in Early))' => s \in todo \/ (cur = s /\ pc \in Early)
  PROVE  StopsAt(s)'
BY DEF Stops, StopsAt, Tightened

\* A write of the stop, of a row that is in hand and not closed by a pass.
LEMMA StopsWritten ==
  ASSUME Typed, Closing, Stops, NEW s \in Setups, cur = s, pc \in Early,
         NEW r \in Rows, StopWrite(s, r)
  PROVE  /\ ~Ahead(s, snap[s].sl, r.sl)
         /\ pc # "approach" => (r.anchor > 0 => snap[s].anchor > 0)
         /\ StoredSl[s] = EntrySl[s] => Tightened(s, r)
<1>1. /\ r.sl \in Int /\ row[s].sl \in Int /\ snap[s].sl \in Int /\ EntrySl[s] \in Int
      /\ r.anchor \in Nat /\ row[s].anchor \in Nat /\ snap[s].anchor \in Nat
  BY StopsTyped, Hand, RowFields
<1>2. /\ ~Ahead(s, snap[s].sl, row[s].sl)
      /\ row[s].anchor > 0 => snap[s].anchor > 0
      /\ StoredSl[s] = EntrySl[s] => Tightened(s, row[s]) /\ Tightened(s, snap[s])
  BY DEF Stops, StopsAt, Early
<1>3. r.reason \in {"none", "other"}
  BY DEF Closing, ClosingAt, Fresh, StopWrite
<1>4. ~Ahead(s, snap[s].sl, r.sl)
  BY <1>1, <1>2, StopOrder DEF StopWrite
<1>5. pc # "approach" => (r.anchor > 0 => snap[s].anchor > 0)
  BY <1>2 DEF StopWrite
<1>6. ASSUME StoredSl[s] = EntrySl[s]
      PROVE  Tightened(s, r)
  <2>1. ~Ahead(s, EntrySl[s], snap[s].sl) /\ (snap[s].anchor > 0 => Ahead(s, snap[s].sl, EntrySl[s]))
    BY <1>2, <1>6 DEF Tightened
  <2>2. ~Ahead(s, EntrySl[s], r.sl)
    BY <1>1, <1>4, <2>1, StopOrder
  <2>3. CASE snap[s].anchor > 0
    <3>1. Ahead(s, r.sl, EntrySl[s])
      BY <1>1, <1>4, <2>1, <2>3, StopOrder
    <3> QED
      BY <1>3, <2>2, <3>1 DEF Tightened
  <2>4. CASE ~(snap[s].anchor > 0) /\ r.anchor = row[s].anchor
    BY <1>2, <1>3, <2>2, <2>4 DEF Tightened
  <2>5. CASE Ahead(s, r.sl, snap[s].sl)
    <3>1. Ahead(s, r.sl, EntrySl[s])
      BY <1>1, <2>1, <2>5, StopOrder
    <3> QED
      BY <1>3, <2>2, <3>1 DEF Tightened
  <2> QED
    BY <2>3, <2>4, <2>5 DEF StopWrite
<1> QED
  BY <1>4, <1>5, <1>6

\* A stop that is named trail_stop was ahead of entry_sl when it was read.
LEMMA TrailVerdict ==
  ASSUME Typed, Stops, NEW s \in Setups, Verdict(s) = "trail_stop", StoredSl[s] = EntrySl[s], pc # "idle"
  PROVE  Ahead(s, row[s].sl, EntrySl[s])
<1>1. row[s].sl \in Int /\ snap[s].sl \in Int /\ EntrySl[s] \in Int
  BY StopsTyped
<1>2. snap[s].anchor > 0 \/ snap[s].sl # EntrySl[s]
  BY DEF Verdict, StopKind
<1>3. Tightened(s, snap[s]) /\ ~Ahead(s, snap[s].sl, row[s].sl)
  BY DEF Stops, StopsAt
<1>4. Ahead(s, snap[s].sl, EntrySl[s])
  BY <1>1, <1>2, <1>3, StopOrder DEF Tightened
<1> QED
  BY <1>1, <1>3, <1>4, StopOrder

LEMMA StopsStep ==
  ASSUME Typed, Queued, Closing, Stops, [Next]_vars
  PROVE  Stops'
<1> SUFFICES ASSUME NEW s \in Setups
             PROVE  StopsAt(s)'
  BY DEF Stops
<1>1. row[s].sl \in Int
  BY StopsTyped
<1>2. CASE TickRead
  <2>1. row' = row /\ snap' = row
    BY <1>2 DEF TickRead
  <2> QED
    BY <1>1, <2>1, StopOrder DEF Stops, StopsAt
<1>3. ASSUME NEW t \in Setups, AdvanceTrail(t) \/ PozKoruma(t) \/ Approach(t)
      PROVE  StopsAt(s)'
  <2>1. PICK r \in Rows : StopWrite(t, r)
    BY <1>3, StopStep
  <2>2. /\ cur = t /\ pc \in Early /\ cur' = cur /\ todo' = todo /\ snap' = snap
        /\ pc = "approach" => pc' = "detect"
        /\ pc # "idle"
    BY <1>3, StopStep DEF passVars, Early
  <2>3. CASE s = t
    <3>1. row'[s] = r
      BY <2>1, <2>3, Hand DEF StopWrite
    <3>2. s \notin todo
      BY <2>2, <2>3 DEF Typed
    <3>3. /\ ~Ahead(s, snap[s].sl, r.sl)
          /\ pc # "approach" => (r.anchor > 0 => snap[s].anchor > 0)
          /\ StoredSl[s] = EntrySl[s] => Tightened(s, r)
      BY <2>1, <2>2, <2>3, StopsWritten
    <3> QED
      BY <2>2, <3>1, <3>2, <3>3 DEF Stops, StopsAt, Early
  <2>4. CASE s # t
    <3>1. row'[s] = row[s]
      BY <2>1, <2>4, Hand DEF StopWrite
    <3> QED
      BY <2>2, <2>4, <3>1, StopsKept
  <2> QED
    BY <2>3, <2>4
<1>4. ASSUME NEW t \in Setups, CloseTerminal(t)
      PROVE  StopsAt(s)'
  <2>1. /\ snap' = snap /\ todo' = todo /\ cur' = cur /\ pc' = "card" /\ pc = "close" /\ cur = t
    BY <1>4 DEF CloseTerminal, passVars
  <2>2. CASE row'[s] = row[s]
    BY <2>1, <2>2, StopsKept DEF Early
  <2>3. CASE row'[s] # row[s]
    <3>1. PICK r \in Rows : /\ row' = [row EXCEPT ![t] = r]
                            /\ r.reason = ev.kind /\ r.sl = row[t].sl /\ r.anchor = row[t].anchor
                            /\ ev.kind \in Terminal
      BY <1>4, <2>3, CloseWrites
    <3>2. s = t /\ row'[s] = r
      BY <2>3, <3>1, Hand
    <3>3. ev.kind = Verdict(s)
      BY <2>1, <3>1, <3>2 DEF Queued, HasEvent, Dispatching
    <3>4. CASE r.reason = "trail_stop"
      <4>1. StoredSl[s] = EntrySl[s] => Ahead(s, row[s].sl, EntrySl[s])
        BY <2>1, <3>1, <3>3, <3>4, TrailVerdict
      <4> QED
        BY <2>1, <3>1, <3>2, <4>1 DEF Stops, StopsAt, Tightened, Early
    <3>5. CASE r.reason # "trail_stop"
      BY <2>1, <3>1, <3>2, <3>5, StopsKept DEF Early
    <3> QED
      BY <3>4, <3>5
  <2> QED
    BY <2>2, <2>3
<1>5. ASSUME NEW t \in Setups, CloseByOther(t)
      PROVE  StopsAt(s)'
  <2>1. UNCHANGED <<pc, snap, todo, cur>>
    BY <1>5 DEF CloseByOther, passVars
  <2>2. /\ row'[s].sl = row[s].sl /\ row'[s].anchor = row[s].anchor
        /\ row'[s].reason = "trail_stop" => row[s].reason = "trail_stop"
    BY <1>5, Hand DEF CloseByOther, CloseRow, Rows
  <2> QED
    BY <2>1, <2>2, StopsKept
<1>6. ASSUME NEW t \in Setups, MarkSide(t)
      PROVE  StopsAt(s)'
  <2>1. /\ snap' = snap /\ todo' = todo /\ cur' = cur /\ pc' = "close" /\ pc = "side"
    BY <1>6 DEF MarkSide, passVars
  <2>2. row'[s].sl = row[s].sl /\ row'[s].anchor = row[s].anchor /\ row'[s].reason = row[s].reason
    BY <1>6, SideWrites
  <2> QED
    BY <2>1, <2>2, StopsKept DEF Early
<1>7. ASSUME row' = row, snap' = snap, pc' # "idle" => pc # "idle",
             (s \in todo \/ (cur = s /\ pc \in Early))' => s \in todo \/ (cur = s /\ pc \in Early)
      PROVE  StopsAt(s)'
  BY <1>7, StopsKept
<1>8. ASSUME NEW t \in Setups, \/ Detect(t) \/ DecideEvent(t) \/ SendCard(t) \/ SendPost(t)
                               \/ NextRow(t) \/ EndRow(t) \/ \E x \in Prices[t] : Quote(t, x)
      PROVE  /\ row' = row /\ snap' = snap /\ (pc' # "idle" => pc # "idle")
             /\ (s \in todo \/ (cur = s /\ pc \in Early))' => s \in todo \/ (cur = s /\ pc \in Early)
  BY <1>8, SetupsAssumption
     DEF Detect, DecideEvent, SendCard, SendPost, NextRow, EndRow, Quote, passVars, Early
<1>9. ASSUME NewDay \/ EndTick \/ Restart \/ UNCHANGED vars
      PROVE  /\ row' = row /\ snap' = snap /\ (pc' # "idle" => pc # "idle")
             /\ (s \in todo \/ (cur = s /\ pc \in Early))' => s \in todo \/ (cur = s /\ pc \in Early)
  BY <1>9 DEF NewDay, EndTick, Restart, vars, passVars, Early
<1> QED
  BY <1>2, <1>3, <1>4, <1>5, <1>6, <1>7, <1>8, <1>9 DEF Next, WatcherStep, PassStep

---------------------------------------------------------------------------
(* What the outboxes hold.                                                *)

LEMMA CardedInit == Init => Carded
<1> SUFFICES ASSUME Init PROVE Announcing /\ \A s \in Setups : CardedAt(s)
  BY DEF Carded
<1>1. Announcing
  BY DEF Init, Announcing, Dispatching
<1>2. ASSUME NEW s \in Setups
      PROVE  CardedAt(s)
  <2>1. ~Fresh(s) /\ ~Passing(s)
    BY SetupsAssumption DEF Init, Fresh, Passing
  <2>2. cards[s] = {} /\ posts[s] = 0 /\ \A i \in Levels : tpCards[s][i] = 0
    BY DEF Init
  <2> QED
    BY <2>1, <2>2 DEF CardedAt
<1> QED
  BY <1>1, <1>2

\* A row whose cards and posts stay, while its columns may change as any step but a read and
\* the sends may change them.
LEMMA CardedKept ==
  ASSUME Typed, NEW s \in Setups, CardedAt(s),
         cards'[s] = cards[s], tpCards'[s] = tpCards[s], posts'[s] = posts[s],
         row'[s].open => row[s].open,
         row'[s].reason \in {row[s].reason, "other"} \/ row[s].open,
         row[s].hits \subseteq row'[s].hits,
         Fresh(s)' => Fresh(s) /\ row'[s].hits = row[s].hits /\ snap' = snap,
         Passing(s)' => Fresh(s) \/ (Passing(s) /\ Verdict(s)' = Verdict(s))
  PROVE  CardedAt(s)'
<1>1. \A i \in Levels : tpCards'[s][i] <= 1 /\ (tpCards'[s][i] > 0 => i \in row'[s].hits)
  BY DEF CardedAt
<1>2. posts'[s] > 0 => ~row'[s].open
  BY DEF CardedAt
<1>3. \A k \in cards'[s] : ~row'[s].open /\ row'[s].reason \in {k, "other"}
  BY DEF CardedAt
<1>4. \A k, l \in cards'[s] : k = l
  BY DEF CardedAt
<1>5. Fresh(s)' => row'[s].hits = snap'[s].hits /\ cards'[s] = {} /\ posts'[s] = 0
  BY DEF CardedAt
<1>6. Passing(s)' => cards'[s] \subseteq {Verdict(s)'}
  BY DEF CardedAt
<1> QED
  BY <1>1, <1>2, <1>3, <1>4, <1>5, <1>6 DEF CardedAt

\* A row that is read is open, and nothing is out for an open row.
LEMMA CardedRead ==
  ASSUME Typed, NEW s \in Setups, CardedAt(s), TickRead
  PROVE  CardedAt(s)'
<1>1. /\ row' = row /\ snap' = row /\ cards' = cards /\ tpCards' = tpCards /\ posts' = posts
      /\ ~Passing(s)' /\ (Fresh(s)' => row[s].open)
  BY DEF TickRead, Fresh, Passing, Early, Dispatching, OpenRows, outVars
<1>2. row[s].open => cards[s] = {} /\ posts[s] = 0
  <2>1. posts[s] \in 0 .. 2
    BY DEF Typed, TypeOK
  <2>2. row[s].open => cards[s] = {}
    BY DEF CardedAt
  <2>3. row[s].open => ~(posts[s] > 0)
    BY DEF CardedAt
  <2> QED
    BY <2>1, <2>2, <2>3
<1> QED
  BY <1>1, <1>2 DEF CardedAt

\* The stop writes, the marks and the closes.
LEMMA CardedRow ==
  ASSUME Typed, Queued, NEW s \in Setups, CardedAt(s), [Next]_vars, ~TickRead,
         \A t \in Setups : ~SendCard(t) /\ ~SendPost(t)
  PROVE  CardedAt(s)'
<1>1. cards' = cards /\ tpCards' = tpCards /\ posts' = posts
  <2>1. ASSUME NEW t \in Setups, AdvanceTrail(t) \/ PozKoruma(t) \/ Approach(t)
        PROVE  cards' = cards /\ tpCards' = tpCards /\ posts' = posts
    BY <2>1, StopStep DEF outVars
  <2> QED
    BY <2>1 DEF Next, WatcherStep, PassStep, vars, outVars, CloseByOther, Quote, NewDay, EndTick, Restart, NextRow,
           Detect, DecideEvent, MarkSide, CloseTerminal, EndRow
<1>2. /\ snap' = snap
      /\ Fresh(s)' => Fresh(s)
      /\ Passing(s)' => Fresh(s) \/ (Passing(s) /\ Verdict(s)' = Verdict(s))
  BY Phases, SameVerdict
<1>3. CASE row' = row
  BY <1>1, <1>2, <1>3, CardedKept
<1>4. ASSUME NEW t \in Setups, AdvanceTrail(t) \/ PozKoruma(t) \/ Approach(t)
      PROVE  CardedAt(s)'
  <2>1. PICK r \in Rows : StopWrite(t, r)
    BY <1>4, StopStep
  <2>2. row'[s].open = row[s].open /\ row'[s].reason = row[s].reason /\ row'[s].hits = row[s].hits
    BY <2>1, Hand DEF StopWrite
  <2> QED
    BY <1>1, <1>2, <2>2, CardedKept
<1>5. ASSUME NEW t \in Setups, MarkSide(t)
      PROVE  CardedAt(s)'
  <2>1. /\ row'[s].open = row[s].open /\ row'[s].reason = row[s].reason
        /\ row[s].hits \subseteq row'[s].hits /\ (t # s => row'[s] = row[s])
    BY <1>5, SideWrites
  <2>2. t = s => ~Fresh(s)
    BY <1>5, OnePhase DEF MarkSide, Passing, Dispatching
  <2> QED
    BY <1>1, <1>2, <2>1, <2>2, CardedKept
<1>6. ASSUME NEW t \in Setups, CloseTerminal(t) \/ CloseByOther(t)
      PROVE  CardedAt(s)'
  <2>1. /\ row'[s].open => row[s].open
        /\ row'[s] = row[s] \/ row[s].open
        /\ row'[s].hits = row[s].hits
    <3>1. CASE CloseTerminal(t)
      BY <3>1, CloseWrites, Hand
    <3>2. CASE CloseByOther(t)
      BY <3>2, Hand DEF CloseByOther, CloseRow, Rows
    <3> QED
      BY <1>6, <3>1, <3>2
  <2> QED
    BY <1>1, <1>2, <2>1, CardedKept
<1>7. \/ row' = row
      \/ \E t \in Setups : AdvanceTrail(t) \/ PozKoruma(t) \/ Approach(t)
      \/ \E t \in Setups : MarkSide(t)
      \/ \E t \in Setups : CloseTerminal(t) \/ CloseByOther(t)
  BY DEF Next, WatcherStep, PassStep, vars, Quote, NewDay, EndTick, Restart, NextRow, Detect, DecideEvent,
         EndRow
<1> QED
  BY <1>3, <1>4, <1>5, <1>6, <1>7

\* The Telegram row: of a level that is not announced and whose bit is set, or of a closed row.
LEMMA CardedCard ==
  ASSUME Typed, Closing, NEW s \in Setups, NEW t \in Setups, CardedAt(s), Announcing, Queued, SendCard(t)
  PROVE  CardedAt(s)'
<1>1. /\ cur = t /\ pc = "card" /\ row' = row /\ snap' = snap /\ mid' = mid /\ posts' = posts
      /\ Passing(t) /\ ~Fresh(t)
  BY OnePhase DEF SendCard, passVars, Passing, Dispatching
<1>2. /\ Fresh(s)' => Fresh(s)
      /\ Passing(s)' => Passing(s)
      /\ Verdict(s)' = Verdict(s)
  <2>1. Verdict(s)' = Verdict(s)
    BY <1>1, SameVerdict
  <2> QED
    BY <2>1 DEF SendCard, Fresh, Passing, passVars, Early, Dispatching
<1>3. cards \in [Setups -> SUBSET Terminal] /\ tpCards \in [Setups -> [Levels -> 0 .. 2]]
  BY DEF Typed, TypeOK
<1>4. CASE s # t
  <2>1. cards'[s] = cards[s] /\ tpCards'[s] = tpCards[s]
    BY <1>3, <1>4 DEF SendCard
  <2> QED
    BY <1>1, <1>2, <2>1, CardedKept
<1>5. CASE s = t
  <2>1. \A i \in Levels : tpCards'[s][i] <= 1 /\ (tpCards'[s][i] > 0 => i \in row[s].hits)
    <3>1. CASE tpCards' = tpCards
      BY <3>1 DEF CardedAt
    <3>2. CASE tpCards' # tpCards
      <4>1. ev.kind \in {"tp_hit", "tp_partial"} /\ tpCards' = [tpCards EXCEPT ![s][ev.tp] = @ + 1]
        BY <1>5, <3>2 DEF SendCard
      <4>2. tpCards[s][ev.tp] = 0 /\ ev.tp \in row[s].hits
        BY <1>1, <1>5, <4>1 DEF Announcing
      <4>3. ASSUME NEW i \in Levels
            PROVE  tpCards'[s][i] <= 1 /\ (tpCards'[s][i] > 0 => i \in row[s].hits)
        <5>1. CASE i = ev.tp
          <6>1. tpCards'[s][i] = 1
            BY <1>3, <4>1, <4>2, <5>1
          <6> QED
            BY <4>2, <5>1, <6>1
        <5>2. CASE i # ev.tp
          <6>1. tpCards'[s][i] = tpCards[s][i]
            BY <1>3, <4>1, <5>2
          <6> QED
            BY <6>1 DEF CardedAt
        <5> QED
          BY <5>1, <5>2
      <4> QED
        BY <4>3
    <3> QED
      BY <3>1, <3>2
  <2>2. CASE cards' = cards
    BY <1>1, <1>2, <1>5, <2>1, <2>2 DEF CardedAt
  <2>3. CASE cards' # cards
    <3>1. ev.kind \in Terminal /\ cards' = [cards EXCEPT ![s] = @ \cup {ev.kind}]
      BY <1>5, <2>3 DEF SendCard
    <3>2. ev.kind = Verdict(s) /\ ~row[s].open
      BY <1>1, <1>5, <3>1 DEF Queued, HasEvent, Dispatching, Announcing
    <3>3. row[s].reason \in {Verdict(s), "other"}
      BY <1>1, <1>5, <3>2 DEF Closing, ClosingAt
    <3>4. cards[s] \subseteq {Verdict(s)}
      BY <1>1, <1>5 DEF CardedAt
    <3>5. cards'[s] = {Verdict(s)}
      BY <1>3, <3>1, <3>2, <3>4
    <3> QED
      BY <1>1, <1>2, <1>5, <2>1, <3>2, <3>3, <3>5 DEF CardedAt
  <2> QED
    BY <2>2, <2>3
<1> QED
  BY <1>4, <1>5

\* The X row, of a closed row.
LEMMA CardedPost ==
  ASSUME Typed, NEW s \in Setups, NEW t \in Setups, CardedAt(s), Announcing, SendPost(t)
  PROVE  CardedAt(s)'
<1>1. /\ cur = t /\ pc = "post" /\ row' = row /\ snap' = snap /\ mid' = mid
      /\ cards' = cards /\ tpCards' = tpCards
      /\ Passing(t) /\ ~Fresh(t)
  BY OnePhase DEF SendPost, passVars, Passing, Dispatching
<1>2. /\ Fresh(s)' => Fresh(s)
      /\ Passing(s)' => Passing(s)
      /\ Verdict(s)' = Verdict(s)
  <2>1. Verdict(s)' = Verdict(s)
    BY <1>1, SameVerdict
  <2> QED
    BY <2>1 DEF SendPost, Fresh, Passing, passVars, Early, Dispatching
<1>3. posts \in [Setups -> 0 .. 2]
  BY DEF Typed, TypeOK
<1>4. CASE posts'[s] = posts[s]
  BY <1>1, <1>2, <1>4, CardedKept
<1>5. CASE posts'[s] # posts[s]
  <2>1. s = t /\ ev.kind \in Terminal
    BY <1>3, <1>5 DEF SendPost
  <2>2. ~row[s].open
    BY <1>1, <2>1 DEF Announcing
  <2> QED
    BY <1>1, <1>2, <2>1, <2>2 DEF CardedAt
<1> QED
  BY <1>4, <1>5

\* Announcing from step to step: nothing to announce, or nothing of it changes.
LEMMA AnnouncingIdle ==
  ASSUME pc' \notin Dispatching
  PROVE  Announcing'
BY DEF Announcing, Dispatching

LEMMA AnnouncingKept ==
  ASSUME Announcing, UNCHANGED <<pc, cur, queue, ev, tpCards>>,
         cur \in Setups => row'[cur].hits = row[cur].hits /\ (row'[cur].open => row[cur].open),
         pc \in Dispatching => cur \in Setups
  PROVE  Announcing'
BY DEF Announcing, Dispatching

\* A level is detected only when the tick has not read its bit.
LEMMA AnnouncingDetect ==
  ASSUME Typed, NEW s \in Setups, CardedAt(s), Detect(s)
  PROVE  Announcing'
<1>1. /\ cur = s /\ cur' = s /\ pc = "detect" /\ pc' = "event" /\ queue' = Transitions(s)
      /\ tpCards' = tpCards /\ tpCards \in [Setups -> [Levels -> 0 .. 2]]
  BY DEF Detect, passVars, outVars, Typed, TypeOK
<1>2. row[s].hits = snap[s].hits
  BY <1>1 DEF CardedAt, Fresh
<1>3. \A n \in DOMAIN queue' : queue'[n].kind = "tp_hit" =>
        queue'[n].tp \in Levels /\ New(s, queue'[n].tp)
  BY <1>1, TransitionsAre DEF TargetsUpTo, Levels
<1>4. \A n \in DOMAIN queue' : queue'[n].kind = "tp_hit" => tpCards'[s][queue'[n].tp] = 0
  <2> SUFFICES ASSUME NEW n \in DOMAIN queue', queue'[n].kind = "tp_hit"
               PROVE  tpCards[s][queue'[n].tp] = 0
    BY <1>1
  <2>1. queue'[n].tp \in Levels /\ queue'[n].tp \notin row[s].hits
    BY <1>2, <1>3 DEF New
  <2>2. PICK i \in Levels : i = queue'[n].tp
    BY <2>1
  <2>3. ~(tpCards[s][i] > 0)
    BY <2>1, <2>2 DEF CardedAt
  <2>4. tpCards[s][i] \in 0 .. 2
    BY <1>1
  <2> QED
    BY <2>2, <2>3, <2>4
<1>5. \A m, n \in DOMAIN queue' :
        m # n /\ queue'[m].kind = "tp_hit" /\ queue'[n].kind = "tp_hit" => queue'[m].tp # queue'[n].tp
  BY <1>1, TransitionsAre DEF TargetsUpTo
<1> QED
  BY <1>1, <1>4, <1>5 DEF Announcing

LEMMA AnnouncingDecide ==
  ASSUME Typed, Queued, Announcing, NEW s \in Setups, DecideEvent(s)
  PROVE  Announcing'
<1>1. /\ cur = s /\ cur' = s /\ pc = "event" /\ pc' = "side" /\ tpCards' = tpCards
      /\ pc \in Dispatching
  BY DEF DecideEvent, passVars, outVars, Dispatching
<1>2. \A n \in DOMAIN queue' : queue'[n].kind = "tp_hit" => tpCards'[s][queue'[n].tp] = 0
  BY <1>1, Dequeued DEF Announcing
<1>3. \A m, n \in DOMAIN queue' :
        m # n /\ queue'[m].kind = "tp_hit" /\ queue'[n].kind = "tp_hit" => queue'[m].tp # queue'[n].tp
  BY <1>1, Dequeued DEF Announcing
<1>4. ASSUME ev'.kind \in {"tp_hit", "tp_partial"}
      PROVE  /\ tpCards'[s][ev'.tp] = 0
             /\ \A n \in DOMAIN queue' : queue'[n].kind = "tp_hit" => queue'[n].tp # ev'.tp
  <2>1. queue[1].kind = "tp_hit" /\ ev'.tp = queue[1].tp /\ 1 \in DOMAIN queue
    <3>1. StopKind(s) \in {"sl_hit", "trail_stop"}
      BY DEF StopKind
    <3> QED
      BY <1>4, <3>1, Decided
  <2> QED
    BY <1>1, <2>1, Dequeued DEF Announcing
<1> QED
  BY <1>1, <1>2, <1>3, <1>4 DEF Announcing

\* DbPersist, when it loses nothing: the bit is set and the row closed.
LEMMA AnnouncingPersist ==
  ASSUME Typed, Queued, Reliable, Announcing, NEW s \in Setups, MarkSide(s) \/ CloseTerminal(s)
  PROVE  Announcing'
<1>1. /\ cur = s /\ UNCHANGED <<cur, queue, ev, tpCards>> /\ pc \in Dispatching
  BY DEF MarkSide, CloseTerminal, passVars, eventVars, outVars, Dispatching
<1>2. CASE MarkSide(s)
  <2>1. pc = "side" /\ pc' = "close"
    BY <1>2 DEF MarkSide
  <2>2. ev.kind \in {"tp_hit", "tp_partial"} => ev.tp \in row'[s].hits
    BY <1>2, SideWrites
  <2> QED
    BY <1>1, <2>1, <2>2 DEF Announcing, Dispatching
<1>3. CASE CloseTerminal(s)
  <2>1. pc = "close" /\ pc' = "card"
    BY <1>3 DEF CloseTerminal
  <2>2. row'[s].hits = row[s].hits /\ (ev.kind \in Terminal => ~row'[s].open)
    BY <1>3, CloseWrites, Hand DEF Reliable
  <2> QED
    BY <1>1, <2>1, <2>2 DEF Announcing, Dispatching
<1> QED
  BY <1>2, <1>3

LEMMA AnnouncingSend ==
  ASSUME Typed, Queued, Announcing, NEW s \in Setups, SendCard(s) \/ SendPost(s)
  PROVE  Announcing'
<1>1. /\ cur = s /\ UNCHANGED <<cur, queue, row>> /\ pc \in Dispatching
  BY DEF SendCard, SendPost, passVars, eventVars, Dispatching
<1>2. CASE SendCard(s)
  <2>1. pc = "card" /\ pc' = "post" /\ ev' = ev
    BY <1>2 DEF SendCard, eventVars
  <2>2. tpCards \in [Setups -> [Levels -> 0 .. 2]]
    BY DEF Typed, TypeOK
  <2>3. ASSUME NEW n \in DOMAIN queue, queue[n].kind = "tp_hit"
        PROVE  tpCards'[s][queue[n].tp] = 0
    <3>1. tpCards[s][queue[n].tp] = 0 /\ queue[n].tp \in Levels
      BY <1>1, <2>3 DEF Announcing, Queued
    <3>2. CASE tpCards' = tpCards
      BY <3>1, <3>2
    <3>3. CASE tpCards' # tpCards
      <4>1. ev.kind \in {"tp_hit", "tp_partial"} /\ tpCards' = [tpCards EXCEPT ![s][ev.tp] = @ + 1]
        BY <1>2, <3>3 DEF SendCard
      <4>2. queue[n].tp # ev.tp
        BY <2>1, <2>3, <4>1 DEF Announcing
      <4> QED
        BY <2>2, <3>1, <4>1, <4>2
    <3> QED
      BY <3>2, <3>3
  <2> QED
    BY <1>1, <2>1, <2>3 DEF Announcing
<1>3. CASE SendPost(s)
  <2>1. pc = "post" /\ pc' = "event" /\ tpCards' = tpCards
    BY <1>3 DEF SendPost
  <2> QED
    BY <1>1, <2>1 DEF Announcing
<1> QED
  BY <1>2, <1>3

LEMMA AnnouncingStep ==
  ASSUME Typed, Queued, Reliable, Announcing, \A s \in Setups : CardedAt(s), [Next]_vars
  PROVE  Announcing'
<1>1. pc \in Dispatching => cur \in Setups
  BY Hand DEF InHand
<1>2. ASSUME NEW t \in Setups, CloseByOther(t) \/ \E x \in Prices[t] : Quote(t, x)
      PROVE  Announcing'
  <2>1. UNCHANGED <<pc, cur, queue, ev, tpCards>>
    BY <1>2 DEF CloseByOther, Quote, passVars, eventVars, outVars
  <2>2. cur \in Setups => row'[cur].hits = row[cur].hits /\ (row'[cur].open => row[cur].open)
    <3>1. CASE CloseByOther(t)
      BY <3>1, Hand DEF CloseByOther, CloseRow, Rows
    <3>2. CASE row' = row
      BY <3>2
    <3> QED
      BY <1>2, <3>1, <3>2 DEF Quote
  <2> QED
    BY <1>1, <2>1, <2>2, AnnouncingKept
<1>3. CASE NewDay \/ UNCHANGED vars
  <2>1. UNCHANGED <<pc, cur, queue, ev, tpCards>> /\ row' = row
    BY <1>3 DEF NewDay, vars, passVars, eventVars, outVars
  <2> QED
    BY <1>1, <2>1, AnnouncingKept
<1>4. CASE TickRead \/ EndTick \/ Restart
  BY <1>4, AnnouncingIdle DEF TickRead, EndTick, Restart, Dispatching
<1>5. ASSUME NEW t \in Setups, NextRow(t) \/ EndRow(t)
      PROVE  Announcing'
  <2>1. pc' \notin Dispatching
    BY <1>5 DEF NextRow, EndRow, Dispatching
  <2> QED
    BY <2>1, AnnouncingIdle
<1>6. ASSUME NEW t \in Setups, AdvanceTrail(t) \/ PozKoruma(t) \/ Approach(t)
      PROVE  Announcing'
  BY <1>6, StopStep, AnnouncingIdle DEF Dispatching
<1> QED
  BY <1>2, <1>3, <1>4, <1>5, <1>6, AnnouncingDetect, AnnouncingDecide, AnnouncingPersist, AnnouncingSend
     DEF Next, WatcherStep, PassStep

LEMMA CardedStep ==
  ASSUME Typed, Queued, Closing, Carded, [Next]_vars
  PROVE  Carded'
<1>1. Reliable' = Reliable
  <2>1. dep' = dep
    <3>1. ASSUME NEW s \in Setups, AdvanceTrail(s) \/ PozKoruma(s) \/ Approach(s)
          PROVE  dep' = dep
      BY <3>1, StopStep DEF worldVars
    <3> QED
      BY <3>1 DEF Next, WatcherStep, PassStep, vars, worldVars, CloseByOther, Quote, NewDay, TickRead, EndTick,
             Restart, NextRow, Detect, DecideEvent, MarkSide, CloseTerminal, SendCard, SendPost, EndRow
  <2> QED
    BY <2>1 DEF Reliable
<1> SUFFICES ASSUME Reliable
             PROVE  Announcing' /\ \A s \in Setups : CardedAt(s)'
  BY <1>1 DEF Carded
<1>2. Announcing /\ \A s \in Setups : CardedAt(s)
  BY DEF Carded
<1>3. ASSUME NEW s \in Setups
      PROVE  CardedAt(s)'
  BY <1>2, CardedRead, CardedRow, CardedCard, CardedPost
<1> QED
  BY <1>2, <1>3, AnnouncingStep

---------------------------------------------------------------------------
(* The theorems about the watcher.                                        *)

LEMMA WatcherAlways == Spec => [](Typed /\ Queued /\ Closing /\ Stops /\ Carded)
<1>1. Init => Closing /\ Stops /\ Carded
  BY ClosingInit, StopsInit, CardedInit
<1>2. (Typed /\ Queued) /\ (Closing /\ Stops /\ Carded) /\ [Next]_vars => (Closing /\ Stops /\ Carded)'
  BY ClosingStep, StopsStep, CardedStep
<1> QED
  BY <1>1, <1>2, TypedAlways, PTL DEF Spec

\* DbPersist and the outboxes: while neither the bit nor the close is lost, a level is
\* announced at most once, and a close card or post is only out for a closed row, with the
\* reason on it, however often the worker dies and whoever else closes rows.
THEOREM CardsAreOnce == Spec => []CardsOnce
<1>1. Carded => CardsOnce
  <2> SUFFICES ASSUME Carded, Reliable PROVE TpCardOnce /\ CloseCardsAgree
    BY DEF CardsOnce, Reliable
  <2>1. \A s \in Setups : CardedAt(s)
    BY DEF Carded
  <2>2. TpCardOnce
    BY <2>1 DEF TpCardOnce, CardedAt
  <2>3. CloseCardsAgree
    BY <2>1 DEF CloseCardsAgree, CardedAt
  <2> QED
    BY <2>2, <2>3
<1> QED
  BY <1>1, WatcherAlways, PTL

\* tick_once: a row closed as trail_stop has a stop ahead of entry_sl, where the insert stored
\* one value in both columns.
THEOREM TrailStopMoved == Spec => []TrailStopMeansMoved
<1>1. Stops => TrailStopMeansMoved
  BY DEF Stops, StopsAt, Tightened, TrailStopMeansMoved
<1> QED
  BY <1>1, WatcherAlways, PTL

\* run_trail_advance, run_poz_koruma and handle_tp_approach: a write that loosens a stop works
\* on a copy that is out of date.
THEOREM LoosenedWhenStale == Spec => StopLoosensOnlyWhenStale
<1>1. Typed /\ Queued /\ [Next]_vars => [\A s \in Setups : Loosened(s) => row[s].sl # snap[s].sl]_vars
  <2> SUFFICES ASSUME Typed, Queued, [Next]_vars, NEW s \in Setups, Loosened(s)
               PROVE  row[s].sl # snap[s].sl
    OBVIOUS
  <2>1. row[s].sl \in Int /\ snap[s].sl \in Int /\ Ahead(s, row[s].sl, row'[s].sl)
    BY StopsTyped DEF Loosened
  <2>2. row'[s].sl # row[s].sl
    BY <2>1, StopOrder
  <2>3. \E t \in Setups : AdvanceTrail(t) \/ PozKoruma(t) \/ Approach(t)
    <3>1. row' # row
      BY <2>2
    <3>2. ASSUME NEW t \in Setups, CloseByOther(t)
          PROVE  row'[s].sl = row[s].sl
      BY <3>2, Hand DEF CloseByOther, CloseRow, Rows
    <3>3. ASSUME NEW t \in Setups, CloseTerminal(t)
          PROVE  row'[s].sl = row[s].sl
      BY <3>3, CloseWrites, Hand
    <3>4. ASSUME NEW t \in Setups, MarkSide(t)
          PROVE  row'[s].sl = row[s].sl
      BY <3>4, SideWrites
    <3> QED
      BY <2>2, <3>1, <3>2, <3>3, <3>4
         DEF Next, WatcherStep, PassStep, vars, Quote, NewDay, TickRead, EndTick, Restart, NextRow, Detect,
             DecideEvent, SendCard, SendPost, EndRow
  <2>4. PICK t \in Setups, r \in Rows : StopWrite(t, r)
    BY <2>3, StopStep
  <2>5. t = s /\ row'[s] = r /\ r.sl \in Int
    BY <2>2, <2>4, Hand, RowFields DEF StopWrite
  <2>6. ~Ahead(s, snap[s].sl, r.sl)
    BY <2>2, <2>4, <2>5 DEF StopWrite
  <2> QED
    BY <2>1, <2>5, <2>6
<1> QED
  BY <1>1, TypedAlways, PTL DEF Spec, StopLoosensOnlyWhenStale

---------------------------------------------------------------------------
(* The tick dispatcher.                                                   *)

\* A task between two of its statements has a position in hand.
Handling == {"hydrateIndex", "close", "remove", "removeIndex"}
TasksHold ==
  /\ bpc # "idle" => bcur \in Positions
  /\ dpc \in Handling => dcur \in Positions
  /\ dpc = "close" => dreason \in Reasons

StoreTyped == TrackTypeOK /\ TasksHold

\* Whatever a task has read or stored has a row, and what it is about to drop from
\* the store is closed.
Known ==
  /\ \A p \in byId \cup hyd \cup outs : live[p] # "absent"
  /\ bpc # "idle" => live[bcur] # "absent"
  /\ dpc \in Handling => live[dcur] # "absent"
  /\ dpc \in {"remove", "removeIndex"} => live[dcur] = "closed"

Tracked == Known /\ IndexAgrees

\* A row comes into being, and is closed, for good.
Onward ==
  \A p \in Positions :
    /\ live[p] # "absent" => live'[p] # "absent"
    /\ live[p] = "closed" => live'[p] = "closed"

---------------------------------------------------------------------------
(* Types of the tracking.                                                 *)

\* Empty tables, an empty store and idle tasks.
LEMMA StoreTypedInit == TrackInit => StoreTyped
<1> SUFFICES ASSUME TrackInit PROVE StoreTyped
  OBVIOUS
<1>1. TrackTypeOK
  <2>1. tpLog \in [Positions -> 0..MaxTpLog] /\ failed \in Nat
    BY DEF TrackInit, MaxTpLog
  <2>2. feed \in [Keys -> Quotes \cup {NoTick}] /\ mark \in Quotes \cup {NoTick}
    BY DEF TrackInit, NoTick
  <2>3. reason \in [Positions -> Reasons \cup {"none"}] /\ dreason \in Reasons \cup {"none"}
    BY DEF TrackInit
  <2> QED
    BY <2>1, <2>2, <2>3 DEF TrackInit, TrackTypeOK
<1>2. TasksHold
  BY DEF TrackInit, TasksHold, Handling
<1> QED
  BY <1>1, <1>2 DEF StoreTyped

\* The reason a decision gives is one of the reasons, or none.
LEMMA CloseReasonType ==
  ASSUME NEW p \in Positions, NEW x
  PROVE  CloseReason(p, x) \in Reasons \cup {"none"}
BY DEF CloseReason, Reasons

\* Quotes, the bridge and the retiring loops.
LEMMA StoreTypedOutside ==
  ASSUME StoreTyped,
         \/ \E k \in Keys, x \in Quotes \cup {NoTick} : FeedQuote(k, x)
         \/ \E p \in Positions : InsertRow(p) \/ Retire(p)
         \/ BridgeStep \/ HydrateDue \/ WorkerRestart
  PROVE  StoreTyped'
<1> USE DEF StoreTyped, TrackTypeOK, TasksHold, Handling
<1>1. ASSUME NEW k \in Keys, NEW x \in Quotes \cup {NoTick}, FeedQuote(k, x) PROVE StoreTyped'
  BY <1>1 DEF FeedQuote, rowVars, storeVars, bridgeVars,
       dispVars, workVars
<1>2. ASSUME NEW p \in Positions, InsertRow(p) PROVE StoreTyped'
  BY <1>2 DEF InsertRow, storeVars, dispVars, workVars
<1>3. ASSUME NEW p \in Positions, Retire(p) PROVE StoreTyped'
  BY <1>3 DEF Retire, Close, Reasons, rowVars,
       storeVars, bridgeVars, dispVars, workVars
<1>4. ASSUME UpsertId PROVE StoreTyped'
  BY <1>4 DEF UpsertId, rowVars, dispVars, workVars
<1>5. ASSUME UpsertTick PROVE StoreTyped'
  BY <1>5, PositionsAssumption DEF UpsertTick, rowVars, dispVars, workVars
<1>6. ASSUME HydrateDue PROVE StoreTyped'
  BY <1>6 DEF HydrateDue, rowVars, storeVars, bridgeVars,
       workVars
<1>7. ASSUME WorkerRestart PROVE StoreTyped'
  <2>1. failed' \in Nat
    BY <1>7 DEF WorkerRestart, TrackFail
  <2>2. feed' \in [Keys -> Quotes \cup {NoTick}] /\ byTick' \in [Keys -> SUBSET Positions]
    BY <1>7 DEF WorkerRestart
  <2>3. TrackTypeOK'
    BY <1>7, <2>1, <2>2 DEF WorkerRestart, rowVars
  <2>4. TasksHold'
    BY <1>7 DEF WorkerRestart
  <2> QED
    BY <2>3, <2>4
<1> HIDE DEF StoreTyped, TrackTypeOK, TasksHold
<1>8. CASE \E k \in Keys, x \in Quotes \cup {NoTick} : FeedQuote(k, x)
  BY <1>1, <1>8
<1>9. CASE \E p \in Positions : InsertRow(p) \/ Retire(p)
  BY <1>2, <1>3, <1>9
<1>10. CASE BridgeStep
  BY <1>4, <1>5, <1>10 DEF BridgeStep
<1> QED
  BY <1>6, <1>7, <1>8, <1>9, <1>10

\* hydrate and the sweep.
LEMMA StoreTypedSweep ==
  ASSUME StoreTyped,
         \/ HydrateRead \/ HydrateTick \/ HydrateDone
         \/ (\E p \in Positions : HydrateId(p))
         \/ SweepStart \/ SweepDone \/ (\E k \in Keys : SweepKey(k))
         \/ (\E p \in Positions : Decide(p))
  PROVE  StoreTyped'
<1> USE DEF StoreTyped, TrackTypeOK, TasksHold, Handling
<1>1. ASSUME HydrateRead PROVE StoreTyped'
  <2>1. OpenPositions \subseteq Positions
    BY DEF OpenPositions
  <2>2. hyd' \in SUBSET Positions /\ failed' \in Nat /\ dpc' \in {"hydrate", "ready"}
    BY <1>1, <2>1 DEF HydrateRead, TrackFail
  <2> QED
    BY <1>1, <2>2 DEF HydrateRead, rowVars, storeVars,
         bridgeVars
<1>2. ASSUME HydrateTick PROVE StoreTyped'
  BY <1>2, PositionsAssumption DEF HydrateTick, rowVars, bridgeVars
<1>3. ASSUME HydrateDone PROVE StoreTyped'
  BY <1>3 DEF HydrateDone, rowVars, storeVars, bridgeVars,
       workVars
<1>4. ASSUME NEW p \in Positions, HydrateId(p) PROVE StoreTyped'
  BY <1>4 DEF HydrateId, rowVars, bridgeVars
<1>5. ASSUME SweepStart PROVE StoreTyped'
  BY <1>5 DEF SweepStart, rowVars, storeVars, bridgeVars
<1>6. ASSUME SweepDone PROVE StoreTyped'
  BY <1>6 DEF SweepDone, NoTick, rowVars, storeVars,
       bridgeVars
<1>7. ASSUME NEW k \in Keys, SweepKey(k) PROVE StoreTyped'
  BY <1>7 DEF SweepKey, rowVars, storeVars, bridgeVars
<1>8. ASSUME NEW p \in Positions, Decide(p) PROVE StoreTyped'
  <2>1. tpLog' \in [Positions -> 0..MaxTpLog]
    BY <1>8 DEF Decide, MaxTpLog
  <2> QED
    BY <1>8, <2>1, CloseReasonType DEF Decide, rowVars, storeVars,
         bridgeVars
<1> QED
  BY <1>1, <1>2, <1>3, <1>4, <1>5, <1>6, <1>7, <1>8

\* close_position and store.remove.
LEMMA StoreTypedClose ==
  ASSUME StoreTyped, ClosePosition \/ RemoveId \/ RemoveTick
  PROVE  StoreTyped'
<1> USE DEF StoreTyped, TrackTypeOK, TasksHold, Handling
<1>1. ASSUME ClosePosition PROVE StoreTyped'
  BY <1>1 DEF ClosePosition, Close, TrackFail, rowVars,
       storeVars, bridgeVars
<1>2. ASSUME RemoveId PROVE StoreTyped'
  BY <1>2 DEF RemoveId, rowVars, bridgeVars
<1>3. ASSUME RemoveTick PROVE StoreTyped'
  BY <1>3, PositionsAssumption DEF RemoveTick, Without, rowVars, bridgeVars
<1> QED
  BY <1>1, <1>2, <1>3

\* Types are inductive.
LEMMA StoreTypedStep == StoreTyped /\ [TrackNext]_trackVars => StoreTyped'
<1>1. CASE UNCHANGED trackVars
  BY <1>1 DEF StoreTyped, TrackTypeOK, TasksHold, trackVars,
       rowVars, storeVars, bridgeVars, dispVars,
       workVars
<1>2. CASE TrackNext
  BY <1>2, StoreTypedOutside, StoreTypedSweep, StoreTypedClose DEF TrackNext,
       DispatcherStep
<1> QED
  BY <1>1, <1>2

\* Types of the variables, and of what a task has in hand.
LEMMA StoreTypedAlways == TrackSpec => []StoreTyped
BY StoreTypedInit, StoreTypedStep, PTL DEF TrackSpec

\* Every variable of the rows, the store, the bridge and the dispatcher keeps its type.
THEOREM TrackingTypeCorrect == TrackSpec => []TrackTypeOK
<1>1. StoreTyped => TrackTypeOK
  BY DEF StoreTyped
<1> QED
  BY <1>1, StoreTypedAlways, PTL

---------------------------------------------------------------------------
(* Rows: the tracking of positions implements PositionLifecycle.          *)

\* A guarded close is a step of the life of its row, or none.
LEMMA CloseImplements ==
  ASSUME TrackTypeOK, NEW p \in Positions, NEW why \in Reasons, Close(p, why)
  PROVE  [Lifecycle!Next]_<<live, reason>>
<1>1. CASE live[p] = "open"
  <2>1. Lifecycle!CloseRow(p, why)
    BY <1>1 DEF Close, Lifecycle!CloseRow
  <2> QED
    BY <2>1 DEF Lifecycle!Next
<1>2. CASE live[p] # "open"
  BY <1>2 DEF Close, rowVars
<1> QED
  BY <1>1, <1>2

\* Three actions write rows: the bridge's insert, a retiring loop, the dispatcher.
LEMMA NextImplements ==
  ASSUME StoreTyped, [TrackNext]_trackVars
  PROVE  [Lifecycle!Next]_<<live, reason>>
<1>1. ASSUME NEW p \in Positions, InsertRow(p) PROVE [Lifecycle!Next]_<<live, reason>>
  <2>1. Lifecycle!OpenRow(p)
    BY <1>1 DEF InsertRow, Lifecycle!OpenRow
  <2> QED
    BY <2>1 DEF Lifecycle!Next
<1>2. ASSUME NEW p \in Positions, Retire(p) PROVE [Lifecycle!Next]_<<live, reason>>
  <2>1. "retired" \in Reasons
    BY DEF Reasons
  <2> QED
    BY <1>2, <2>1, CloseImplements DEF Retire, StoreTyped
<1>3. ASSUME ClosePosition PROVE [Lifecycle!Next]_<<live, reason>>
  <2>1. dcur \in Positions /\ dreason \in Reasons
    BY <1>3 DEF ClosePosition, StoreTyped, TasksHold, Handling
  <2> QED
    BY <1>3, <2>1, CloseImplements DEF ClosePosition, StoreTyped, rowVars
<1>4. CASE UNCHANGED rowVars
  BY <1>4 DEF rowVars
<1>5. \/ UNCHANGED rowVars
      \/ ClosePosition
      \/ \E p \in Positions : InsertRow(p) \/ Retire(p)
  BY DEF TrackNext, trackVars, BridgeStep, DispatcherStep,
       FeedQuote, UpsertId, UpsertTick, HydrateDue,
         HydrateRead, HydrateTick, HydrateDone, HydrateId,
         SweepStart, SweepDone, SweepKey,
         Decide, RemoveId, RemoveTick, WorkerRestart
<1> QED
  BY <1>1, <1>2, <1>3, <1>4, <1>5

\* A live_positions row is opened once, closed once and keeps its first reason,
\* whichever of the dispatcher, the time stop and the allocator closes it.
THEOREM RowsImplementLifecycle == TrackSpec => RowLifecycle
<1>1. TrackInit => Lifecycle!Init
  BY DEF TrackInit, Lifecycle!Init
<1>2. StoreTyped /\ [TrackNext]_trackVars => [Lifecycle!Next]_<<live, reason>>
  BY NextImplements
<1> QED
  BY <1>1, <1>2, StoreTypedAlways, PTL DEF TrackSpec, RowLifecycle,
       Lifecycle!Spec

\* A row that exists stays, and a closed one stays closed.
LEMMA OnwardStep ==
  ASSUME StoreTyped, [TrackNext]_trackVars
  PROVE  Onward
<1>1. ASSUME NEW p \in Positions, Lifecycle!OpenRow(p) PROVE Onward
  BY <1>1 DEF Lifecycle!OpenRow, Onward, StoreTyped, TrackTypeOK
<1>2. ASSUME NEW p \in Positions, NEW why \in Reasons, Lifecycle!CloseRow(p, why) PROVE Onward
  BY <1>2 DEF Lifecycle!CloseRow, Onward, StoreTyped, TrackTypeOK
<1>3. CASE UNCHANGED <<live, reason>>
  BY <1>3 DEF Onward
<1> QED
  BY <1>1, <1>2, <1>3, NextImplements DEF Lifecycle!Next

---------------------------------------------------------------------------
(* The store.                                                             *)

StoreFrame == <<byId, byTick, hyd, outs, bpc, bcur, dpc, dcur>>

\* An empty store, and nobody has anything in hand.
LEMMA TrackedInit == TrackInit => Tracked
BY DEF TrackInit, Tracked, Known, IndexAgrees, Handling

\* Steps that leave store and tasks alone may only move rows onward.
LEMMA TrackedFrame ==
  ASSUME StoreTyped, Tracked, Onward, UNCHANGED StoreFrame
  PROVE  Tracked'
BY DEF StoreTyped, TrackTypeOK, TasksHold, Handling, Tracked, Known, IndexAgrees,
     Indexed, Upserting, Onward, StoreFrame

\* The bridge puts a row into by_id and then into by_tick.
LEMMA TrackedBridge ==
  ASSUME StoreTyped, Tracked, (\E p \in Positions : InsertRow(p)) \/ BridgeStep
  PROVE  Tracked'
<1> USE DEF StoreTyped, TrackTypeOK, TasksHold, Handling, Tracked, Known,
  IndexAgrees, Indexed, Upserting
<1>1. ASSUME NEW p \in Positions, InsertRow(p) PROVE Tracked'
  BY <1>1 DEF InsertRow, storeVars, dispVars, workVars
<1>2. ASSUME UpsertId PROVE Tracked'
  BY <1>2 DEF UpsertId, rowVars, dispVars, workVars
<1>3. ASSUME UpsertTick PROVE Tracked'
  BY <1>3, PositionsAssumption DEF UpsertTick, rowVars, dispVars, workVars
<1> HIDE DEF StoreTyped, Tracked
<1> QED
  BY <1>1, <1>2, <1>3 DEF BridgeStep

\* hydrate reads rows that exist and upserts them in the same two halves.
LEMMA TrackedHydrate ==
  ASSUME StoreTyped, Tracked,
         \/ HydrateRead \/ HydrateTick \/ HydrateDone
         \/ (\E p \in Positions : HydrateId(p))
  PROVE  Tracked'
<1> USE DEF StoreTyped, TrackTypeOK, TasksHold, Handling, Tracked, Known,
  IndexAgrees, Indexed, Upserting
<1>1. ASSUME HydrateRead PROVE Tracked'
  BY <1>1 DEF HydrateRead, OpenPositions, rowVars, storeVars,
       bridgeVars
<1>2. ASSUME HydrateTick PROVE Tracked'
  BY <1>2, PositionsAssumption DEF HydrateTick, rowVars, bridgeVars
<1>3. ASSUME HydrateDone PROVE Tracked'
  BY <1>3 DEF HydrateDone, rowVars, storeVars, bridgeVars,
       workVars
<1>4. ASSUME NEW p \in Positions, HydrateId(p) PROVE Tracked'
  BY <1>4 DEF HydrateId, rowVars, bridgeVars
<1> HIDE DEF StoreTyped, Tracked
<1> QED
  BY <1>1, <1>2, <1>3, <1>4

\* The sweep evaluates what it finds in the store; it takes one position in hand.
LEMMA TrackedSweep ==
  ASSUME StoreTyped, Tracked,
         \/ SweepStart \/ SweepDone \/ (\E k \in Keys : SweepKey(k))
         \/ (\E p \in Positions : Decide(p))
  PROVE  Tracked'
<1> USE DEF StoreTyped, TrackTypeOK, TasksHold, Handling, Tracked, Known,
  IndexAgrees, Indexed, Upserting
<1>1. ASSUME SweepStart PROVE Tracked'
  BY <1>1 DEF SweepStart, rowVars, storeVars, bridgeVars
<1>2. ASSUME SweepDone PROVE Tracked'
  BY <1>2 DEF SweepDone, rowVars, storeVars, bridgeVars
<1>3. ASSUME NEW k \in Keys, SweepKey(k) PROVE Tracked'
  BY <1>3 DEF SweepKey, rowVars, storeVars, bridgeVars
<1>4. ASSUME NEW p \in Positions, Decide(p) PROVE Tracked'
  BY <1>4 DEF Decide, rowVars, storeVars, bridgeVars
<1> HIDE DEF StoreTyped, Tracked
<1> QED
  BY <1>1, <1>2, <1>3, <1>4

\* What leaves the store has been closed first.
LEMMA TrackedClose ==
  ASSUME StoreTyped, Tracked, ClosePosition \/ RemoveId \/ RemoveTick \/ WorkerRestart
  PROVE  Tracked'
<1> USE DEF StoreTyped, TrackTypeOK, TasksHold, Handling, Tracked, Known,
  IndexAgrees, Indexed, Upserting
<1>1. ASSUME ClosePosition PROVE Tracked'
  BY <1>1 DEF ClosePosition, Close, rowVars, storeVars,
       bridgeVars
<1>2. ASSUME RemoveId PROVE Tracked'
  BY <1>2 DEF RemoveId, rowVars, bridgeVars
<1>3. ASSUME RemoveTick PROVE Tracked'
  BY <1>3, PositionsAssumption DEF RemoveTick, Without, rowVars, bridgeVars
<1>4. ASSUME WorkerRestart PROVE Tracked'
  BY <1>4 DEF WorkerRestart, rowVars
<1> HIDE DEF StoreTyped, Tracked
<1> QED
  BY <1>1, <1>2, <1>3, <1>4

\* Tracked is inductive relative to the types.
LEMMA TrackedStep == StoreTyped /\ Tracked /\ [TrackNext]_trackVars => Tracked'
<1> SUFFICES ASSUME StoreTyped, Tracked, [TrackNext]_trackVars PROVE Tracked'
  OBVIOUS
<1>1. CASE \/ UNCHANGED trackVars
           \/ \E k \in Keys, x \in Quotes \cup {NoTick} : FeedQuote(k, x)
           \/ \E p \in Positions : Retire(p)
           \/ HydrateDue
  <2>1. UNCHANGED StoreFrame
    BY <1>1 DEF trackVars, FeedQuote, Retire, HydrateDue, StoreFrame,
         storeVars, bridgeVars, dispVars, workVars
  <2> QED
    BY <2>1, OnwardStep, TrackedFrame
<1> QED
  BY <1>1, TrackedBridge, TrackedHydrate, TrackedSweep, TrackedClose DEF TrackNext,
       DispatcherStep

\* LivePositionStore: whatever order the two locks of an upsert and of a remove are
\* taken in, an open position of by_id is indexed or its upsert is under way.
THEOREM StoreMapsAgree == TrackSpec => []IndexAgrees
<1>1. Tracked => IndexAgrees
  BY DEF Tracked
<1> QED
  BY <1>1, StoreTypedAlways, TrackedInit, TrackedStep, PTL DEF TrackSpec

\* A step drops only a closed position from by_id, unless the process restarts.
LEMMA DropStep ==
  ASSUME StoreTyped, Tracked, [TrackNext]_trackVars
  PROVE  \A p \in byId : p \notin byId' => live[p] # "open" \/ dpc' = "boot"
<1>1. CASE RemoveId
  BY <1>1 DEF RemoveId, Tracked, Known
<1>2. CASE WorkerRestart
  BY <1>2 DEF WorkerRestart
<1>3. CASE byId \subseteq byId'
  BY <1>3
<1>4. RemoveId \/ WorkerRestart \/ byId \subseteq byId'
  BY DEF TrackNext, trackVars, storeVars, BridgeStep,
       DispatcherStep, FeedQuote, InsertRow, Retire,
       UpsertId,
         UpsertTick, HydrateDue, HydrateRead, HydrateTick,
         HydrateDone, HydrateId,
         SweepStart, SweepDone, SweepKey, Decide,
         ClosePosition, RemoveTick
<1> QED
  BY <1>1, <1>2, <1>3, <1>4

\* close_position: an open position leaves the store only with the process.
THEOREM OpenNeverDropped == TrackSpec => OpenStaysTracked
<1>1. StoreTyped /\ Tracked /\ [TrackNext]_trackVars
      => [\A p \in byId : p \notin byId' => live[p] # "open" \/ dpc' = "boot"]_trackVars
  BY DropStep
<1> QED
  BY <1>1, StoreTypedAlways, TrackedInit, TrackedStep, PTL DEF TrackSpec,
       OpenStaysTracked
==============================================================================
