---------------------------- MODULE SetupWatcher ----------------------------
(***************************************************************************)
(* The watcher of armed setups: entry, targets, stop.                      *)
(*                                                                         *)
(* A tick of setup_watcher_loop reads every open row of qtss_setups once   *)
(* and then works on those copies: it trails the stop, ratchets it (poz    *)
(* koruma), asks for advice near a target, and dispatches what the quote   *)
(* crossed to DbPersist, the Telegram outbox and the X outbox, in that     *)
(* order.  Every write is one UPDATE of the row as it is by then.  Prices  *)
(* are integers, percentages thousandths; health only chooses among the    *)
(* Smart Target actions, and audit rows and health snapshots are left out. *)
(***************************************************************************)
EXTENDS Integers, Sequences, FiniteSets

CONSTANTS
  Setups,
  Long,             \* the long ones; the others are short
  NoSetup,          \* "no row in hand"
  Entry, EntrySl,   \* entry_price, entry_sl
  StoredSl,         \* current_sl the insert left: EntrySl, or its numeric rounding
  Tps,              \* raw_meta tp1_price .. tp3_price, 0 for none
  Prices,           \* quotes the feed may carry for each setup's symbol
  TrailPermille, ApproachPermille, MinGain, Buffer, TrailLastOnly,
  Llm,              \* actions an LLM judge may answer, {} without one
  Config,           \* values (poz_koruma.enabled, approach enabled) take
  Deployments       \* what a behaviour may start from:
                    \*   open    the setups qtss_setups holds, all open
                    \*   others  whether other loops close setups
                    \*   days    bound: ratchet days
                    \*   kinds   kinds of failure that may happen
                    \*   faults  bound: how many failures there are

Levels == 1..3
Actions == {"ride", "scale", "exit", "tighten", "trail"}
Bands == {"healthy", "warn", "danger", "critical"}
Terminal == {"tp_final", "sl_hit", "trail_stop"}
Kinds == Terminal \cup {"entry_touched", "tp_hit", "tp_partial", "sl_ratcheted"}

ASSUME SetupsAssumption == NoSetup \notin Setups /\ Long \subseteq Setups
ASSUME LevelsAssumption ==
  /\ Entry \in [Setups -> Nat \ {0}]
  /\ EntrySl \in [Setups -> Nat] /\ StoredSl \in [Setups -> Nat]
  /\ Tps \in [Setups -> [Levels -> Nat]]
  /\ Prices \in [Setups -> SUBSET (Nat \ {0})]
ASSUME TuningAssumption ==
  /\ {TrailPermille, ApproachPermille, MinGain, Buffer} \subseteq Nat
  /\ TrailLastOnly \in BOOLEAN /\ Llm \subseteq Actions
  /\ Config \subseteq [koruma : BOOLEAN, approach : BOOLEAN]
ASSUME BoundsAssumption ==
  Deployments \subseteq [open : SUBSET Setups, others : BOOLEAN, days : Nat,
                         kinds : SUBSET {"crash", "stop", "bit", "close", "card"}, faults : Nat]

VARIABLES
  row,     \* qtss_setups
  dep,     \* the deployment
  quote,   \* PriceTickStore, 0 without a tick
  day,     \* ratchet day
  pc, conf,
  snap,    \* list_watcher_rows of this tick
  todo,    \* rows of it not reached
  cur, mid,\* the row in hand and the quote read for it
  queue,   \* transitions detected and not dispatched
  ev,      \* the event being dispatched
  cards,   \* terminal kinds in notify_outbox, one row each by its dedup_key
  tpCards, \* tp_hit and tp_partial rows in notify_outbox, per level
  posts,   \* terminal rows in x_outbox, which has no dedup_key
  faults

worldVars == <<dep, quote, day>>
passVars == <<conf, snap, todo, cur, mid>>
eventVars == <<queue, ev>>
outVars == <<cards, tpCards, posts>>
vars == <<row, worldVars, pc, passVars, eventVars, outVars, faults>>

Rows == [open : BOOLEAN, reason : Terminal \cup {"none", "other"},
         sl : Int, anchor : Nat, advised : 0..3, hits : SUBSET Levels, touched : BOOLEAN,
         ref : Nat, cum : Nat, day : Nat]
Inserted(s) ==
  [open |-> TRUE, reason |-> "none", sl |-> StoredSl[s], anchor |-> 0, advised |-> 0,
   hits |-> {}, touched |-> FALSE, ref |-> 0, cum |-> 0, day |-> 0]

Event(kind, tp) == [kind |-> kind, tp |-> tp]
NoEvent == Event("none", 0)
Events == [kind : Kinds \cup {"none"}, tp : 0..3]

TypeOK ==
  /\ row \in [Setups -> Rows] /\ snap \in [Setups -> Rows]
  /\ quote \in [Setups -> Nat]
  /\ dep \in Deployments
  /\ day \in Nat
  /\ pc \in {"idle", "rows", "trail", "koruma", "approach", "detect", "event",
             "side", "close", "card", "post"}
  /\ conf \in Config
  /\ todo \in SUBSET Setups /\ cur \in Setups \cup {NoSetup}
  /\ mid \in Nat
  /\ queue \in Seq(Events) /\ ev \in Events
  /\ cards \in [Setups -> SUBSET Terminal]
  /\ tpCards \in [Setups -> [Levels -> 0..2]]
  /\ posts \in [Setups -> 0..2]
  /\ faults \in Nat

Init ==
  /\ dep \in Deployments
  /\ row = [s \in Setups |-> [Inserted(s) EXCEPT !.open = s \in dep.open]]
  /\ quote = [s \in Setups |-> 0]
  /\ day = 1
  /\ pc = "idle"
  /\ conf \in Config
  /\ snap = [s \in Setups |-> Inserted(s)]
  /\ todo = {} /\ cur = NoSetup /\ mid = 0
  /\ queue = <<>> /\ ev = NoEvent
  /\ cards = [s \in Setups |-> {}]
  /\ tpCards = [s \in Setups |-> [i \in Levels |-> 0]]
  /\ posts = [s \in Setups |-> 0]
  /\ faults = 0

---------------------------------------------------------------------------
(* Prices, as seen by a long or a short.                                  *)

\* x is better for the position than y; of two stops, the tighter one.
Ahead(s, x, y) == IF s \in Long THEN x > y ELSE x < y
Reached(s, x, target) == ~Ahead(s, target, x)
Tightest(s, stops) == CHOOSE x \in stops : \A y \in stops : ~Ahead(s, y, x)

\* trail_sl_from_anchor
TrailSl(s, x) ==
  (x * (IF s \in Long THEN 1000 - TrailPermille ELSE 1000 + TrailPermille)) \div 1000

\* daily_gain_pct
Gain(s, ref, x) == ((IF s \in Long THEN x - ref ELSE ref - x) * 1000) \div ref

\* compute_ratcheted_sl: never below the entry, whatever the price is now; a short's
\* level falls below zero when the gain exceeds the entry.
Locked(s, cum) ==
  LET net == IF cum > Buffer THEN cum - Buffer ELSE 0
  IN  (Entry[s] * (IF s \in Long THEN 1000 + net ELSE 1000 - net)) \div 1000
RatchetedUnclamped(s, cum) == Tightest(s, {Locked(s, cum), EntrySl[s]})
Ratcheted(s, cum) == Tightest(s, {Locked(s, cum), EntrySl[s], snap[s].sl})

\* approaching_tp: the first level not hit that the quote is near and has not crossed.
Near(s, i) ==
  /\ Tps[s][i] > 0 /\ i \notin snap[s].hits
  /\ (IF Tps[s][i] > mid THEN Tps[s][i] - mid ELSE mid - Tps[s][i]) * 1000
       <= ApproachPermille * Tps[s][i]
  /\ Ahead(s, Tps[s][i], mid)
Approaching(s, i) == Near(s, i) /\ \A j \in Levels : j < i => ~Near(s, j)

\* detect_transitions: entry, then the stop alone, else every level newly reached.
NewAgain(s, i) == Tps[s][i] > 0 /\ Reached(s, mid, Tps[s][i])
New(s, i) == Tps[s][i] > 0 /\ i \notin snap[s].hits /\ Reached(s, mid, Tps[s][i])
TpEvent(s, i) == IF New(s, i) THEN <<Event("tp_hit", i)>> ELSE <<>>
EntryEvent(s) == IF ~snap[s].touched /\ Reached(s, mid, Entry[s])
                   THEN <<Event("entry_touched", 0)>> ELSE <<>>
StopCrossed(s) == Ahead(s, snap[s].sl, mid)
StopReached(s) == ~Ahead(s, mid, snap[s].sl)
Transitions(s) ==
  EntryEvent(s) \o (IF StopReached(s) THEN <<Event("sl_hit", 0)>>
                    ELSE TpEvent(s, 1) \o TpEvent(s, 2) \o TpEvent(s, 3))

---------------------------------------------------------------------------
(* Smart Target.                                                          *)

\* tp_index >= total_tps
LastTp(s, i) == i >= Cardinality({j \in Levels : Tps[s][j] > 0})

\* rule_evaluate
Rule(last, band) ==
  CASE band = "healthy" -> "ride"
    [] band = "critical" -> "exit"
    [] band = "warn"     -> IF last THEN "exit" ELSE "scale"
    [] OTHER             -> IF last THEN "exit" ELSE "tighten"

\* rule_evaluate_approach
ApproachRule(last, band) ==
  IF band = "healthy" /\ (last \/ ~TrailLastOnly) THEN "trail" ELSE Rule(last, band)

\* decide and decide_on_approach: the rule table, "ride" above rule_below, or the judge.
HitActions(s, i) == {Rule(LastTp(s, i), b) : b \in Bands} \cup {"ride"} \cup Llm
ApproachActions(s, i) == {ApproachRule(LastTp(s, i), b) : b \in Bands} \cup Llm

\* action_to_kind
KindOf(action) == CASE action = "ride"  -> "tp_hit"
                    [] action = "scale" -> "tp_partial"
                    [] action = "exit"  -> "tp_final"
                    [] OTHER            -> "sl_ratcheted"

\* A stop fired: under a trail, or away from entry_sl, it is a trail_stop.
StopKindByEntry(s) == IF snap[s].sl # Entry[s] THEN "trail_stop" ELSE "sl_hit"
StopKind(s) == IF snap[s].anchor > 0 \/ snap[s].sl # EntrySl[s] THEN "trail_stop" ELSE "sl_hit"

\* A failure of kind k happens (k is one the run allows and the bound is not reached).
Fail(k) == k \in dep.kinds /\ faults < dep.faults /\ faults' = faults + 1

\* close_setup: UPDATE ... WHERE closed_at IS NULL
CloseRow(s, why) ==
  IF row[s].open THEN row' = [row EXCEPT ![s].open = FALSE, ![s].reason = why]
                 ELSE UNCHANGED row

---------------------------------------------------------------------------
(* What goes on around the watcher.                                       *)

\* The feed writes the store; a quote stays until the next one.  One that no pass will
\* read any more is left out.
Quote(s, x) ==
  /\ row[s].open \/ s \in todo
  /\ quote[s] # x
  /\ quote' = [quote EXCEPT ![s] = x]
  /\ UNCHANGED <<row, dep, day, pc, passVars, eventVars, outVars, faults>>

NewDay ==
  /\ day < dep.days
  /\ day' = day + 1
  /\ UNCHANGED <<row, dep, quote, pc, passVars, eventVars, outVars, faults>>

\* Time stop, supersede or a failed live dispatch closes the row.
CloseByOther(s) ==
  /\ dep.others /\ row[s].open
  /\ CloseRow(s, "other")
  /\ UNCHANGED <<worldVars, pc, passVars, eventVars, outVars, faults>>

---------------------------------------------------------------------------
(* setup_watcher_loop and tick_once.                                      *)

\* The configuration of the tick, then list_watcher_rows.
OpenRows == {s \in Setups : row[s].open}
TickRead ==
  /\ pc = "idle"
  /\ conf' \in Config
  /\ todo' = OpenRows
  /\ snap' = row
  /\ pc' = "rows"
  /\ UNCHANGED <<row, worldVars, cur, mid, eventVars, outVars, faults>>

\* A row, and the quote its whole pass uses; without a quote it is skipped.
NextRow(s) ==
  /\ pc = "rows" /\ s \in todo
  /\ todo' = todo \ {s}
  /\ IF quote[s] = 0
       THEN UNCHANGED <<pc, cur, mid>>
       ELSE cur' = s /\ mid' = quote[s] /\ pc' = "trail"
  /\ UNCHANGED <<row, worldVars, conf, snap, eventVars, outVars, faults>>

\* run_trail_advance: a better quote moves the anchor, and the stop if that tightens
\* the stop the tick has read.
AdvanceTrail(s) ==
  /\ pc = "trail" /\ cur = s
  /\ IF snap[s].anchor > 0 /\ Ahead(s, mid, snap[s].anchor)
       THEN \/ /\ row' = [row EXCEPT ![s].anchor = mid,
                                     ![s].sl = Tightest(s, {TrailSl(s, mid), snap[s].sl})]
               /\ UNCHANGED faults
            \/ Fail("stop") /\ UNCHANGED row
       ELSE UNCHANGED <<row, faults>>
  /\ pc' = "koruma"
  /\ UNCHANGED <<worldVars, passVars, eventVars, outVars>>

\* run_poz_koruma: once a ratchet day, from the reference the tick has read.
RatchetWrite(s) ==
  LET ref == IF snap[s].ref = 0 THEN Entry[s] ELSE snap[s].ref
      cum == snap[s].cum + Gain(s, ref, mid)
  IN  IF Gain(s, ref, mid) < MinGain
        THEN row' = [row EXCEPT ![s].ref = mid, ![s].day = day, ![s].cum = snap[s].cum]
        ELSE row' = [row EXCEPT ![s].ref = mid, ![s].day = day, ![s].cum = cum,
                                ![s].sl = Ratcheted(s, cum)]
PozKoruma(s) ==
  /\ pc = "koruma" /\ cur = s
  /\ IF conf.koruma /\ snap[s].day < day
       THEN \/ RatchetWrite(s) /\ UNCHANGED faults
            \/ Fail("stop") /\ UNCHANGED row
       ELSE UNCHANGED <<row, faults>>
  /\ pc' = "approach"
  /\ UNCHANGED <<worldVars, passVars, eventVars, outVars>>

\* handle_tp_approach: advice for level i, then one UPDATE that enables the trail or
\* only marks the level as advised.
Advise(s, i, action) ==
  LET advised == [row EXCEPT ![s].advised = i]
  IN  row' = IF action = "trail" /\ Ahead(s, TrailSl(s, mid), snap[s].sl)
               THEN [advised EXCEPT ![s].anchor = mid, ![s].sl = TrailSl(s, mid)]
               ELSE advised
Approach(s) ==
  /\ pc = "approach" /\ cur = s
  /\ \/ \E i \in Levels :
          /\ conf.approach /\ snap[s].anchor = 0
          /\ Approaching(s, i) /\ snap[s].advised < i
          /\ \/ (\E a \in ApproachActions(s, i) : Advise(s, i, a)) /\ UNCHANGED faults
             \/ Fail("stop") /\ UNCHANGED row
     \/ /\ ~(conf.approach /\ snap[s].anchor = 0
             /\ \E i \in Levels : Approaching(s, i) /\ snap[s].advised < i)
        /\ UNCHANGED <<row, faults>>
  /\ pc' = "detect"
  /\ UNCHANGED <<worldVars, passVars, eventVars, outVars>>

Detect(s) ==
  /\ pc = "detect" /\ cur = s
  /\ queue' = Transitions(s)
  /\ pc' = "event"
  /\ UNCHANGED <<row, worldVars, passVars, ev, outVars, faults>>

\* The next transition becomes an event: a target asks Smart Target, a stop is named.
DecideEvent(s) ==
  /\ pc = "event" /\ cur = s /\ queue # <<>>
  /\ LET d == Head(queue)
     IN  CASE d.kind = "tp_hit" -> \E a \in HitActions(s, d.tp) : ev' = Event(KindOf(a), d.tp)
           [] d.kind = "sl_hit" -> ev' = Event(StopKind(s), 0)
           [] OTHER             -> ev' = d
  /\ queue' = Tail(queue)
  /\ pc' = "side"
  /\ UNCHANGED <<row, worldVars, passVars, outVars, faults>>

\* set_tp_hit_bit: level i is bit i - 1 of the bitmap, written here as the level.
HitBit(i) == {i}

\* DbPersist, second step: entry_touched_at or a bit of tp_hits_bitmap.
MarkSide(s) ==
  /\ pc = "side" /\ cur = s
  /\ \/ /\ row' = CASE ev.kind = "entry_touched" -> [row EXCEPT ![s].touched = TRUE]
                    [] ev.kind \in {"tp_hit", "tp_partial", "tp_final"} ->
                         [row EXCEPT ![s].hits = @ \cup HitBit(ev.tp)]
                    [] OTHER -> row
        /\ UNCHANGED faults
     \/ Fail("bit") /\ UNCHANGED row
  /\ pc' = "close"
  /\ UNCHANGED <<worldVars, passVars, eventVars, outVars>>

\* DbPersist, third step: a terminal event closes the row; a failure is logged.
CloseTerminal(s) ==
  /\ pc = "close" /\ cur = s
  /\ IF ev.kind \in Terminal
       THEN \/ CloseRow(s, ev.kind) /\ UNCHANGED faults
            \/ Fail("close") /\ UNCHANGED row
       ELSE UNCHANGED <<row, faults>>
  /\ pc' = "card"
  /\ UNCHANGED <<worldVars, passVars, eventVars, outVars>>

\* The Telegram row: one per terminal kind by its dedup_key, any number of the others.
SendCard(s) ==
  /\ pc = "card" /\ cur = s
  /\ \/ /\ cards' = IF ev.kind \in Terminal THEN [cards EXCEPT ![s] = @ \cup {ev.kind}] ELSE cards
        /\ tpCards' = IF ev.kind \in {"tp_hit", "tp_partial"} /\ tpCards[s][ev.tp] < 2
                        THEN [tpCards EXCEPT ![s][ev.tp] = @ + 1] ELSE tpCards
        /\ UNCHANGED faults
     \/ Fail("card") /\ UNCHANGED <<cards, tpCards>>
  /\ pc' = "post"
  /\ UNCHANGED <<row, worldVars, passVars, eventVars, posts>>

\* The X row, without a dedup_key.
SendPost(s) ==
  /\ pc = "post" /\ cur = s
  /\ posts' = IF ev.kind \in Terminal /\ posts[s] < 2 THEN [posts EXCEPT ![s] = @ + 1] ELSE posts
  /\ ev' = NoEvent
  /\ pc' = "event"
  /\ UNCHANGED <<row, worldVars, passVars, queue, cards, tpCards, faults>>

EndRow(s) ==
  /\ pc = "event" /\ cur = s /\ queue = <<>>
  /\ cur' = NoSetup /\ mid' = 0
  /\ pc' = "rows"
  /\ UNCHANGED <<row, worldVars, conf, snap, todo, eventVars, outVars, faults>>

EndTick ==
  /\ pc = "rows" /\ todo = {}
  /\ pc' = "idle"
  /\ UNCHANGED <<row, worldVars, passVars, eventVars, outVars, faults>>

\* The worker dies and starts over: the rows and the outboxes stay.
Restart ==
  /\ Fail("crash")
  /\ pc' = "idle" /\ todo' = {} /\ cur' = NoSetup /\ mid' = 0
  /\ queue' = <<>> /\ ev' = NoEvent
  /\ quote' = [s \in Setups |-> 0]
  /\ UNCHANGED <<row, dep, day, conf, snap, outVars>>

---------------------------------------------------------------------------
PassStep(s) ==
  \/ AdvanceTrail(s) \/ PozKoruma(s) \/ Approach(s)
  \/ Detect(s) \/ DecideEvent(s)
  \/ MarkSide(s) \/ CloseTerminal(s) \/ SendCard(s) \/ SendPost(s)
  \/ EndRow(s)

WatcherStep == TickRead \/ EndTick \/ \E s \in Setups : NextRow(s) \/ PassStep(s)

Next ==
  \/ \E s \in Setups : CloseByOther(s) \/ \E x \in Prices[s] : Quote(s, x)
  \/ NewDay
  \/ WatcherStep
  \/ Restart

Spec == Init /\ [][Next]_vars

\* The loop sleeps and ticks again whatever its last tick did, and the judge answers.
FairSpec == Spec /\ WF_vars(WatcherStep)

---------------------------------------------------------------------------
(* Properties.                                                            *)

Loosened(s) == Ahead(s, row[s].sl, row'[s].sl)

\* The two ratchets and the trail work on the copy the tick has read: a write can
\* loosen the stop only when the row has moved since that read.
StopLoosensOnlyWhenStale == [][\A s \in Setups : Loosened(s) => row[s].sl # snap[s].sl]_vars

\* Telegram: the bit is written before the card, so a level is announced at most
\* once however often the worker dies.
TpCardOnce == \A s \in Setups, i \in Levels : tpCards[s][i] <= 1

\* Telegram and X: a close card or post is only out for a closed row; the card names
\* the reason on the row unless another loop had closed it first, so there is one at
\* most.
CloseCardsAgree ==
  \A s \in Setups :
    /\ posts[s] > 0 => ~row[s].open
    /\ \A k \in cards[s] :
         ~row[s].open /\ row[s].reason \in {k, "other"} /\ cards[s] = {k}

\* What the outboxes are given is true of the row, and given once, in deployments where
\* neither the bit nor the close is lost: DbPersist logs those and the cards still go out.
CardsOnce == dep.kinds \cap {"bit", "close"} = {} => TpCardOnce /\ CloseCardsAgree

\* tick_once: a trail_stop is a stop that had been tightened past entry_sl, where the
\* insert stored entry_sl and current_sl alike.
TrailStopMeansMoved ==
  \A s \in Setups :
    StoredSl[s] = EntrySl[s] /\ row[s].reason = "trail_stop" => Ahead(s, row[s].sl, EntrySl[s])

\* A row whose stop is crossed does not stay open for ever while quotes stay beyond it.
StopCloses ==
  \A s \in Setups :
    []<>~(row[s].open /\ quote[s] # 0 /\ ~Ahead(s, quote[s], row[s].sl))
=============================================================================
