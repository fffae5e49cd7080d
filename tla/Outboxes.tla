------------------------------ MODULE Outboxes ------------------------------
(***************************************************************************)
(* The messages the worker sends to people, and the three tables they wait *)
(* in:                                                                     *)
(*                                                                         *)
(*   lifecycle handlers --> notify_outbox --> notify_outbox_loop           *)
(*                     \--> x_outbox ------> x_publisher_loop              *)
(*   setup_broadcast_outbox --> setup_publisher_loop --> x_outbox          *)
(*   report_scheduler_loop ----------------------------> x_outbox          *)
(*                                                                         *)
(* A worker process runs the loops the configuration enables.  The tables  *)
(* outlive it; what a loop has in hand does not.  An action is what a loop *)
(* does from one await to the next.                                        *)
(***************************************************************************)
EXTENDS Naturals, FiniteSets

CONSTANTS
  Procs,        \* worker processes on the database
  Events,       \* terminal lifecycle events: the dedup keys of notify_outbox
  Setups,       \* setups announced through setup_broadcast_outbox
  Days,         \* days 1..Days; a report window closes on each
  None,         \* "no row in hand"
  MaxX,         \* bound: rows x_outbox may come to hold
  XBatch,       \* x.publisher.batch_limit
  DailyCap,     \* x.publisher.daily_cap
  MaxAttempts,  \* MAX_ATTEMPTS of the X publisher
  BcastBatch,   \* setup_publisher.batch_limit
  BcastMax,     \* setup_publisher.max_attempts
  MaxEmits,     \* bound: how often one event is emitted
  Deployments,  \* which loops each process may run
  Faults,       \* kinds of failure that may happen
  MaxFaults     \* bound: how many failures a behaviour has

\* "watch" is the setup watcher, whose events the handlers turn into rows; "announce"
\* is whoever enqueues new setups.
Loops == {"watch", "announce", "notify", "x", "bcast", "report"}
XIds == 1 .. MaxX
FaultKinds == {"crash", "mark", "count", "lost", "insert"}

ASSUME RowsAssumption ==
  IsFiniteSet(Procs) /\ IsFiniteSet(Events) /\ IsFiniteSet(Setups) /\ MaxX \in Nat
\* What a row announces tells where it comes from.
ASSUME NamesAssumption ==
  Events \cap Setups = {} /\ (Events \cup Setups) \cap (1 .. Days) = {}
ASSUME NoneAssumption == None \notin Events \cup Setups \cup XIds \cup (1 .. Days)
ASSUME CapsAssumption ==
  /\ XBatch \in Nat \ {0} /\ DailyCap \in Nat \ {0}
  /\ MaxAttempts \in Nat /\ MaxAttempts >= 2
  /\ BcastBatch \in Nat \ {0} /\ BcastMax \in Nat \ {0}
  /\ MaxEmits \in Nat /\ Days \in Nat \ {0}
ASSUME DeploymentsAssumption == Deployments \subseteq [Procs -> SUBSET Loops]
ASSUME FaultsAssumption == Faults \subseteq FaultKinds /\ MaxFaults \in Nat

VARIABLES
  on,        \* the loops each process runs
  note,      \* notify_outbox.status of an event's row
  noteNo,    \* order of created_at
  noteTries, \* attempt_count
  told,      \* Telegram messages of the event
  emits,     \* times the event was emitted
  emitting,  \* the event between its two handlers
  x,         \* x_outbox.status
  xTries,    \* attempt_count
  xFrom,     \* event_key: what the row announces
  tweets,    \* posts of the row that reached X
  bcast,     \* setup_broadcast_outbox.status
  bcastNo,   \* order of created_at
  bcastTries,\* attempts
  cards,     \* Telegram cards of a setup or of a report window
  stamped,   \* qtss_reports_runs
  day,       \* the calendar
  sentToday, \* x_outbox rows with status sent and sent_at today
  tweetsToday,
  nhand,     \* notify loop: row in hand, what became of it
  xhand,     \* X publisher: rows it may claim, rows claimed, row in hand, result
  bhand,     \* broadcast loop: rows claimed, row in hand, what became of it
  rhand,     \* report loop: window being dispatched, where
  lost,      \* answers lost after the message was delivered
  faults     \* failures so far

noteVars == <<note, noteNo, noteTries, told>>
emitVars == <<emits, emitting>>
xVars == <<x, xTries, xFrom, tweets>>
bcastVars == <<bcast, bcastNo, bcastTries>>
dayVars == <<day, sentToday, tweetsToday>>
hands == <<nhand, xhand, bhand, rhand>>
vars == <<on, noteVars, emitVars, xVars, bcastVars, cards, stamped, dayVars, hands, lost, faults>>

Statuses == {"absent", "pending", "taken", "sent", "failed"}

NoNote == [row |-> None, res |-> "none"]
NoX == [room |-> 0, work |-> {}, row |-> None, res |-> "none"]
NoBcast == [work |-> {}, row |-> None, res |-> "none"]
NoReport == [win |-> 0, at |-> "idle"]

TypeOK ==
  /\ on \in [Procs -> SUBSET Loops]
  /\ note \in [Events -> Statuses] /\ noteNo \in [Events -> Nat]
  /\ noteTries \in [Events -> Nat] /\ told \in [Events -> Nat]
  /\ emits \in [Events -> Nat] /\ emitting \in Events \cup {None}
  /\ x \in [XIds -> Statuses] /\ xTries \in [XIds -> Nat]
  /\ xFrom \in [XIds -> Events \cup Setups \cup (1 .. Days) \cup {None}]
  /\ tweets \in [XIds -> Nat]
  /\ bcast \in [Setups -> Statuses] /\ bcastNo \in [Setups -> Nat]
  /\ bcastTries \in [Setups -> Nat]
  /\ cards \in [Setups \cup (1 .. Days) -> Nat]
  /\ stamped \in SUBSET (1 .. Days)
  /\ day \in 1 .. Days /\ sentToday \in SUBSET XIds /\ tweetsToday \in Nat
  /\ nhand \in [Procs -> [row : Events \cup {None}, res : {"none", "sent", "failed"}]]
  /\ xhand \in [Procs -> [room : Nat, work : SUBSET XIds, row : XIds \cup {None},
                          res : {"none", "ok", "err"}]]
  /\ bhand \in [Procs -> [work : SUBSET Setups, row : Setups \cup {None},
                          res : {"none", "told", "untold", "sent", "retry", "gone"}]]
  /\ rhand \in [Procs -> [win : 0 .. Days, at : {"idle", "send", "enqueue", "record"}]]
  /\ lost \in Nat /\ faults \in Nat

Init ==
  /\ on \in Deployments
  /\ note = [e \in Events |-> "absent"] /\ noteNo = [e \in Events |-> 0]
  /\ noteTries = [e \in Events |-> 0] /\ told = [e \in Events |-> 0]
  /\ emits = [e \in Events |-> 0] /\ emitting = None
  /\ x = [i \in XIds |-> "absent"] /\ xTries = [i \in XIds |-> 0]
  /\ xFrom = [i \in XIds |-> None] /\ tweets = [i \in XIds |-> 0]
  /\ bcast = [s \in Setups |-> "absent"] /\ bcastNo = [s \in Setups |-> 0]
  /\ bcastTries = [s \in Setups |-> 0]
  /\ cards = [k \in Setups \cup (1 .. Days) |-> 0]
  /\ stamped = {} /\ day = 1 /\ sentToday = {} /\ tweetsToday = 0
  /\ nhand = [p \in Procs |-> NoNote] /\ xhand = [p \in Procs |-> NoX]
  /\ bhand = [p \in Procs |-> NoBcast] /\ rhand = [p \in Procs |-> NoReport]
  /\ lost = 0 /\ faults = 0

\* A failure of kind k happens (k is one the run allows and the bound is not reached).
Fail(k) == k \in Faults /\ faults < MaxFaults /\ faults' = faults + 1

\* How a delivery ends: the caller has the answer, or it was lost on the way back.
Answered == UNCHANGED <<lost, faults>>
AnswerLost == Fail("lost") /\ lost' = lost + 1

\* The processes that run a loop.
Running(loop) == {p \in Procs : loop \in on[p]}

---------------------------------------------------------------------------
(* Lifecycle handlers: TelegramLifecycleHandler, then XOutboxHandler.     *)

NextNoteNo == Cardinality({e \in Events : note[e] # "absent"}) + 1
NextBcastNo == Cardinality({s \in Setups : bcast[s] # "absent"}) + 1

\* INSERT ... ON CONFLICT (dedup_key) DO NOTHING; a failure is logged.
InsertNote(e) ==
  IF note[e] = "absent"
    THEN /\ note' = [note EXCEPT ![e] = "pending"]
         /\ noteNo' = [noteNo EXCEPT ![e] = NextNoteNo]
    ELSE UNCHANGED <<note, noteNo>>

EmitTelegram(e) ==
  /\ Running("watch") # {} /\ emitting = None
  /\ emits[e] < MaxEmits
  /\ emits' = [emits EXCEPT ![e] = @ + 1]
  /\ emitting' = e
  /\ \/ InsertNote(e) /\ UNCHANGED faults
     \/ Fail("insert") /\ UNCHANGED <<note, noteNo>>
  /\ UNCHANGED <<on, noteTries, told, xVars, bcastVars, cards, stamped, dayVars, hands, lost>>

\* x_outbox takes a plain INSERT: the smallest id that is free.
Free == {i \in XIds : x[i] = "absent"}
InsertX(src) ==
  \E i \in Free :
    /\ \A j \in Free : i <= j
    /\ x' = [x EXCEPT ![i] = "pending"]
    /\ xFrom' = [xFrom EXCEPT ![i] = src]

EmitTweet ==
  /\ emitting # None
  /\ emitting' = None
  /\ \/ InsertX(emitting) /\ UNCHANGED faults
     \/ Fail("insert") /\ UNCHANGED <<x, xFrom>>
  /\ UNCHANGED <<on, noteVars, emits, xTries, tweets, bcastVars, cards, stamped, dayVars, hands, lost>>

\* The watcher's process dies between the two handlers.
EmitCrash ==
  /\ emitting # None
  /\ emitting' = None
  /\ Fail("crash")
  /\ UNCHANGED <<on, noteVars, emits, xVars, bcastVars, cards, stamped, dayVars, hands, lost>>

---------------------------------------------------------------------------
(* notify_outbox_loop: one row at a time.                                 *)

NotePending == {e \in Events : note[e] = "pending"}

\* claim_next_pending, one transaction.
NoteClaim(p) ==
  /\ "notify" \in on[p] /\ nhand[p] = NoNote
  /\ \E e \in NotePending :
       /\ \A d \in NotePending : noteNo[e] <= noteNo[d]
       /\ note' = [note EXCEPT ![e] = "taken"]
       /\ noteTries' = [noteTries EXCEPT ![e] = @ + 1]
       /\ nhand' = [nhand EXCEPT ![p].row = e]
  /\ UNCHANGED <<on, noteNo, told, emitVars, xVars, bcastVars, cards, stamped, dayVars,
                 xhand, bhand, rhand, lost, faults>>

\* send_all: delivered, not delivered (or no valid channel), or delivered with the
\* answer lost.
NoteSend(p) ==
  /\ nhand[p].row # None /\ nhand[p].res = "none"
  /\ LET e == nhand[p].row
         Tell == told' = [told EXCEPT ![e] = @ + 1]
         Is(res) == nhand' = [nhand EXCEPT ![p].res = res]
     IN \/ Tell /\ Is("sent") /\ Answered
        \/ UNCHANGED told /\ Is("failed") /\ Answered
        \/ Tell /\ Is("failed") /\ AnswerLost
  /\ UNCHANGED <<on, note, noteNo, noteTries, emitVars, xVars, bcastVars, cards, stamped, dayVars,
                 xhand, bhand, rhand>>

\* mark_sent or mark_failed, whatever the row is by now; a failure is logged and the
\* row stays as it is.
NoteVerdictRetry(p) == IF nhand[p].res = "sent" THEN "sent" ELSE "pending"
NoteVerdictKept(p) == IF nhand[p].res = "sent" THEN "sent" ELSE "taken"
NoteVerdict(p) == nhand[p].res
NoteMark(p) ==
  /\ nhand[p].res # "none"
  /\ \/ note' = [note EXCEPT ![nhand[p].row] = NoteVerdict(p)] /\ UNCHANGED faults
     \/ Fail("mark") /\ UNCHANGED note
  /\ nhand' = [nhand EXCEPT ![p] = NoNote]
  /\ UNCHANGED <<on, noteNo, noteTries, told, emitVars, xVars, bcastVars, cards, stamped, dayVars,
                 xhand, bhand, rhand, lost>>

---------------------------------------------------------------------------
(* x_publisher_loop: tick_once.                                           *)

XPending == {i \in XIds : x[i] = "pending"}
XOldest(n) == {i \in XPending : Cardinality({j \in XPending : j < i}) < n}
XRoom(n) == LET left == IF n < DailyCap THEN DailyCap - n ELSE 0
            IN IF XBatch < left THEN XBatch ELSE left

\* count_sent_today_utc; a failed count reads as zero.
XCount(p) ==
  /\ "x" \in on[p] /\ xhand[p] = NoX
  /\ XPending # {}
  /\ \/ /\ XRoom(Cardinality(sentToday)) > 0
        /\ xhand' = [xhand EXCEPT ![p].room = XRoom(Cardinality(sentToday))]
        /\ UNCHANGED faults
     \/ Fail("count") /\ xhand' = [xhand EXCEPT ![p].room = XRoom(0)]
  /\ UNCHANGED <<on, noteVars, emitVars, xVars, bcastVars, cards, stamped, dayVars,
                 nhand, bhand, rhand, lost>>

\* claim_x_outbox_batch: one statement takes the oldest and counts the attempt.
XClaimedOpen(i) == x[i]
XClaimed(i) == "taken"
XTriedSame(i) == xTries[i]
XTried(i) == xTries[i] + 1
XClaim(p) ==
  /\ xhand[p].room > 0
  /\ LET rows == XOldest(xhand[p].room)
     IN /\ x' = [i \in XIds |-> IF i \in rows THEN XClaimed(i) ELSE x[i]]
        /\ xTries' = [i \in XIds |-> IF i \in rows THEN XTried(i) ELSE xTries[i]]
        /\ xhand' = [xhand EXCEPT ![p] = [NoX EXCEPT !.work = rows]]
  /\ UNCHANGED <<on, noteVars, emitVars, xFrom, tweets, bcastVars, cards, stamped, dayVars,
                 nhand, bhand, rhand, lost, faults>>

\* publish_one: the post of the next row.
XSend(p, i) ==
  /\ xhand[p].row = None /\ i \in xhand[p].work
  /\ LET Posted == tweets' = [tweets EXCEPT ![i] = @ + 1] /\ tweetsToday' = tweetsToday + 1
         Is(res) == xhand' = [xhand EXCEPT ![p] = [room |-> 0, work |-> @.work \ {i}, row |-> i, res |-> res]]
     IN \/ Posted /\ Is("ok") /\ Answered
        \/ UNCHANGED <<tweets, tweetsToday>> /\ Is("err") /\ Answered
        \/ Posted /\ Is("err") /\ AnswerLost
  /\ UNCHANGED <<on, noteVars, emitVars, x, xTries, xFrom, bcastVars, cards, stamped, day, sentToday,
                 nhand, bhand, rhand>>

\* The claim has counted this attempt already, and it is counted again here.
TerminalLate(i) == xTries[i] >= MaxAttempts
Terminal(i) == xTries[i] + 1 >= MaxAttempts

\* mark_x_sent or mark_x_failed, whatever the row is by now; a failure is logged.
XVerdict(i, res) == IF res = "ok" THEN "sent" ELSE IF Terminal(i) THEN "failed" ELSE "pending"
XMark(p) ==
  /\ xhand[p].row # None
  /\ LET i == xhand[p].row
     IN \/ /\ x' = [x EXCEPT ![i] = XVerdict(i, xhand[p].res)]
           /\ sentToday' = IF xhand[p].res = "ok" THEN sentToday \cup {i} ELSE sentToday
           /\ UNCHANGED faults
        \/ Fail("mark") /\ UNCHANGED <<x, sentToday>>
  /\ xhand' = [xhand EXCEPT ![p].row = None, ![p].res = "none"]
  /\ UNCHANGED <<on, noteVars, emitVars, xTries, xFrom, tweets, bcastVars, cards, stamped, day,
                 tweetsToday, nhand, bhand, rhand, lost>>

---------------------------------------------------------------------------
(* setup_broadcast_outbox and setup_publisher_loop.                       *)

\* enqueue: one row per setup.  Nothing in the repository calls it; the caller is
\* whoever announces the setup.
Announce(s) ==
  /\ Running("announce") # {} /\ bcast[s] = "absent"
  /\ bcast' = [bcast EXCEPT ![s] = "pending"]
  /\ bcastNo' = [bcastNo EXCEPT ![s] = NextBcastNo]
  /\ UNCHANGED <<on, noteVars, emitVars, xVars, bcastTries, cards, stamped, dayVars, hands, lost, faults>>

BcastPending == {s \in Setups : bcast[s] = "pending"}
BcastOldest ==
  {s \in BcastPending : Cardinality({t \in BcastPending : bcastNo[t] < bcastNo[s]}) < BcastBatch}

BcastClaim(p) ==
  /\ "bcast" \in on[p] /\ bhand[p] = NoBcast
  /\ BcastPending # {}
  /\ bcast' = [s \in Setups |-> IF s \in BcastOldest THEN "taken" ELSE bcast[s]]
  /\ bcastTries' = [s \in Setups |-> IF s \in BcastOldest THEN bcastTries[s] + 1 ELSE bcastTries[s]]
  /\ bhand' = [bhand EXCEPT ![p].work = BcastOldest]
  /\ UNCHANGED <<on, noteVars, emitVars, xVars, bcastNo, cards, stamped, dayVars,
                 nhand, xhand, rhand, lost, faults>>

\* publish_one up to the Telegram answer: the setup is gone, cannot be read, or its
\* card is sent, not sent, or sent with the answer lost.
BcastSend(p, s) ==
  /\ bhand[p].row = None /\ s \in bhand[p].work
  /\ LET Card == cards' = [cards EXCEPT ![s] = @ + 1]
         Is(res) == bhand' = [bhand EXCEPT ![p] = [work |-> @.work \ {s}, row |-> s, res |-> res]]
     IN \/ \E res \in {"gone", "retry", "untold"} : UNCHANGED cards /\ Is(res) /\ Answered
        \/ Card /\ Is("told") /\ Answered
        \/ Card /\ Is("untold") /\ AnswerLost
  /\ UNCHANGED <<on, noteVars, emitVars, xVars, bcastVars, stamped, dayVars, nhand, xhand, rhand>>

\* The row for X; either channel is enough.
EitherOk(tg, xOk) == tg \/ xOk
BcastEnqueue(p) ==
  /\ bhand[p].res \in {"told", "untold"}
  /\ \E xOk \in BOOLEAN :
       /\ IF xOk THEN InsertX(bhand[p].row) /\ UNCHANGED faults
                 ELSE Fail("insert") /\ UNCHANGED <<x, xFrom>>
       /\ bhand' = [bhand EXCEPT ![p].res =
                      IF EitherOk(bhand[p].res = "told", xOk) THEN "sent" ELSE "retry"]
  /\ UNCHANGED <<on, noteVars, emitVars, xTries, tweets, bcastVars, cards, stamped, dayVars,
                 nhand, xhand, rhand, lost>>

\* mark_setup_broadcast_sent or _failed; a setup that is gone fails for good.
BcastVerdict(s, res) ==
  CASE res = "sent" -> "sent"
    [] res = "gone" -> "failed"
    [] OTHER        -> IF bcastTries[s] >= BcastMax THEN "failed" ELSE "pending"
BcastMark(p) ==
  /\ bhand[p].res \in {"sent", "retry", "gone"}
  /\ LET s == bhand[p].row
     IN \/ bcast' = [bcast EXCEPT ![s] = BcastVerdict(s, bhand[p].res)] /\ UNCHANGED faults
        \/ Fail("mark") /\ UNCHANGED bcast
  /\ bhand' = [bhand EXCEPT ![p].row = None, ![p].res = "none"]
  /\ UNCHANGED <<on, noteVars, emitVars, xVars, bcastNo, bcastTries, cards, stamped, dayVars,
                 nhand, xhand, rhand, lost>>

---------------------------------------------------------------------------
(* report_scheduler_loop: dispatch_one of the window that closes today.   *)

NotStamped(w) == w \notin stamped

\* report_exists and aggregate_report; when they fail the tick ends.
ReportCheck(p) ==
  /\ "report" \in on[p] /\ rhand[p] = NoReport
  /\ NotStamped(day)
  /\ rhand' = [rhand EXCEPT ![p] = [win |-> day, at |-> "send"]]
  /\ UNCHANGED <<on, noteVars, emitVars, xVars, bcastVars, cards, stamped, dayVars,
                 nhand, xhand, bhand, lost, faults>>

\* Whatever Telegram answers, the dispatch goes on.
ReportSend(p) ==
  /\ rhand[p].at = "send"
  /\ cards' \in {cards, [cards EXCEPT ![rhand[p].win] = @ + 1]}
  /\ rhand' = [rhand EXCEPT ![p].at = "enqueue"]
  /\ UNCHANGED <<on, noteVars, emitVars, xVars, bcastVars, stamped, dayVars,
                 nhand, xhand, bhand, lost, faults>>

ReportEnqueue(p) ==
  /\ rhand[p].at = "enqueue"
  /\ \/ InsertX(rhand[p].win) /\ UNCHANGED faults
     \/ Fail("insert") /\ UNCHANGED <<x, xFrom>>
  /\ rhand' = [rhand EXCEPT ![p].at = "record"]
  /\ UNCHANGED <<on, noteVars, emitVars, xTries, tweets, bcastVars, cards, stamped, dayVars,
                 nhand, xhand, bhand, lost>>

\* record_report_run, an upsert; a failure is logged.
ReportRecord(p) ==
  /\ rhand[p].at = "record"
  /\ \/ stamped' = stamped \cup {rhand[p].win} /\ UNCHANGED faults
     \/ Fail("mark") /\ UNCHANGED stamped
  /\ rhand' = [rhand EXCEPT ![p] = NoReport]
  /\ UNCHANGED <<on, noteVars, emitVars, xVars, bcastVars, cards, dayVars,
                 nhand, xhand, bhand, lost>>

---------------------------------------------------------------------------
\* Midnight.  The last day of the instance repeats.
NewDay ==
  /\ day' = IF day < Days THEN day + 1 ELSE day
  /\ sentToday' = {} /\ tweetsToday' = 0
  /\ UNCHANGED <<on, noteVars, emitVars, xVars, bcastVars, cards, stamped, hands, lost, faults>>

Busy(p) == <<nhand[p], xhand[p], bhand[p], rhand[p]>> # <<NoNote, NoX, NoBcast, NoReport>>

\* A process dies with all its loops and starts over.
Crash(p) ==
  /\ Busy(p)
  /\ Fail("crash")
  /\ nhand' = [nhand EXCEPT ![p] = NoNote] /\ xhand' = [xhand EXCEPT ![p] = NoX]
  /\ bhand' = [bhand EXCEPT ![p] = NoBcast] /\ rhand' = [rhand EXCEPT ![p] = NoReport]
  /\ UNCHANGED <<on, noteVars, emitVars, xVars, bcastVars, cards, stamped, dayVars, lost>>

NoteStep(p) == NoteClaim(p) \/ NoteSend(p) \/ NoteMark(p)
XStep(p) == XCount(p) \/ XClaim(p) \/ (\E i \in XIds : XSend(p, i)) \/ XMark(p)
BcastStep(p) ==
  BcastClaim(p) \/ (\E s \in Setups : BcastSend(p, s)) \/ BcastEnqueue(p) \/ BcastMark(p)
ReportStep(p) == ReportCheck(p) \/ ReportSend(p) \/ ReportEnqueue(p) \/ ReportRecord(p)

Next ==
  \/ (\E e \in Events : EmitTelegram(e)) \/ EmitTweet \/ EmitCrash
  \/ \E s \in Setups : Announce(s)
  \/ \E p \in Procs : NoteStep(p) \/ XStep(p) \/ BcastStep(p) \/ ReportStep(p) \/ Crash(p)
  \/ NewDay

Spec == Init /\ [][Next]_vars

\* Every loop sleeps and ticks again whatever its last tick returned, and days pass.
FairSpec ==
  /\ Spec
  /\ \A p \in Procs : /\ WF_vars(NoteStep(p)) /\ WF_vars(XStep(p))
                      /\ WF_vars(BcastStep(p)) /\ WF_vars(ReportStep(p))
  /\ WF_vars(NewDay) /\ WF_vars(EmitTweet)

---------------------------------------------------------------------------
(* Properties.                                                            *)

XHeld(p) == xhand[p].work \cup ({xhand[p].row} \cap XIds)
BcastHeld(p) == bhand[p].work \cup ({bhand[p].row} \cap Setups)

\* FOR UPDATE SKIP LOCKED: no two loops have one row in hand, and a row in hand is
\* still the way its claim left it, so the UPDATEs that name only its id are safe.
HeldOnce ==
  /\ \A p \in Procs :
       /\ nhand[p].row # None => note[nhand[p].row] = "taken"
       /\ \A i \in XHeld(p) : x[i] = "taken"
       /\ \A s \in BcastHeld(p) : bcast[s] = "taken"
       /\ xhand[p].row \notin xhand[p].work /\ bhand[p].row \notin bhand[p].work
  /\ \A p, q \in Procs : p # q =>
       /\ nhand[p].row = nhand[q].row => nhand[p].row = None
       /\ XHeld(p) \cap XHeld(q) = {}
       /\ BcastHeld(p) \cap BcastHeld(q) = {}

\* The dedup key of migration 0245: a terminal event reaches Telegram at most once,
\* however often it is emitted, whatever crashes and whatever answer is lost.
ToldOnce == \A e \in Events : told[e] <= 1

\* x_publisher: a row is posted again only when the answer to a post was lost; a
\* crash or a failed UPDATE never posts it twice, and a sent row was posted.
PostedPerAnswer ==
  \A i \in XIds : tweets[i] <= 1 + lost /\ (x[i] = "sent" => tweets[i] >= 1)

\* publish_one: a row is given up with its attempt MAX_ATTEMPTS - 1, neither sooner
\* nor later, because the claim has counted the attempt it is compared with.
GivenUpOneEarly ==
  \A i \in XIds : /\ xTries[i] <= MaxAttempts - 1
                  /\ x[i] = "failed" => xTries[i] = MaxAttempts - 1

\* tick_once: the daily cap counts rows marked sent.  A publisher that has counted
\* before another one's rows are marked, and every failure, can take the day past
\* it by what one tick may claim.
DailyCapBounds ==
  tweetsToday <= DailyCap + (Cardinality(Running("x")) - 1 + faults) * XRoom(0)

\* publish_one of the setup publisher: a setup gets one row for X, and a second
\* Telegram card only when an answer was lost.
AnnouncedOnce ==
  \A s \in Setups : /\ cards[s] <= 1 + lost
                    /\ Cardinality({i \in XIds : xFrom[i] = s}) <= 1

\* report_scheduler: a window is reported once per process that runs the loop, and
\* again only after a failure between the report and its stamp.
ReportedOnce ==
  \A w \in 1 .. Days : cards[w] <= Cardinality(Running("report")) + faults

\* Whatever crashes and whatever answer is lost, people get a message once, or once more
\* per failure that the code of its loop leaves open.
DeliveredOnce == ToldOnce /\ PostedPerAnswer /\ AnnouncedOnce /\ ReportedOnce

\* What X costs: the attempts a row gets, and the posts a day gets.
PostsBounded == GivenUpOneEarly /\ DailyCapBounds

\* The three tables together are a queue of rows.
Rows == ({"note"} \X Events) \cup ({"x"} \X XIds) \cup ({"bcast"} \X Setups)
StatusOf(r) == CASE r[1] = "note" -> note[r[2]]
                 [] r[1] = "x"    -> x[r[2]]
                 [] OTHER         -> bcast[r[2]]
TriesOf(r) == CASE r[1] = "note" -> noteTries[r[2]]
                [] r[1] = "x"    -> xTries[r[2]]
                [] OTHER         -> bcastTries[r[2]]
Queue == INSTANCE QueueRow WITH
  Rows <- Rows,
  status <- [r \in Rows |-> StatusOf(r)],
  tries  <- [r \in Rows |-> TriesOf(r)]

\* A row is moved only by the loop that took it, every taking is counted, and a row
\* that is sent or failed is final although no UPDATE of the publishers checks it.
RowsAreQueued == Queue!Spec

\* A row nobody will touch again: taken, and in nobody's hands.
Orphaned(r) ==
  /\ StatusOf(r) = "taken"
  /\ \A p \in Procs : CASE r[1] = "note" -> nhand[p].row # r[2]
                        [] r[1] = "x"    -> r[2] \notin XHeld(p)
                        [] OTHER         -> r[2] \notin BcastHeld(p)

\* The loop that publishes a row.
LoopOf(r) == IF r[1] = "note" THEN "notify" ELSE r[1]

\* Every waiting row of every table that a process publishes is sent, given up, or orphaned
\* by a failure; without a failure none is orphaned.
EveryRowEnds ==
  \A r \in Rows :
    (StatusOf(r) = "pending" /\ Running(LoopOf(r)) # {})
      ~> (StatusOf(r) \in {"sent", "failed"} \/ (Orphaned(r) /\ faults > 0))
=============================================================================
