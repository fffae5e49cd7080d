--------------------------- MODULE OutboxesProofs ---------------------------
(* What holds of Outboxes for any number of processes, rows and failures. *)
EXTENDS Outboxes, Sums, FiniteSetTheorems, TLAPS

\* What a loop may have in hand.
NHand == [row : Events \cup {None}, res : {"none", "sent", "failed"}]
XHand == [room : Nat, work : SUBSET XIds, row : XIds \cup {None}, res : {"none", "ok", "err"}]
BHand == [work : SUBSET Setups, row : Setups \cup {None},
          res : {"none", "told", "untold", "sent", "retry", "gone"}]
RHand == [win : 0 .. Days, at : {"idle", "send", "enqueue", "record"}]

\* TypeOK, table by table.
NoteTyped ==
  /\ note \in [Events -> Statuses] /\ noteNo \in [Events -> Nat]
  /\ noteTries \in [Events -> Nat] /\ told \in [Events -> Nat]
  /\ emits \in [Events -> Nat] /\ emitting \in Events \cup {None}
  /\ nhand \in [Procs -> NHand]
XTyped ==
  /\ x \in [XIds -> Statuses] /\ xTries \in [XIds -> Nat]
  /\ xFrom \in [XIds -> Events \cup Setups \cup (1 .. Days) \cup {None}]
  /\ tweets \in [XIds -> Nat] /\ sentToday \in SUBSET XIds /\ tweetsToday \in Nat
  /\ xhand \in [Procs -> XHand]
BcastTyped ==
  /\ bcast \in [Setups -> Statuses] /\ bcastNo \in [Setups -> Nat]
  /\ bcastTries \in [Setups -> Nat]
  /\ cards \in [Setups \cup (1 .. Days) -> Nat]
  /\ bhand \in [Procs -> BHand]
ReportTyped ==
  /\ stamped \in SUBSET (1 .. Days) /\ day \in 1 .. Days
  /\ rhand \in [Procs -> RHand]
Counted == on \in [Procs -> SUBSET Loops] /\ lost \in Nat /\ faults \in Nat

\* A report that is under way has a window.
Windowed == \A p \in Procs : rhand[p].at # "idle" => rhand[p].win \in 1 .. Days

Typed == NoteTyped /\ XTyped /\ BcastTyped /\ ReportTyped /\ Counted /\ Windowed

LEMMA TypedIsTypeOK == Typed => TypeOK
BY DEF Typed, NoteTyped, XTyped, BcastTyped, ReportTyped, Counted, TypeOK,
       NHand, XHand, BHand, RHand

---------------------------------------------------------------------------
(* Types.                                                                 *)

\* A failure is counted; a lost answer too.
LEMMA CountedStep ==
  ASSUME Counted, UNCHANGED on,
         \/ UNCHANGED <<lost, faults>>
         \/ \E k \in FaultKinds : Fail(k) /\ (UNCHANGED lost \/ lost' = lost + 1)
  PROVE  Counted'
BY DEF Counted, Fail

\* Counting rows gives a natural number.
LEMMA RowCounts == NextNoteNo \in Nat /\ NextBcastNo \in Nat
<1>1. IsFiniteSet({e \in Events : note[e] # "absent"})
  BY RowsAssumption, FS_Subset
<1>2. IsFiniteSet({s \in Setups : bcast[s] # "absent"})
  BY RowsAssumption, FS_Subset
<1> QED
  BY <1>1, <1>2, FS_CardinalityType DEF NextNoteNo, NextBcastNo

\* So does counting the rows sent today, and what is left of the cap.
LEMMA RoomCounts ==
  ASSUME Typed
  PROVE  Cardinality(sentToday) \in Nat /\ \A n \in Nat : XRoom(n) \in Nat
<1>1. IsFiniteSet(XIds) /\ sentToday \subseteq XIds
  BY RowsAssumption, FS_Interval DEF XIds, Typed, XTyped
<1>2. Cardinality(sentToday) \in Nat
  BY <1>1, FS_Subset, FS_CardinalityType
<1> QED
  BY <1>2, CapsAssumption DEF XRoom

\* Empty tables and idle loops.
LEMMA TypedInit == Init => Typed
<1> SUFFICES ASSUME Init PROVE Typed
  OBVIOUS
<1> USE DEF Init
<1>1. NoteTyped
  BY DEF NoteTyped, Statuses, NoNote, NHand
<1>2. XTyped
  BY DEF XTyped, Statuses, NoX, XHand
<1>3. BcastTyped
  BY DEF BcastTyped, Statuses, NoBcast, BHand
<1>4. ReportTyped /\ Windowed
  BY CapsAssumption DEF ReportTyped, Windowed, NoReport, RHand
<1>5. Counted
  BY DeploymentsAssumption DEF Counted
<1> QED
  BY <1>1, <1>2, <1>3, <1>4, <1>5 DEF Typed

\* A row for X keeps the types of its table.
LEMMA InsertXTyped ==
  ASSUME XTyped, NEW src \in Events \cup Setups \cup (1 .. Days) \cup {None}, InsertX(src),
         UNCHANGED <<xTries, tweets, sentToday, tweetsToday, xhand>>
  PROVE  XTyped'
BY DEF XTyped, InsertX, Free, Statuses

\* The lifecycle handlers and the announcer.
LEMMA TypedEmit ==
  ASSUME Typed,
         (\E e \in Events : EmitTelegram(e)) \/ EmitTweet \/ EmitCrash \/ \E s \in Setups : Announce(s)
  PROVE  Typed'
<1> USE DEF noteVars, emitVars, xVars, bcastVars, dayVars, hands, Windowed, ReportTyped
<1>1. ASSUME NEW e \in Events, EmitTelegram(e) PROVE Typed'
  <2>1. NoteTyped'
    BY <1>1, RowCounts DEF Typed, NoteTyped, EmitTelegram, InsertNote, Statuses
  <2>2. Counted'
    BY <1>1, CountedStep DEF Typed, EmitTelegram, FaultKinds
  <2> QED
    BY <1>1, <2>1, <2>2 DEF Typed, EmitTelegram, XTyped, BcastTyped
<1>2. ASSUME EmitTweet PROVE Typed'
  <2>1. XTyped'
    <3>1. CASE InsertX(emitting)
      BY <1>2, <3>1, InsertXTyped DEF Typed, NoteTyped, EmitTweet
    <3>2. CASE UNCHANGED <<x, xFrom>>
      BY <1>2, <3>2 DEF Typed, XTyped, EmitTweet
    <3> QED
      BY <1>2, <3>1, <3>2 DEF EmitTweet
  <2>2. Counted'
    BY <1>2, CountedStep DEF Typed, EmitTweet, FaultKinds
  <2> QED
    BY <1>2, <2>1, <2>2 DEF Typed, EmitTweet, NoteTyped, BcastTyped
<1>3. ASSUME EmitCrash PROVE Typed'
  <2>1. Counted'
    BY <1>3, CountedStep DEF Typed, EmitCrash, FaultKinds
  <2> QED
    BY <1>3, <2>1 DEF Typed, EmitCrash, NoteTyped, XTyped, BcastTyped
<1>4. ASSUME NEW s \in Setups, Announce(s) PROVE Typed'
  <2>1. BcastTyped'
    BY <1>4, RowCounts DEF Typed, BcastTyped, Announce, Statuses
  <2> QED
    BY <1>4, <2>1 DEF Typed, Announce, NoteTyped, XTyped, Counted
<1> QED
  BY <1>1, <1>2, <1>3, <1>4

\* notify_outbox_loop.
LEMMA TypedNote ==
  ASSUME Typed, NEW p \in Procs, NoteStep(p)
  PROVE  Typed'
<1> USE DEF emitVars, xVars, bcastVars, dayVars, Windowed, ReportTyped
<1>1. ASSUME NoteClaim(p) PROVE Typed'
  <2>1. NoteTyped'
    BY <1>1 DEF Typed, NoteTyped, NoteClaim, NotePending, Statuses, NHand
  <2> QED
    BY <1>1, <2>1 DEF Typed, NoteClaim, XTyped, BcastTyped, Counted
<1>2. ASSUME NoteSend(p) PROVE Typed'
  <2>1. NoteTyped'
    <3>1. nhand[p].row \in Events /\ told[nhand[p].row] + 1 \in Nat
      BY <1>2 DEF Typed, NoteTyped, NoteSend, NHand
    <3>2. told' \in [Events -> Nat]
      BY <1>2, <3>1 DEF Typed, NoteTyped, NoteSend
    <3>3. \E r \in {"sent", "failed"} : nhand' = [nhand EXCEPT ![p].res = r]
      BY <1>2 DEF NoteSend
    <3> QED
      BY <1>2, <3>2, <3>3 DEF Typed, NoteTyped, NoteSend, NHand
  <2>2. Counted'
    BY <1>2, CountedStep DEF Typed, NoteSend, Answered, AnswerLost, FaultKinds
  <2> QED
    BY <1>2, <2>1, <2>2 DEF Typed, NoteSend, XTyped, BcastTyped
<1>3. ASSUME NoteMark(p) PROVE Typed'
  <2>1. NoteTyped'
    BY <1>3 DEF Typed, NoteTyped, NoteMark, NoteVerdict, NoNote, Statuses, NHand
  <2>2. Counted'
    BY <1>3, CountedStep DEF Typed, NoteMark, FaultKinds
  <2> QED
    BY <1>3, <2>1, <2>2 DEF Typed, NoteMark, XTyped, BcastTyped
<1> QED
  BY <1>1, <1>2, <1>3 DEF NoteStep

\* x_publisher_loop.
LEMMA TypedX ==
  ASSUME Typed, NEW p \in Procs, XStep(p)
  PROVE  Typed'
<1> USE DEF noteVars, emitVars, bcastVars, dayVars, Windowed, ReportTyped
<1>1. ASSUME XCount(p) PROVE Typed'
  <2>1. XTyped'
    <3>1. \E n \in Nat : xhand' = [xhand EXCEPT ![p].room = n]
      BY <1>1, RoomCounts DEF XCount
    <3>2. xhand' \in [Procs -> XHand]
      BY <3>1 DEF Typed, XTyped, XHand
    <3> QED
      BY <1>1, <3>2 DEF Typed, XTyped, XCount, xVars
  <2>2. Counted'
    BY <1>1, CountedStep DEF Typed, XCount, FaultKinds
  <2> QED
    BY <1>1, <2>1, <2>2 DEF Typed, XCount, NoteTyped, BcastTyped
<1>2. ASSUME XClaim(p) PROVE Typed'
  <2>1. XTyped'
    <3>1. XOldest(xhand[p].room) \subseteq XIds
      BY DEF XOldest, XPending
    <3>2. x' \in [XIds -> Statuses] /\ xTries' \in [XIds -> Nat]
      BY <1>2 DEF Typed, XTyped, XClaim, XClaimed, XTried, Statuses
    <3>3. [NoX EXCEPT !.work = XOldest(xhand[p].room)] \in XHand
      BY <3>1 DEF XHand, NoX
    <3> QED
      BY <1>2, <3>1, <3>2, <3>3 DEF Typed, XTyped, XClaim
  <2> QED
    BY <1>2, <2>1 DEF Typed, XClaim, NoteTyped, BcastTyped, Counted
<1>3. ASSUME NEW i \in XIds, XSend(p, i) PROVE Typed'
  <2>1. XTyped'
    <3>1. tweets' \in [XIds -> Nat] /\ tweetsToday' \in Nat
      BY <1>3 DEF Typed, XTyped, XSend
    <3>2. PICK r \in {"ok", "err"} :
            xhand' = [xhand EXCEPT ![p] = [room |-> 0, work |-> @.work \ {i}, row |-> i, res |-> r]]
      BY <1>3 DEF XSend
    <3>3. [room |-> 0, work |-> xhand[p].work \ {i}, row |-> i, res |-> r] \in XHand
      BY DEF Typed, XTyped, XHand
    <3>4. xhand' \in [Procs -> XHand]
      BY <3>2, <3>3 DEF Typed, XTyped
    <3> QED
      BY <1>3, <3>1, <3>4 DEF Typed, XTyped, XSend
  <2>2. Counted'
    BY <1>3, CountedStep DEF Typed, XSend, Answered, AnswerLost, FaultKinds
  <2> QED
    BY <1>3, <2>1, <2>2 DEF Typed, XSend, NoteTyped, BcastTyped
<1>4. ASSUME XMark(p) PROVE Typed'
  <2>1. XTyped'
    <3>1. x' \in [XIds -> Statuses]
      BY <1>4 DEF Typed, XTyped, XMark, XVerdict, Statuses
    <3>2. sentToday' \in SUBSET XIds
      <4>1. xhand[p].row \in XIds
        BY <1>4 DEF Typed, XTyped, XHand, XMark
      <4> QED
        BY <1>4, <4>1 DEF Typed, XTyped, XMark
    <3>3. xhand' \in [Procs -> XHand]
      BY <1>4, ZenonT(60) DEF Typed, XTyped, XMark, XHand
    <3> QED
      BY <1>4, <3>1, <3>2, <3>3 DEF Typed, XTyped, XMark
  <2>2. Counted'
    BY <1>4, CountedStep DEF Typed, XMark, FaultKinds
  <2> QED
    BY <1>4, <2>1, <2>2 DEF Typed, XMark, NoteTyped, BcastTyped
<1> QED
  BY <1>1, <1>2, <1>3, <1>4 DEF XStep

\* setup_publisher_loop.
LEMMA TypedBcast ==
  ASSUME Typed, NEW p \in Procs, BcastStep(p)
  PROVE  Typed'
<1> USE DEF noteVars, emitVars, dayVars, Windowed, ReportTyped
<1>1. ASSUME BcastClaim(p) PROVE Typed'
  <2>1. BcastTyped'
    <3>1. BcastOldest \subseteq Setups
      BY DEF BcastOldest, BcastPending
    <3>2. bcast' \in [Setups -> Statuses] /\ bcastTries' \in [Setups -> Nat]
      BY <1>1 DEF Typed, BcastTyped, BcastClaim, Statuses
    <3> QED
      BY <1>1, <3>1, <3>2 DEF Typed, BcastTyped, BcastClaim, BHand
  <2> QED
    BY <1>1, <2>1 DEF Typed, BcastClaim, NoteTyped, XTyped, Counted, xVars
<1>2. ASSUME NEW s \in Setups, BcastSend(p, s) PROVE Typed'
  <2>1. BcastTyped'
    <3>1. cards' \in [Setups \cup (1 .. Days) -> Nat]
      <4>1. [cards EXCEPT ![s] = @ + 1] \in [Setups \cup (1 .. Days) -> Nat]
        BY DEF Typed, BcastTyped
      <4>2. cards' \in {cards, [cards EXCEPT ![s] = @ + 1]}
        BY <1>2 DEF BcastSend
      <4> QED
        BY <4>1, <4>2 DEF Typed, BcastTyped
    <3>2. PICK r \in {"gone", "retry", "told", "untold"} :
            bhand' = [bhand EXCEPT ![p] = [work |-> @.work \ {s}, row |-> s, res |-> r]]
      BY <1>2 DEF BcastSend
    <3>3. [work |-> bhand[p].work \ {s}, row |-> s, res |-> r] \in BHand
      BY DEF Typed, BcastTyped, BHand
    <3>4. bhand' \in [Procs -> BHand]
      BY <3>2, <3>3 DEF Typed, BcastTyped
    <3> QED
      BY <1>2, <3>1, <3>4 DEF Typed, BcastTyped, BcastSend, bcastVars
  <2>2. Counted'
    BY <1>2, CountedStep DEF Typed, BcastSend, Answered, AnswerLost, FaultKinds
  <2> QED
    BY <1>2, <2>1, <2>2 DEF Typed, BcastSend, NoteTyped, XTyped, xVars
<1>3. ASSUME BcastEnqueue(p) PROVE Typed'
  <2>1. XTyped'
    <3>1. CASE InsertX(bhand[p].row)
      BY <1>3, <3>1, InsertXTyped DEF Typed, BcastTyped, BcastEnqueue, BHand
    <3>2. CASE UNCHANGED <<x, xFrom>>
      BY <1>3, <3>2 DEF Typed, XTyped, BcastEnqueue
    <3> QED
      BY <1>3, <3>1, <3>2 DEF BcastEnqueue
  <2>2. BcastTyped'
    <3>1. PICK r \in {"sent", "retry"} : bhand' = [bhand EXCEPT ![p].res = r]
      BY <1>3 DEF BcastEnqueue
    <3>2. bhand' \in [Procs -> BHand]
      BY <3>1 DEF Typed, BcastTyped, BHand
    <3> QED
      BY <1>3, <3>2 DEF Typed, BcastTyped, BcastEnqueue, bcastVars
  <2>3. Counted'
    BY <1>3, CountedStep DEF Typed, BcastEnqueue, FaultKinds
  <2> QED
    BY <1>3, <2>1, <2>2, <2>3 DEF Typed, BcastEnqueue, NoteTyped
<1>4. ASSUME BcastMark(p) PROVE Typed'
  <2>1. BcastTyped'
    <3>1. bcast' \in [Setups -> Statuses]
      BY <1>4 DEF Typed, BcastTyped, BcastMark, BcastVerdict, Statuses
    <3> QED
      BY <1>4, <3>1 DEF Typed, BcastTyped, BcastMark, BHand
  <2>2. Counted'
    BY <1>4, CountedStep DEF Typed, BcastMark, FaultKinds
  <2> QED
    BY <1>4, <2>1, <2>2 DEF Typed, BcastMark, NoteTyped, XTyped, xVars
<1> QED
  BY <1>1, <1>2, <1>3, <1>4 DEF BcastStep
\* report_scheduler_loop, the calendar and the crash.
LEMMA TypedReport ==
  ASSUME Typed, NEW p \in Procs, ReportStep(p)
  PROVE  Typed'
<1> USE DEF noteVars, emitVars, bcastVars, dayVars
<1>1. ASSUME ReportCheck(p) PROVE Typed'
  <2>1. ReportTyped' /\ Windowed'
    BY <1>1 DEF Typed, ReportTyped, Windowed, ReportCheck, RHand
  <2> QED
    BY <1>1, <2>1 DEF Typed, ReportCheck, NoteTyped, XTyped, BcastTyped, Counted, xVars
<1>2. ASSUME ReportSend(p) PROVE Typed'
  <2>1. ReportTyped' /\ Windowed'
    BY <1>2 DEF Typed, ReportTyped, Windowed, ReportSend, RHand
  <2>2. BcastTyped'
    BY <1>2 DEF Typed, BcastTyped, ReportSend, Windowed, RHand
  <2> QED
    BY <1>2, <2>1, <2>2 DEF Typed, ReportSend, NoteTyped, XTyped, Counted, xVars
<1>3. ASSUME ReportEnqueue(p) PROVE Typed'
  <2>1. XTyped'
    <3>1. CASE InsertX(rhand[p].win)
      BY <1>3, <3>1, InsertXTyped DEF Typed, ReportTyped, Windowed, ReportEnqueue, RHand
    <3>2. CASE UNCHANGED <<x, xFrom>>
      BY <1>3, <3>2 DEF Typed, XTyped, ReportEnqueue
    <3> QED
      BY <1>3, <3>1, <3>2 DEF ReportEnqueue
  <2>2. ReportTyped' /\ Windowed'
    BY <1>3 DEF Typed, ReportTyped, Windowed, ReportEnqueue, RHand
  <2>3. Counted'
    BY <1>3, CountedStep DEF Typed, ReportEnqueue, FaultKinds
  <2> QED
    BY <1>3, <2>1, <2>2, <2>3 DEF Typed, ReportEnqueue, NoteTyped, BcastTyped
<1>4. ASSUME ReportRecord(p) PROVE Typed'
  <2>1. rhand' \in [Procs -> RHand] /\ Windowed'
    BY <1>4, CapsAssumption DEF Typed, ReportTyped, Windowed, ReportRecord, NoReport, RHand
  <2>3. rhand[p].win \in 1 .. Days
    BY <1>4 DEF Typed, Windowed, ReportRecord
  <2>4. ReportTyped'
    BY <1>4, <2>1, <2>3 DEF Typed, ReportTyped, ReportRecord
  <2>2. Counted'
    BY <1>4, CountedStep DEF Typed, ReportRecord, FaultKinds
  <2> QED
    BY <1>4, <2>1, <2>2, <2>4 DEF Typed, ReportRecord, NoteTyped, XTyped, BcastTyped, xVars
<1> QED
  BY <1>1, <1>2, <1>3, <1>4 DEF ReportStep

LEMMA TypedDay ==
  ASSUME Typed, NewDay
  PROVE  Typed'
<1> USE DEF noteVars, emitVars, xVars, bcastVars, hands, NewDay
<1>1. ReportTyped' /\ Windowed'
  BY CapsAssumption DEF Typed, ReportTyped, Windowed
<1> QED
  BY <1>1 DEF Typed, NoteTyped, XTyped, BcastTyped, Counted

LEMMA TypedCrash ==
  ASSUME Typed, NEW p \in Procs, Crash(p)
  PROVE  Typed'
<1> USE DEF noteVars, emitVars, xVars, bcastVars, dayVars, Crash
<1>1. NoteTyped'
  BY DEF Typed, NoteTyped, NoNote, NHand
<1>2. XTyped'
  BY DEF Typed, XTyped, NoX, XHand
<1>3. BcastTyped'
  BY DEF Typed, BcastTyped, NoBcast, BHand
<1>4. ReportTyped' /\ Windowed'
  BY CapsAssumption DEF Typed, ReportTyped, Windowed, NoReport, RHand
<1>5. Counted'
  BY CountedStep DEF Typed, FaultKinds
<1> QED
  BY <1>1, <1>2, <1>3, <1>4, <1>5 DEF Typed

LEMMA TypedNext == Typed /\ [Next]_vars => Typed'
<1> SUFFICES ASSUME Typed, [Next]_vars PROVE Typed'
  OBVIOUS
<1>1. CASE UNCHANGED vars
  BY <1>1 DEF vars, noteVars, emitVars, xVars, bcastVars, dayVars, hands,
     Typed, NoteTyped, XTyped, BcastTyped, ReportTyped, Counted, Windowed
<1>2. CASE Next
  BY <1>2, TypedEmit, TypedNote, TypedX, TypedBcast, TypedReport, TypedDay, TypedCrash DEF Next
<1> QED
  BY <1>1, <1>2

\* Rows, hands and counters of the three tables keep their types, for any number of
\* processes and rows.
THEOREM TypeCorrect == Spec => []TypeOK
<1>1. Spec => []Typed
  BY TypedInit, TypedNext, PTL DEF Spec
<1> QED
  BY <1>1, TypedIsTypeOK, PTL

---------------------------------------------------------------------------
(* Claims are exclusive.                                                  *)

\* HeldOnce, table by table and row by row.
InX(p, i) == i \in xhand[p].work \/ xhand[p].row = i
InBcast(p, s) == s \in bhand[p].work \/ bhand[p].row = s

NoteHeld ==
  /\ \A p \in Procs : /\ nhand[p].row # None => note[nhand[p].row] = "taken"
                      /\ nhand[p].res # "none" => nhand[p].row # None
  /\ \A p, q \in Procs : p # q /\ nhand[p].row = nhand[q].row => nhand[p].row = None
XRowsHeld ==
  /\ \A p \in Procs, i \in XIds : InX(p, i) => x[i] = "taken"
  /\ \A p \in Procs : xhand[p].row \notin xhand[p].work
  /\ \A p, q \in Procs, i \in XIds : InX(p, i) /\ InX(q, i) => p = q
BcastHeldOnce ==
  /\ \A p \in Procs, s \in Setups : InBcast(p, s) => bcast[s] = "taken"
  /\ \A p \in Procs : /\ bhand[p].row \notin bhand[p].work
                      /\ bhand[p].res # "none" => bhand[p].row # None
  /\ \A p, q \in Procs, s \in Setups : InBcast(p, s) /\ InBcast(q, s) => p = q
Held == NoteHeld /\ XRowsHeld /\ BcastHeldOnce

LEMMA HeldIsHeldOnce == Typed /\ Held => HeldOnce
BY DEF Held, NoteHeld, XRowsHeld, BcastHeldOnce, InX, InBcast, HeldOnce, XHeld, BcastHeld,
       Typed, XTyped, BcastTyped, XHand, BHand

LEMMA HeldInit == Init => Held
BY NoneAssumption DEF Init, Held, NoteHeld, XRowsHeld, BcastHeldOnce, InX, InBcast,
   NoNote, NoX, NoBcast

\* A new row for X is in nobody's hands.
LEMMA InsertXHeld ==
  ASSUME Typed, XRowsHeld, NEW src, InsertX(src), UNCHANGED xhand
  PROVE  XRowsHeld'
BY DEF Typed, XTyped, XRowsHeld, InsertX, Free, InX

LEMMA HeldEmit ==
  ASSUME Typed, Held,
         (\E e \in Events : EmitTelegram(e)) \/ EmitTweet \/ EmitCrash \/ \E s \in Setups : Announce(s)
  PROVE  Held'
<1> USE DEF noteVars, emitVars, xVars, bcastVars, hands, InX, InBcast
<1>1. ASSUME NEW e \in Events, EmitTelegram(e) PROVE Held'
  <2>1. NoteHeld'
    <3>1. \A d \in Events : note[d] = "taken" => note'[d] = "taken"
      BY <1>1 DEF Typed, NoteTyped, EmitTelegram, InsertNote
    <3>2. \A q \in Procs : nhand[q].row \in Events \cup {None}
      BY DEF Typed, NoteTyped, NHand
    <3> QED
      BY <1>1, <3>1, <3>2 DEF Held, NoteHeld, EmitTelegram
  <2> QED
    BY <1>1, <2>1 DEF Held, XRowsHeld, BcastHeldOnce, EmitTelegram
<1>2. ASSUME EmitTweet PROVE Held'
  <2>1. XRowsHeld'
    <3>1. CASE InsertX(emitting)
      BY <1>2, <3>1, InsertXHeld DEF Held, EmitTweet
    <3>2. CASE UNCHANGED <<x, xFrom>>
      BY <1>2, <3>2 DEF Held, XRowsHeld, EmitTweet
    <3> QED
      BY <1>2, <3>1, <3>2 DEF EmitTweet
  <2> QED
    BY <1>2, <2>1 DEF Held, NoteHeld, BcastHeldOnce, EmitTweet
<1>3. ASSUME EmitCrash PROVE Held'
  BY <1>3 DEF EmitCrash, Held, NoteHeld, XRowsHeld, BcastHeldOnce
<1>4. ASSUME NEW s \in Setups, Announce(s) PROVE Held'
  <2>1. BcastHeldOnce'
    BY <1>4 DEF Typed, BcastTyped, Held, BcastHeldOnce, Announce
  <2> QED
    BY <1>4, <2>1 DEF Held, NoteHeld, XRowsHeld, Announce
<1> QED
  BY <1>1, <1>2, <1>3, <1>4

LEMMA HeldNote ==
  ASSUME Typed, Held, NEW p \in Procs, NoteStep(p)
  PROVE  Held'
<1> USE DEF xVars, bcastVars, InX, InBcast
<1>1. ASSUME NoteClaim(p) PROVE Held'
  <2>1. NoteHeld'
    BY <1>1 DEF Typed, NoteTyped, NHand, Held, NoteHeld, NoteClaim, NotePending, NoNote
  <2> QED
    BY <1>1, <2>1 DEF Held, XRowsHeld, BcastHeldOnce, NoteClaim
<1>2. ASSUME NoteSend(p) PROVE Held'
  <2>1. PICK r \in {"sent", "failed"} : nhand' = [nhand EXCEPT ![p].res = r]
    BY <1>2 DEF NoteSend
  <2>2. \A q \in Procs : /\ nhand'[q].row = nhand[q].row
                         /\ nhand'[q].res # "none" => q = p \/ nhand[q].res # "none"
    BY <2>1 DEF Typed, NoteTyped, NHand
  <2>3. NoteHeld'
    BY <1>2, <2>2 DEF Held, NoteHeld, NoteSend
  <2> QED
    BY <1>2, <2>3 DEF Held, XRowsHeld, BcastHeldOnce, NoteSend
<1>3. ASSUME NoteMark(p) PROVE Held'
  <2>1. nhand[p].row \in Events
    BY <1>3 DEF Typed, NoteTyped, NHand, Held, NoteHeld, NoteMark
  <2>2. \A q \in Procs : nhand'[q] = IF q = p THEN NoNote ELSE nhand[q]
    BY <1>3 DEF Typed, NoteTyped, NoteMark
  <2>3. \A e \in Events : e # nhand[p].row => note'[e] = note[e]
    BY <1>3 DEF Typed, NoteTyped, NoteMark
  <2>4. \A q \in Procs : nhand[q].row \in Events \cup {None}
    BY DEF Typed, NoteTyped, NHand
  <2>5. NoteHeld'
    BY <2>1, <2>2, <2>3, <2>4, NoneAssumption DEF Held, NoteHeld, NoNote
  <2> QED
    BY <1>3, <2>5 DEF Held, XRowsHeld, BcastHeldOnce, NoteMark
<1> QED
  BY <1>1, <1>2, <1>3 DEF NoteStep

LEMMA HeldX ==
  ASSUME Typed, Held, NEW p \in Procs, XStep(p)
  PROVE  Held'
<1> USE DEF noteVars, bcastVars, InBcast
<1>1. ASSUME XCount(p) PROVE Held'
  <2>1. PICK n : xhand' = [xhand EXCEPT ![p].room = n]
    BY <1>1 DEF XCount
  <2>2. \A q \in Procs : xhand'[q].work = xhand[q].work /\ xhand'[q].row = xhand[q].row
    BY <2>1 DEF Typed, XTyped, XHand
  <2>3. XRowsHeld'
    BY <1>1, <2>2 DEF Held, XRowsHeld, InX, XCount, xVars
  <2> QED
    BY <1>1, <2>3 DEF Held, NoteHeld, BcastHeldOnce, XCount
<1>2. ASSUME XClaim(p) PROVE Held'
  <2> DEFINE rows == XOldest(xhand[p].room)
  <2>1. rows \subseteq XIds /\ \A i \in rows : x[i] = "pending"
    BY DEF XOldest, XPending
  <2>2. \A q \in Procs : xhand'[q] = IF q = p THEN [NoX EXCEPT !.work = rows] ELSE xhand[q]
    BY <1>2 DEF Typed, XTyped, XClaim
  <2>3. [NoX EXCEPT !.work = rows].work = rows /\ [NoX EXCEPT !.work = rows].row = None
    BY DEF NoX
  <2>4. \A i \in XIds : x'[i] = IF i \in rows THEN "taken" ELSE x[i]
    BY <1>2 DEF XClaim, XClaimed
  <2> HIDE DEF rows
  <2>5. XRowsHeld'
    <3>1. None \notin rows /\ \A i \in rows : x[i] # "taken"
      BY <2>1, NoneAssumption
    <3>2. \A q \in Procs, i \in XIds : InX(q, i)' => IF q = p THEN i \in rows ELSE InX(q, i)
      BY <2>2, <2>3, NoneAssumption DEF InX
    <3>3. \A q \in Procs : xhand'[q].row \notin xhand'[q].work
      BY <2>2, <2>3, <3>1 DEF Held, XRowsHeld
    <3>4. \A q \in Procs, i \in XIds : InX(q, i)' => x'[i] = "taken"
      BY <2>4, <3>1, <3>2 DEF Held, XRowsHeld
    <3>5. \A q, r \in Procs, i \in XIds : InX(q, i)' /\ InX(r, i)' => q = r
      BY <3>1, <3>2 DEF Held, XRowsHeld
    <3> QED
      BY <3>3, <3>4, <3>5 DEF XRowsHeld
  <2> QED
    BY <1>2, <2>5 DEF Held, NoteHeld, BcastHeldOnce, XClaim
<1>3. ASSUME NEW i \in XIds, XSend(p, i) PROVE Held'
  <2>1. PICK r \in {"ok", "err"} :
          xhand' = [xhand EXCEPT ![p] = [room |-> 0, work |-> @.work \ {i}, row |-> i, res |-> r]]
    BY <1>3 DEF XSend
  <2>2. \A q \in Procs :
          /\ xhand'[q].work = IF q = p THEN xhand[q].work \ {i} ELSE xhand[q].work
          /\ xhand'[q].row = IF q = p THEN i ELSE xhand[q].row
    BY <2>1 DEF Typed, XTyped
  <2>3. i \in xhand[p].work
    BY <1>3 DEF XSend
  <2>4. XRowsHeld'
    <3>1. \A q \in Procs, j \in XIds : InX(q, j)' => InX(q, j)
      BY <2>2, <2>3 DEF InX
    <3>2. \A q \in Procs : xhand'[q].row \notin xhand'[q].work
      BY <2>2 DEF Held, XRowsHeld
    <3>3. x' = x
      BY <1>3 DEF XSend
    <3> QED
      BY <3>1, <3>2, <3>3 DEF Held, XRowsHeld
  <2> QED
    BY <1>3, <2>4 DEF Held, NoteHeld, BcastHeldOnce, XSend
<1>4. ASSUME XMark(p) PROVE Held'
  <2>1. xhand[p].row \in XIds
    BY <1>4 DEF Typed, XTyped, XHand, XMark
  <2>2. \A q \in Procs :
          /\ xhand'[q].work = xhand[q].work
          /\ xhand'[q].row = IF q = p THEN None ELSE xhand[q].row
    BY <1>4 DEF Typed, XTyped, XHand, XMark
  <2>3. \A j \in XIds : j # xhand[p].row => x'[j] = x[j]
    BY <1>4 DEF Typed, XTyped, XMark
  <2>4. None \notin xhand[p].work
    BY NoneAssumption DEF Typed, XTyped, XHand
  <2>5. XRowsHeld'
    BY <2>1, <2>2, <2>3, <2>4, NoneAssumption DEF Held, XRowsHeld, InX
  <2> QED
    BY <1>4, <2>5 DEF Held, NoteHeld, BcastHeldOnce, XMark
<1> QED
  BY <1>1, <1>2, <1>3, <1>4 DEF XStep

LEMMA HeldBcast ==
  ASSUME Typed, Held, NEW p \in Procs, BcastStep(p)
  PROVE  Held'
<1> USE DEF noteVars
<1>1. ASSUME BcastClaim(p) PROVE Held'
  <2>1. BcastOldest \subseteq Setups /\ \A s \in BcastOldest : bcast[s] = "pending"
    BY DEF BcastOldest, BcastPending
  <2>2. \A q \in Procs :
          /\ bhand'[q].work = IF q = p THEN BcastOldest ELSE bhand[q].work
          /\ bhand'[q].row = bhand[q].row /\ bhand'[q].res = bhand[q].res
    BY <1>1 DEF Typed, BcastTyped, BHand, BcastClaim
  <2>3. \A s \in Setups : bcast'[s] = IF s \in BcastOldest THEN "taken" ELSE bcast[s]
    BY <1>1 DEF BcastClaim
  <2>4. bhand[p].row = None
    BY <1>1 DEF BcastClaim, NoBcast
  <2>5. BcastHeldOnce'
    BY <2>1, <2>2, <2>3, <2>4, NoneAssumption DEF Held, BcastHeldOnce, InBcast
  <2> QED
    BY <1>1, <2>5 DEF Held, NoteHeld, XRowsHeld, InX, BcastClaim, xVars
<1>2. ASSUME NEW s \in Setups, BcastSend(p, s) PROVE Held'
  <2>1. PICK r \in {"gone", "retry", "told", "untold"} :
          bhand' = [bhand EXCEPT ![p] = [work |-> @.work \ {s}, row |-> s, res |-> r]]
    BY <1>2 DEF BcastSend
  <2>2. \A q \in Procs :
          /\ bhand'[q].work = IF q = p THEN bhand[q].work \ {s} ELSE bhand[q].work
          /\ bhand'[q].row = IF q = p THEN s ELSE bhand[q].row
          /\ q # p => bhand'[q].res = bhand[q].res
    BY <2>1 DEF Typed, BcastTyped
  <2>3. s \in bhand[p].work
    BY <1>2 DEF BcastSend
  <2>4. BcastHeldOnce'
    <3>1. \A q \in Procs, t \in Setups : InBcast(q, t)' => InBcast(q, t)
      BY <2>2, <2>3 DEF InBcast
    <3>2. \A q \in Procs : bhand'[q].row \notin bhand'[q].work
      BY <2>2 DEF Held, BcastHeldOnce
    <3>6. \A q \in Procs : bhand'[q].res # "none" => bhand'[q].row # None
      BY <2>2, NoneAssumption DEF Held, BcastHeldOnce
    <3>3. bcast' = bcast
      BY <1>2 DEF BcastSend, bcastVars
    <3>4. \A q \in Procs, t \in Setups : InBcast(q, t)' => bcast'[t] = "taken"
      BY <3>1, <3>3 DEF Held, BcastHeldOnce
    <3>5. \A q, w \in Procs, t \in Setups : InBcast(q, t)' /\ InBcast(w, t)' => q = w
      BY <3>1 DEF Held, BcastHeldOnce
    <3> QED
      BY <3>2, <3>4, <3>5, <3>6 DEF BcastHeldOnce
  <2> QED
    BY <1>2, <2>4 DEF Held, NoteHeld, XRowsHeld, InX, BcastSend, xVars
<1>3. ASSUME BcastEnqueue(p) PROVE Held'
  <2>1. XRowsHeld'
    <3>1. CASE InsertX(bhand[p].row)
      BY <1>3, <3>1, InsertXHeld DEF Held, BcastEnqueue
    <3>2. CASE UNCHANGED <<x, xFrom>>
      BY <1>3, <3>2 DEF Held, XRowsHeld, InX, BcastEnqueue
    <3> QED
      BY <1>3, <3>1, <3>2 DEF BcastEnqueue
  <2>2. PICK r \in {"sent", "retry"} : bhand' = [bhand EXCEPT ![p].res = r]
    BY <1>3 DEF BcastEnqueue
  <2>3. \A q \in Procs :
          /\ bhand'[q].work = bhand[q].work /\ bhand'[q].row = bhand[q].row
          /\ bhand'[q].res # "none" => bhand[q].res # "none"
    BY <1>3, <2>2 DEF Typed, BcastTyped, BHand, BcastEnqueue
  <2>4. BcastHeldOnce'
    BY <1>3, <2>3 DEF Held, BcastHeldOnce, InBcast, BcastEnqueue, bcastVars
  <2> QED
    BY <1>3, <2>1, <2>4 DEF Held, NoteHeld, BcastEnqueue
<1>4. ASSUME BcastMark(p) PROVE Held'
  <2>1. bhand[p].row \in Setups
    BY <1>4 DEF Typed, BcastTyped, BHand, Held, BcastHeldOnce, BcastMark
  <2>2. \A q \in Procs :
          /\ bhand'[q].work = bhand[q].work
          /\ bhand'[q].row = IF q = p THEN None ELSE bhand[q].row
          /\ bhand'[q].res = IF q = p THEN "none" ELSE bhand[q].res
    BY <1>4 DEF Typed, BcastTyped, BHand, BcastMark
  <2>3. \A s \in Setups : s # bhand[p].row => bcast'[s] = bcast[s]
    BY <1>4 DEF Typed, BcastTyped, BcastMark
  <2>4. None \notin bhand[p].work
    BY NoneAssumption DEF Typed, BcastTyped, BHand
  <2>5. BcastHeldOnce'
    BY <2>1, <2>2, <2>3, <2>4, NoneAssumption DEF Held, BcastHeldOnce, InBcast
  <2> QED
    BY <1>4, <2>5 DEF Held, NoteHeld, XRowsHeld, InX, BcastMark, xVars
<1> QED
  BY <1>1, <1>2, <1>3, <1>4 DEF BcastStep

LEMMA HeldReport ==
  ASSUME Typed, Held, (\E p \in Procs : ReportStep(p)) \/ NewDay
  PROVE  Held'
<1> USE DEF noteVars, bcastVars, hands, NoteHeld, BcastHeldOnce, InBcast
<1>1. ASSUME NEW p \in Procs, ReportCheck(p) \/ ReportSend(p) \/ ReportRecord(p) PROVE Held'
  BY <1>1 DEF ReportCheck, ReportSend, ReportRecord, Held, XRowsHeld, InX, xVars
<1>2. ASSUME NEW p \in Procs, ReportEnqueue(p) PROVE Held'
  <2>1. CASE InsertX(rhand[p].win)
    BY <1>2, <2>1, InsertXHeld DEF Held, ReportEnqueue
  <2>2. CASE UNCHANGED <<x, xFrom>>
    BY <1>2, <2>2 DEF Held, XRowsHeld, InX, ReportEnqueue
  <2> QED
    BY <1>2, <2>1, <2>2 DEF ReportEnqueue
<1>3. ASSUME NewDay PROVE Held'
  BY <1>3 DEF NewDay, Held, XRowsHeld, InX, xVars
<1> QED
  BY <1>1, <1>2, <1>3 DEF ReportStep

LEMMA HeldCrash ==
  ASSUME Typed, Held, NEW p \in Procs, Crash(p)
  PROVE  Held'
<1> USE DEF Crash, noteVars, xVars, bcastVars
<1>1. \A q \in Procs : nhand'[q] = IF q = p THEN NoNote ELSE nhand[q]
  BY DEF Typed, NoteTyped
<1>2. \A q \in Procs : xhand'[q] = IF q = p THEN NoX ELSE xhand[q]
  BY DEF Typed, XTyped
<1>3. \A q \in Procs : bhand'[q] = IF q = p THEN NoBcast ELSE bhand[q]
  BY DEF Typed, BcastTyped
<1>4. NoteHeld'
  BY <1>1 DEF Held, NoteHeld, NoNote
<1>5. XRowsHeld'
  BY <1>2, NoneAssumption DEF Held, XRowsHeld, InX, NoX
<1>6. BcastHeldOnce'
  BY <1>3, NoneAssumption DEF Held, BcastHeldOnce, InBcast, NoBcast
<1> QED
  BY <1>4, <1>5, <1>6 DEF Held

LEMMA HeldNext == Typed /\ Held /\ [Next]_vars => Held'
<1> SUFFICES ASSUME Typed, Held, [Next]_vars PROVE Held'
  OBVIOUS
<1>1. CASE UNCHANGED vars
  BY <1>1 DEF vars, noteVars, xVars, bcastVars, hands, Held, NoteHeld, XRowsHeld, BcastHeldOnce,
     InX, InBcast
<1>2. CASE Next
  BY <1>2, HeldEmit, HeldNote, HeldX, HeldBcast, HeldReport, HeldCrash DEF Next
<1> QED
  BY <1>1, <1>2

\* The claims of the three tables are exclusive for any number of publishers: a row is in
\* one hand at most, and still as its claim left it.
LEMMA HeldAlways == Spec => [](Typed /\ Held)
<1>1. Typed /\ Held /\ [Next]_vars => (Typed /\ Held)'
  BY TypedNext, HeldNext
<1> QED
  BY <1>1, TypedInit, HeldInit, PTL DEF Spec

THEOREM ClaimsAreExclusive == Spec => []HeldOnce
BY HeldAlways, HeldIsHeldOnce, PTL

---------------------------------------------------------------------------
(* The three tables implement QueueRow.                                   *)

\* The rows, and what is read of them, before and after a step.
LEMMA RowKinds ==
  /\ \A e \in Events : /\ <<"note", e>> \in Rows
                       /\ StatusOf(<<"note", e>>) = note[e] /\ TriesOf(<<"note", e>>) = noteTries[e]
                       /\ StatusOf(<<"note", e>>)' = note'[e]
                       /\ TriesOf(<<"note", e>>)' = noteTries'[e]
  /\ \A i \in XIds : /\ <<"x", i>> \in Rows
                     /\ StatusOf(<<"x", i>>) = x[i] /\ TriesOf(<<"x", i>>) = xTries[i]
                     /\ StatusOf(<<"x", i>>)' = x'[i] /\ TriesOf(<<"x", i>>)' = xTries'[i]
  /\ \A s \in Setups : /\ <<"bcast", s>> \in Rows
                       /\ StatusOf(<<"bcast", s>>) = bcast[s]
                       /\ TriesOf(<<"bcast", s>>) = bcastTries[s]
                       /\ StatusOf(<<"bcast", s>>)' = bcast'[s]
                       /\ TriesOf(<<"bcast", s>>)' = bcastTries'[s]
  /\ \A r \in Rows : \/ \E e \in Events : r = <<"note", e>>
                     \/ \E i \in XIds : r = <<"x", i>>
                     \/ \E s \in Setups : r = <<"bcast", s>>
BY DEF Rows, StatusOf, TriesOf

LEMMA QueueQuiet ==
  ASSUME UNCHANGED <<note, noteTries, x, xTries, bcast, bcastTries>>
  PROVE  UNCHANGED <<[r \in Rows |-> StatusOf(r)], [r \in Rows |-> TriesOf(r)]>>
BY DEF StatusOf, TriesOf

\* One row goes from a to v: an insert, or the end of an attempt.
LEMMA QueueMove ==
  ASSUME NEW q \in Rows, NEW v,
         \A r \in Rows : StatusOf(r)' = IF r = q THEN v ELSE StatusOf(r),
         \A r \in Rows : TriesOf(r)' = TriesOf(r),
         \/ StatusOf(q) = "absent" /\ v = "pending"
         \/ StatusOf(q) = "taken" /\ v \in {"pending", "sent", "failed"}
  PROVE  Queue!Next
<1>1. /\ [r \in Rows |-> StatusOf(r)'] = [[r \in Rows |-> StatusOf(r)] EXCEPT ![q] = v]
      /\ [r \in Rows |-> TriesOf(r)'] = [r \in Rows |-> TriesOf(r)]
  OBVIOUS
<1>2. CASE StatusOf(q) = "absent" /\ v = "pending"
  <2>1. Queue!Insert(q)
    BY <1>1, <1>2 DEF Queue!Insert
  <2> QED
    BY <2>1 DEF Queue!Next
<1>3. CASE StatusOf(q) = "taken" /\ v \in {"pending", "sent", "failed"}
  <2>1. Queue!Finish(q, v)
    BY <1>1, <1>3 DEF Queue!Finish
  <2> QED
    BY <1>3, <2>1 DEF Queue!Next
<1> QED
  BY <1>2, <1>3

\* A claim takes waiting rows and counts the attempt.
LEMMA QueueTake ==
  ASSUME NEW R \in SUBSET Rows, \A r \in R : StatusOf(r) = "pending",
         \A r \in Rows : StatusOf(r)' = IF r \in R THEN "taken" ELSE StatusOf(r),
         \A r \in Rows : TriesOf(r)' = IF r \in R THEN TriesOf(r) + 1 ELSE TriesOf(r)
  PROVE  Queue!Next
<1>1. Queue!Take(R)
  BY DEF Queue!Take
<1> QED
  BY <1>1 DEF Queue!Next

\* The same for a row of each table.
LEMMA NoteMove ==
  ASSUME Typed, NEW e \in Events, NEW v, note' = [note EXCEPT ![e] = v],
         \/ note[e] = "absent" /\ v = "pending"
         \/ note[e] = "taken" /\ v \in {"pending", "sent", "failed"},
         UNCHANGED <<noteTries, x, xTries, bcast, bcastTries>>
  PROVE  Queue!Next
<1>1. \A d \in Events : note'[d] = IF d = e THEN v ELSE note[d]
  BY DEF Typed, NoteTyped
<1>2. \A r \in Rows : /\ StatusOf(r)' = IF r = <<"note", e>> THEN v ELSE StatusOf(r)
                      /\ TriesOf(r)' = TriesOf(r)
  BY <1>1, RowKinds
<1>3. /\ <<"note", e>> \in Rows
      /\ \/ StatusOf(<<"note", e>>) = "absent" /\ v = "pending"
         \/ StatusOf(<<"note", e>>) = "taken" /\ v \in {"pending", "sent", "failed"}
  BY RowKinds
<1> QED
  BY <1>2, <1>3, QueueMove

LEMMA XMove ==
  ASSUME Typed, NEW i \in XIds, NEW v, x' = [x EXCEPT ![i] = v],
         \/ x[i] = "absent" /\ v = "pending"
         \/ x[i] = "taken" /\ v \in {"pending", "sent", "failed"},
         UNCHANGED <<note, noteTries, xTries, bcast, bcastTries>>
  PROVE  Queue!Next
<1>1. \A j \in XIds : x'[j] = IF j = i THEN v ELSE x[j]
  BY DEF Typed, XTyped
<1>2. \A r \in Rows : /\ StatusOf(r)' = IF r = <<"x", i>> THEN v ELSE StatusOf(r)
                      /\ TriesOf(r)' = TriesOf(r)
  BY <1>1, RowKinds
<1>3. /\ <<"x", i>> \in Rows
      /\ \/ StatusOf(<<"x", i>>) = "absent" /\ v = "pending"
         \/ StatusOf(<<"x", i>>) = "taken" /\ v \in {"pending", "sent", "failed"}
  BY RowKinds
<1> QED
  BY <1>2, <1>3, QueueMove

LEMMA BcastMove ==
  ASSUME Typed, NEW s \in Setups, NEW v, bcast' = [bcast EXCEPT ![s] = v],
         \/ bcast[s] = "absent" /\ v = "pending"
         \/ bcast[s] = "taken" /\ v \in {"pending", "sent", "failed"},
         UNCHANGED <<note, noteTries, x, xTries, bcastTries>>
  PROVE  Queue!Next
<1>1. \A t \in Setups : bcast'[t] = IF t = s THEN v ELSE bcast[t]
  BY DEF Typed, BcastTyped
<1>2. \A r \in Rows : /\ StatusOf(r)' = IF r = <<"bcast", s>> THEN v ELSE StatusOf(r)
                      /\ TriesOf(r)' = TriesOf(r)
  BY <1>1, RowKinds
<1>3. /\ <<"bcast", s>> \in Rows
      /\ \/ StatusOf(<<"bcast", s>>) = "absent" /\ v = "pending"
         \/ StatusOf(<<"bcast", s>>) = "taken" /\ v \in {"pending", "sent", "failed"}
  BY RowKinds
<1> QED
  BY <1>2, <1>3, QueueMove

\* A new row for X, whoever writes it.
LEMMA InsertXQueued ==
  ASSUME Typed, NEW src, InsertX(src) \/ UNCHANGED <<x, xFrom>>,
         UNCHANGED <<note, noteTries, xTries, bcast, bcastTries>>
  PROVE  \/ Queue!Next
         \/ UNCHANGED <<note, noteTries, x, xTries, bcast, bcastTries>>
<1>1. CASE InsertX(src)
  <2>1. PICK i \in XIds : x[i] = "absent" /\ x' = [x EXCEPT ![i] = "pending"]
    BY <1>1 DEF InsertX, Free
  <2> QED
    BY <2>1, XMove
<1> QED
  BY <1>1

Quiet == UNCHANGED <<note, noteTries, x, xTries, bcast, bcastTries>>

LEMMA QueuedEmit ==
  ASSUME Typed,
         (\E e \in Events : EmitTelegram(e)) \/ EmitTweet \/ EmitCrash \/ \E s \in Setups : Announce(s)
  PROVE  Queue!Next \/ Quiet
<1> USE DEF noteVars, xVars, bcastVars
<1>1. ASSUME NEW e \in Events, EmitTelegram(e) PROVE Queue!Next \/ Quiet
  <2>1. UNCHANGED <<noteTries, x, xTries, bcast, bcastTries>>
    BY <1>1 DEF EmitTelegram
  <2>2. CASE note[e] = "absent" /\ note' = [note EXCEPT ![e] = "pending"]
    BY <2>1, <2>2, NoteMove
  <2>3. CASE UNCHANGED note
    BY <2>1, <2>3 DEF Quiet
  <2> QED
    BY <1>1, <2>2, <2>3 DEF EmitTelegram, InsertNote
<1>2. ASSUME EmitTweet PROVE Queue!Next \/ Quiet
  BY <1>2, InsertXQueued DEF EmitTweet, Quiet
<1>3. ASSUME EmitCrash PROVE Queue!Next \/ Quiet
  BY <1>3 DEF EmitCrash, Quiet
<1>4. ASSUME NEW s \in Setups, Announce(s) PROVE Queue!Next \/ Quiet
  BY <1>4, BcastMove DEF Announce
<1> QED
  BY <1>1, <1>2, <1>3, <1>4

LEMMA QueuedNote ==
  ASSUME Typed, Held, NEW p \in Procs, NoteStep(p)
  PROVE  Queue!Next \/ Quiet
<1> USE DEF xVars, bcastVars
<1>1. ASSUME NoteClaim(p) PROVE Queue!Next \/ Quiet
  <2>1. PICK e \in Events : /\ note[e] = "pending" /\ note' = [note EXCEPT ![e] = "taken"]
                            /\ noteTries' = [noteTries EXCEPT ![e] = @ + 1]
    BY <1>1 DEF NoteClaim, NotePending
  <2>2. \A d \in Events : /\ note'[d] = IF d = e THEN "taken" ELSE note[d]
                          /\ noteTries'[d] = IF d = e THEN noteTries[d] + 1 ELSE noteTries[d]
    BY <2>1 DEF Typed, NoteTyped
  <2>3. UNCHANGED <<x, xTries, bcast, bcastTries>>
    BY <1>1 DEF NoteClaim
  <2>4. {<<"note", e>>} \in SUBSET Rows /\ StatusOf(<<"note", e>>) = "pending"
    BY <2>1, RowKinds
  <2>5. \A r \in Rows :
          /\ StatusOf(r)' = IF r \in {<<"note", e>>} THEN "taken" ELSE StatusOf(r)
          /\ TriesOf(r)' = IF r \in {<<"note", e>>} THEN TriesOf(r) + 1 ELSE TriesOf(r)
    BY <2>2, <2>3, RowKinds
  <2> QED
    BY <2>4, <2>5, QueueTake
<1>2. ASSUME NoteSend(p) PROVE Queue!Next \/ Quiet
  BY <1>2 DEF NoteSend, Quiet
<1>3. ASSUME NoteMark(p) PROVE Queue!Next \/ Quiet
  <2>1. /\ nhand[p].row \in Events /\ note[nhand[p].row] = "taken"
        /\ nhand[p].res \in {"sent", "failed"}
    BY <1>3 DEF Typed, NoteTyped, NHand, Held, NoteHeld, NoteMark
  <2>2. UNCHANGED <<noteTries, x, xTries, bcast, bcastTries>>
    BY <1>3 DEF NoteMark
  <2>3. UNCHANGED note \/ note' = [note EXCEPT ![nhand[p].row] = nhand[p].res]
    BY <1>3 DEF NoteMark, NoteVerdict
  <2> QED
    BY <2>1, <2>2, <2>3, NoteMove DEF Quiet
<1> QED
  BY <1>1, <1>2, <1>3 DEF NoteStep

LEMMA QueuedX ==
  ASSUME Typed, Held, NEW p \in Procs, XStep(p)
  PROVE  Queue!Next \/ Quiet
<1> USE DEF noteVars, bcastVars
<1>1. ASSUME XClaim(p) PROVE Queue!Next \/ Quiet
  <2> DEFINE rows == XOldest(xhand[p].room)
             R == {"x"} \X rows
  <2>1. rows \subseteq XIds /\ \A i \in rows : x[i] = "pending"
    BY DEF XOldest, XPending
  <2>2. \A i \in XIds : /\ x'[i] = IF i \in rows THEN "taken" ELSE x[i]
                        /\ xTries'[i] = IF i \in rows THEN xTries[i] + 1 ELSE xTries[i]
    BY <1>1 DEF XClaim, XClaimed, XTried
  <2>3. UNCHANGED <<note, noteTries, bcast, bcastTries>>
    BY <1>1 DEF XClaim
  <2> HIDE DEF rows
  <2>4. R \in SUBSET Rows /\ \A r \in R : StatusOf(r) = "pending"
    BY <2>1 DEF Rows, StatusOf
  <2>5. \A i \in XIds : <<"x", i>> \in R <=> i \in rows
    OBVIOUS
  <2>6. /\ \A e \in Events : <<"note", e>> \notin R
        /\ \A s \in Setups : <<"bcast", s>> \notin R
    OBVIOUS
  <2> HIDE DEF R
  <2>7. \A r \in Rows : StatusOf(r)' = IF r \in R THEN "taken" ELSE StatusOf(r)
    BY <2>2, <2>3, <2>5, <2>6, RowKinds
  <2>8. \A r \in Rows : TriesOf(r)' = IF r \in R THEN TriesOf(r) + 1 ELSE TriesOf(r)
    BY <2>2, <2>3, <2>5, <2>6, RowKinds
  <2> QED
    BY <2>4, <2>7, <2>8, QueueTake
<1>2. ASSUME XCount(p) \/ \E i \in XIds : XSend(p, i) PROVE Queue!Next \/ Quiet
  BY <1>2 DEF XCount, XSend, xVars, Quiet
<1>3. ASSUME XMark(p) PROVE Queue!Next \/ Quiet
  <2>1. xhand[p].row \in XIds /\ x[xhand[p].row] = "taken"
    BY <1>3 DEF Typed, XTyped, XHand, Held, XRowsHeld, InX, XMark
  <2>2. UNCHANGED <<note, noteTries, xTries, bcast, bcastTries>>
    BY <1>3 DEF XMark
  <2>3. UNCHANGED x \/ x' = [x EXCEPT ![xhand[p].row] = XVerdict(xhand[p].row, xhand[p].res)]
    BY <1>3 DEF XMark
  <2>4. XVerdict(xhand[p].row, xhand[p].res) \in {"pending", "sent", "failed"}
    BY DEF XVerdict
  <2> QED
    BY <2>1, <2>2, <2>3, <2>4, XMove DEF Quiet
<1> QED
  BY <1>1, <1>2, <1>3 DEF XStep

LEMMA QueuedBcast ==
  ASSUME Typed, Held, NEW p \in Procs, BcastStep(p)
  PROVE  Queue!Next \/ Quiet
<1> USE DEF noteVars, xVars
<1>1. ASSUME BcastClaim(p) PROVE Queue!Next \/ Quiet
  <2> DEFINE R == {"bcast"} \X BcastOldest
  <2>1. BcastOldest \subseteq Setups /\ \A s \in BcastOldest : bcast[s] = "pending"
    BY DEF BcastOldest, BcastPending
  <2>2. \A s \in Setups :
          /\ bcast'[s] = IF s \in BcastOldest THEN "taken" ELSE bcast[s]
          /\ bcastTries'[s] = IF s \in BcastOldest THEN bcastTries[s] + 1 ELSE bcastTries[s]
    BY <1>1 DEF BcastClaim
  <2>3. UNCHANGED <<note, noteTries, x, xTries>>
    BY <1>1 DEF BcastClaim
  <2>4. R \in SUBSET Rows /\ \A r \in R : StatusOf(r) = "pending"
    BY <2>1 DEF Rows, StatusOf
  <2>5. \A s \in Setups : <<"bcast", s>> \in R <=> s \in BcastOldest
    OBVIOUS
  <2>6. /\ \A e \in Events : <<"note", e>> \notin R
        /\ \A i \in XIds : <<"x", i>> \notin R
    OBVIOUS
  <2> HIDE DEF R
  <2>7. \A r \in Rows : StatusOf(r)' = IF r \in R THEN "taken" ELSE StatusOf(r)
    BY <2>2, <2>3, <2>5, <2>6, RowKinds
  <2>8. \A r \in Rows : TriesOf(r)' = IF r \in R THEN TriesOf(r) + 1 ELSE TriesOf(r)
    BY <2>2, <2>3, <2>5, <2>6, RowKinds
  <2> QED
    BY <2>4, <2>7, <2>8, QueueTake
<1>2. ASSUME NEW s \in Setups, BcastSend(p, s) PROVE Queue!Next \/ Quiet
  BY <1>2 DEF BcastSend, bcastVars, Quiet
<1>3. ASSUME BcastEnqueue(p) PROVE Queue!Next \/ Quiet
  BY <1>3, InsertXQueued DEF BcastEnqueue, bcastVars, Quiet
<1>4. ASSUME BcastMark(p) PROVE Queue!Next \/ Quiet
  <2>1. bhand[p].row \in Setups /\ bcast[bhand[p].row] = "taken"
    BY <1>4 DEF Typed, BcastTyped, BHand, Held, BcastHeldOnce, InBcast, BcastMark
  <2>2. UNCHANGED <<note, noteTries, x, xTries, bcastTries>>
    BY <1>4 DEF BcastMark
  <2>3. \/ UNCHANGED bcast
        \/ bcast' = [bcast EXCEPT ![bhand[p].row] = BcastVerdict(bhand[p].row, bhand[p].res)]
    BY <1>4 DEF BcastMark
  <2>4. BcastVerdict(bhand[p].row, bhand[p].res) \in {"pending", "sent", "failed"}
    BY DEF BcastVerdict
  <2> QED
    BY <2>1, <2>2, <2>3, <2>4, BcastMove DEF Quiet
<1> QED
  BY <1>1, <1>2, <1>3, <1>4 DEF BcastStep

\* Every step of the publishers and their producers is a step of QueueRow or leaves its
\* rows alone.
LEMMA NextQueued == Typed /\ Held /\ [Next]_vars => Queue!Next \/ Quiet
<1> SUFFICES ASSUME Typed, Held, [Next]_vars PROVE Queue!Next \/ Quiet
  OBVIOUS
<1>1. CASE UNCHANGED vars
  BY <1>1 DEF vars, noteVars, xVars, bcastVars, Quiet
<1>2. ASSUME NEW p \in Procs, ReportStep(p) PROVE Queue!Next \/ Quiet
  <2>1. CASE ReportEnqueue(p)
    BY <2>1, InsertXQueued DEF ReportEnqueue, noteVars, bcastVars, Quiet
  <2> QED
    BY <1>2, <2>1 DEF ReportStep, ReportCheck, ReportSend, ReportRecord, noteVars, xVars,
       bcastVars, Quiet
<1>3. ASSUME NewDay \/ \E p \in Procs : Crash(p) PROVE Queue!Next \/ Quiet
  BY <1>3 DEF NewDay, Crash, noteVars, xVars, bcastVars, Quiet
<1>4. CASE Next
  BY <1>2, <1>3, <1>4, QueuedEmit, QueuedNote, QueuedX, QueuedBcast DEF Next
<1> QED
  BY <1>1, <1>4

\* The three outboxes keep the promise of QueueRow for any number of rows and publishers: a
\* row is taken by one at a time, each taking is counted, and sent or failed is final.
THEOREM TablesImplementQueue == Spec => RowsAreQueued
<1>1. Init => Queue!Init
  BY RowKinds DEF Init, Queue!Init
<1>2. Typed /\ Held /\ [Next]_vars
        => [Queue!Next]_<<[r \in Rows |-> StatusOf(r)], [r \in Rows |-> TriesOf(r)]>>
  BY NextQueued, QueueQuiet DEF Quiet
<1> QED
  BY <1>1, <1>2, HeldAlways, PTL DEF Spec, RowsAreQueued, Queue!Spec

---------------------------------------------------------------------------
(* Messages are delivered once, or once more per failure.                 *)

\* notify_outbox: an event that waits, or whose sending has not been tried, is not told.
ToldInv ==
  \A e \in Events :
    /\ told[e] <= 1
    /\ note[e] \in {"absent", "pending"} => told[e] = 0
    /\ \A p \in Procs : nhand[p].row = e /\ nhand[p].res = "none" => told[e] = 0

LEMMA ToldNext == Typed /\ Held /\ ToldInv /\ [Next]_vars => ToldInv'
<1> SUFFICES ASSUME Typed, Held, ToldInv, [Next]_vars PROVE ToldInv'
  OBVIOUS
<1> USE DEF noteVars
<1>1. CASE UNCHANGED <<note, told, nhand>>
  BY <1>1 DEF ToldInv
<1>2. ASSUME NEW e \in Events, EmitTelegram(e) PROVE ToldInv'
  <2>1. UNCHANGED <<told, nhand>>
    BY <1>2 DEF EmitTelegram, hands
  <2>2. \A d \in Events : note'[d] \in {"absent", "pending"} => note[d] \in {"absent", "pending"}
    BY <1>2 DEF Typed, NoteTyped, EmitTelegram, InsertNote
  <2> QED
    BY <2>1, <2>2 DEF ToldInv
<1>3. ASSUME NEW p \in Procs, NoteClaim(p) PROVE ToldInv'
  <2>1. PICK e \in Events : /\ note[e] = "pending" /\ note' = [note EXCEPT ![e] = "taken"]
                            /\ nhand' = [nhand EXCEPT ![p].row = e]
    BY <1>3 DEF NoteClaim, NotePending
  <2>2. \A d \in Events : note'[d] = IF d = e THEN "taken" ELSE note[d]
    BY <2>1 DEF Typed, NoteTyped
  <2>3. \A q \in Procs : /\ nhand'[q].row = IF q = p THEN e ELSE nhand[q].row
                         /\ nhand'[q].res = nhand[q].res
    BY <2>1 DEF Typed, NoteTyped, NHand
  <2>4. told' = told
    BY <1>3 DEF NoteClaim
  <2> QED
    BY <2>1, <2>2, <2>3, <2>4 DEF ToldInv
<1>4. ASSUME NEW p \in Procs, NoteSend(p) PROVE ToldInv'
  <2>1. nhand[p].row \in Events /\ note[nhand[p].row] = "taken" /\ nhand[p].res = "none"
    BY <1>4 DEF Typed, NoteTyped, NHand, Held, NoteHeld, NoteSend
  <2>2. PICK r \in {"sent", "failed"} : nhand' = [nhand EXCEPT ![p].res = r]
    BY <1>4 DEF NoteSend
  <2>3. \A q \in Procs : /\ nhand'[q].row = nhand[q].row
                         /\ nhand'[q].res = IF q = p THEN r ELSE nhand[q].res
    BY <2>2 DEF Typed, NoteTyped, NHand
  <2>4. told' = told \/ told' = [told EXCEPT ![nhand[p].row] = @ + 1]
    BY <1>4 DEF NoteSend
  <2>5. \A d \in Events : \/ told'[d] = told[d]
                          \/ d = nhand[p].row /\ told'[d] = told[d] + 1
    BY <2>1, <2>4 DEF Typed, NoteTyped
  <2>6. note' = note
    BY <1>4 DEF NoteSend
  <2>7. told[nhand[p].row] = 0
    BY <2>1 DEF ToldInv
  <2>8. \A q \in Procs : nhand[q].row = nhand[p].row => q = p
    BY <2>1, NoneAssumption DEF Held, NoteHeld
  <2> QED
    BY <2>1, <2>3, <2>5, <2>6, <2>7, <2>8 DEF ToldInv
<1>5. ASSUME NEW p \in Procs, NoteMark(p) PROVE ToldInv'
  <2>1. nhand[p].res \in {"sent", "failed"}
    BY <1>5 DEF Typed, NoteTyped, NHand, NoteMark
  <2>2. \A d \in Events : note'[d] = note[d] \/ note'[d] \in {"sent", "failed"}
    BY <1>5, <2>1 DEF Typed, NoteTyped, NoteMark, NoteVerdict
  <2>3. \A q \in Procs : nhand'[q] = IF q = p THEN NoNote ELSE nhand[q]
    BY <1>5 DEF Typed, NoteTyped, NoteMark
  <2>4. told' = told
    BY <1>5 DEF NoteMark
  <2> QED
    BY <2>2, <2>3, <2>4, NoneAssumption DEF ToldInv, NoNote
<1>6. ASSUME NEW p \in Procs, Crash(p) PROVE ToldInv'
  <2>1. \A q \in Procs : nhand'[q] = IF q = p THEN NoNote ELSE nhand[q]
    BY <1>6 DEF Typed, NoteTyped, Crash
  <2>2. UNCHANGED <<note, told>>
    BY <1>6 DEF Crash
  <2> QED
    BY <2>1, <2>2, NoneAssumption DEF ToldInv, NoNote
<1>7. ASSUME EmitTweet \/ EmitCrash \/ NewDay \/ \E s \in Setups : Announce(s)
      PROVE  UNCHANGED <<note, told, nhand>>
  BY <1>7 DEF EmitTweet, EmitCrash, NewDay, Announce, hands
<1>8. ASSUME NEW p \in Procs, XStep(p) \/ BcastStep(p) \/ ReportStep(p)
      PROVE  UNCHANGED <<note, told, nhand>>
  BY <1>8 DEF XStep, XCount, XClaim, XSend, XMark, BcastStep, BcastClaim, BcastSend, BcastEnqueue,
     BcastMark, ReportStep, ReportCheck, ReportSend, ReportEnqueue, ReportRecord
<1>9. CASE UNCHANGED vars
  BY <1>1, <1>9 DEF vars, hands
<1> QED
  BY <1>1, <1>2, <1>3, <1>4, <1>5, <1>6, <1>7, <1>8, <1>9 DEF Next, NoteStep

---------------------------------------------------------------------------
\* x_outbox: a row that will be posted again has been posted only with its answer lost.
PostInv ==
  \A i \in XIds :
    /\ tweets[i] <= 1 + lost
    /\ x[i] = "sent" => tweets[i] >= 1
    /\ x[i] \in {"absent", "pending"} => tweets[i] <= lost
    /\ \A p \in Procs : /\ i \in xhand[p].work => tweets[i] <= lost
                        /\ xhand[p].row = i /\ xhand[p].res # "ok" => tweets[i] <= lost
                        /\ xhand[p].row = i /\ xhand[p].res = "ok" => tweets[i] >= 1

\* A new row has not been posted; a lost answer of another table only loosens the bound.
LEMMA PostNew ==
  ASSUME Typed, Held, PostInv, NEW src, InsertX(src) \/ UNCHANGED x,
         UNCHANGED <<tweets, xhand>>, lost' \in Nat, lost <= lost'
  PROVE  PostInv'
<1>1. \A i \in XIds : x'[i] = x[i] \/ (x[i] = "absent" /\ x'[i] = "pending")
  BY DEF Typed, XTyped, InsertX, Free
<1>2. lost \in Nat /\ \A i \in XIds : tweets[i] \in Nat
  BY DEF Typed, Counted, XTyped
<1> QED
  BY <1>1, <1>2 DEF PostInv

LEMMA PostNext == Typed /\ Held /\ PostInv /\ [Next]_vars => PostInv'
<1> SUFFICES ASSUME Typed, Held, PostInv, [Next]_vars PROVE PostInv'
  OBVIOUS
<1> USE DEF xVars
<1>0. lost \in Nat /\ \A i \in XIds : tweets[i] \in Nat
  BY DEF Typed, Counted, XTyped
<1>1. CASE UNCHANGED <<x, tweets, xhand>> /\ (lost' = lost \/ lost' = lost + 1)
  BY <1>0, <1>1 DEF PostInv
<1>2. ASSUME EmitTweet PROVE PostInv'
  BY <1>0, <1>2, PostNew DEF EmitTweet, hands
<1>3. ASSUME NEW p \in Procs, XCount(p) PROVE PostInv'
  <2>1. PICK n : xhand' = [xhand EXCEPT ![p].room = n]
    BY <1>3 DEF XCount
  <2>2. \A q \in Procs : /\ xhand'[q].work = xhand[q].work /\ xhand'[q].row = xhand[q].row
                         /\ xhand'[q].res = xhand[q].res
    BY <2>1 DEF Typed, XTyped, XHand
  <2>3. UNCHANGED <<x, tweets, lost>>
    BY <1>3 DEF XCount
  <2> QED
    BY <2>2, <2>3 DEF PostInv
<1>4. ASSUME NEW p \in Procs, XClaim(p) PROVE PostInv'
  <2> DEFINE rows == XOldest(xhand[p].room)
  <2>1. rows \subseteq XIds /\ \A i \in rows : x[i] = "pending"
    BY DEF XOldest, XPending
  <2>2. \A q \in Procs : xhand'[q] = IF q = p THEN [NoX EXCEPT !.work = rows] ELSE xhand[q]
    BY <1>4 DEF Typed, XTyped, XClaim
  <2>3. [NoX EXCEPT !.work = rows].work = rows /\ [NoX EXCEPT !.work = rows].row = None
    BY DEF NoX
  <2>4. \A i \in XIds : x'[i] = IF i \in rows THEN "taken" ELSE x[i]
    BY <1>4 DEF XClaim, XClaimed
  <2>5. UNCHANGED <<tweets, lost>>
    BY <1>4 DEF XClaim
  <2> HIDE DEF rows
  <2> QED
    BY <2>1, <2>2, <2>3, <2>4, <2>5, NoneAssumption, ZenonT(60) DEF PostInv
<1>5. ASSUME NEW p \in Procs, NEW i \in XIds, XSend(p, i) PROVE PostInv'
  <2>1. PICK r \in {"ok", "err"} :
          /\ xhand' = [xhand EXCEPT ![p] = [room |-> 0, work |-> @.work \ {i}, row |-> i, res |-> r]]
          /\ \/ r = "ok" /\ tweets' = [tweets EXCEPT ![i] = @ + 1] /\ lost' = lost
             \/ r = "err" /\ tweets' = tweets /\ lost' = lost
             \/ r = "err" /\ tweets' = [tweets EXCEPT ![i] = @ + 1] /\ lost' = lost + 1
    BY <1>5 DEF XSend, Answered, AnswerLost
  <2>2. \A q \in Procs :
          /\ xhand'[q].work = IF q = p THEN xhand[q].work \ {i} ELSE xhand[q].work
          /\ xhand'[q].row = IF q = p THEN i ELSE xhand[q].row
          /\ xhand'[q].res = IF q = p THEN r ELSE xhand[q].res
    BY <2>1 DEF Typed, XTyped
  <2>3. x' = x /\ i \in xhand[p].work /\ InX(p, i)
    BY <1>5 DEF XSend, InX
  <2>4. x[i] = "taken" /\ tweets[i] <= lost
    BY <2>3 DEF Held, XRowsHeld, PostInv
  <2>5. \A q \in Procs : q # p => i \notin xhand[q].work /\ xhand[q].row # i
    BY <2>3 DEF Held, XRowsHeld, InX
  <2>6. \A j \in XIds : j # i => tweets'[j] = tweets[j]
    BY <2>1 DEF Typed, XTyped
  <2>7. /\ tweets'[i] \in Nat
        /\ \/ r = "ok" /\ tweets'[i] = tweets[i] + 1 /\ lost' = lost
           \/ r = "err" /\ tweets'[i] <= lost' /\ lost' \in {lost, lost + 1}
    BY <1>0, <2>1, <2>4 DEF Typed, XTyped
  <2>8. ASSUME NEW j \in XIds, j # i
        PROVE  /\ tweets'[j] <= 1 + lost'
               /\ x'[j] = "sent" => tweets'[j] >= 1
               /\ x'[j] \in {"absent", "pending"} => tweets'[j] <= lost'
               /\ \A q \in Procs : /\ j \in xhand'[q].work => tweets'[j] <= lost'
                                   /\ xhand'[q].row = j /\ xhand'[q].res # "ok" => tweets'[j] <= lost'
                                   /\ xhand'[q].row = j /\ xhand'[q].res = "ok" => tweets'[j] >= 1
    <3>1. tweets'[j] = tweets[j] /\ tweets[j] \in Nat /\ lost' \in Nat /\ lost <= lost'
      BY <1>0, <2>6, <2>7, <2>8
    <3>2. /\ tweets[j] <= 1 + lost /\ (x[j] = "sent" => tweets[j] >= 1)
          /\ x[j] \in {"absent", "pending"} => tweets[j] <= lost
      BY DEF PostInv
    <3>3. ASSUME NEW q \in Procs
          PROVE  /\ j \in xhand'[q].work => tweets'[j] <= lost'
                 /\ xhand'[q].row = j /\ xhand'[q].res # "ok" => tweets'[j] <= lost'
                 /\ xhand'[q].row = j /\ xhand'[q].res = "ok" => tweets'[j] >= 1
      <4>1. /\ j \in xhand[q].work => tweets[j] <= lost
            /\ xhand[q].row = j /\ xhand[q].res # "ok" => tweets[j] <= lost
            /\ xhand[q].row = j /\ xhand[q].res = "ok" => tweets[j] >= 1
        BY DEF PostInv
      <4>2. /\ xhand'[q].work \subseteq xhand[q].work
            /\ xhand'[q].row = j => xhand[q].row = j /\ xhand'[q].res = xhand[q].res
        BY <2>2, <2>8
      <4>3. tweets[j] <= lost => tweets'[j] <= lost'
        BY <1>0, <3>1
      <4> QED
        BY <3>1, <4>1, <4>2, <4>3
    <3> QED
      BY <1>0, <2>3, <3>1, <3>2, <3>3
  <2>9. /\ tweets'[i] <= 1 + lost'
        /\ \A q \in Procs : /\ i \notin xhand'[q].work
                            /\ xhand'[q].row = i => q = p
    <3>1. tweets'[i] <= 1 + lost'
      BY <1>0, <2>4, <2>7
    <3>2. \A q \in Procs : /\ i \notin xhand'[q].work
                           /\ xhand'[q].row = i => q = p
      BY <2>2, <2>5
    <3> QED
      BY <3>1, <3>2
  <2>10. /\ r # "ok" => tweets'[i] <= lost'
         /\ r = "ok" => tweets'[i] >= 1
    BY <1>0, <2>7
  <2> QED
    BY <2>2, <2>3, <2>4, <2>8, <2>9, <2>10 DEF PostInv
<1>6. ASSUME NEW p \in Procs, XMark(p) PROVE PostInv'
  <2>1. xhand[p].row \in XIds
    BY <1>6 DEF Typed, XTyped, XHand, XMark
  <2>2. \A q \in Procs :
          /\ xhand'[q].work = xhand[q].work
          /\ xhand'[q].row = IF q = p THEN None ELSE xhand[q].row
          /\ q # p => xhand'[q].res = xhand[q].res
    BY <1>6 DEF Typed, XTyped, XHand, XMark
  <2>3. \A j \in XIds : \/ x'[j] = x[j]
                        \/ j = xhand[p].row /\ x'[j] = XVerdict(j, xhand[p].res)
    BY <1>6, <2>1 DEF Typed, XTyped, XMark
  <2>4. \A j \in XIds : /\ XVerdict(j, xhand[p].res) = "sent" <=> xhand[p].res = "ok"
                        /\ XVerdict(j, xhand[p].res) \in {"sent", "failed", "pending"}
    BY DEF XVerdict
  <2>5. UNCHANGED <<tweets, lost>>
    BY <1>6 DEF XMark
  <2> QED
    BY <2>1, <2>2, <2>3, <2>4, <2>5, NoneAssumption DEF PostInv
<1>7. ASSUME NEW p \in Procs, BcastEnqueue(p) \/ ReportEnqueue(p) PROVE PostInv'
  BY <1>0, <1>7, PostNew DEF BcastEnqueue, ReportEnqueue
<1>8. ASSUME NEW p \in Procs, Crash(p) PROVE PostInv'
  <2>1. \A q \in Procs : xhand'[q] = IF q = p THEN NoX ELSE xhand[q]
    BY <1>8 DEF Typed, XTyped, Crash
  <2>2. UNCHANGED <<x, tweets, lost>>
    BY <1>8 DEF Crash
  <2> QED
    BY <2>1, <2>2, NoneAssumption DEF PostInv, NoX
<1>9. ASSUME \/ EmitCrash \/ NewDay \/ UNCHANGED vars
             \/ \E e \in Events : EmitTelegram(e)
             \/ \E s \in Setups : Announce(s)
      PROVE  UNCHANGED <<x, tweets, xhand>> /\ lost' = lost
  BY <1>9 DEF EmitCrash, NewDay, EmitTelegram, Announce, hands, vars
<1>10. ASSUME NEW p \in Procs, NoteStep(p) \/ BcastClaim(p) \/ BcastMark(p) \/ ReportCheck(p)
                               \/ ReportSend(p) \/ ReportRecord(p) \/ \E s \in Setups : BcastSend(p, s)
       PROVE  UNCHANGED <<x, tweets, xhand>> /\ (lost' = lost \/ lost' = lost + 1)
  BY <1>10 DEF NoteStep, NoteClaim, NoteSend, NoteMark, BcastClaim, BcastSend, BcastMark,
     ReportCheck, ReportSend, ReportRecord, Answered, AnswerLost
<1> QED
  BY <1>1, <1>2, <1>3, <1>4, <1>5, <1>6, <1>7, <1>8, <1>9, <1>10
     DEF Next, XStep, BcastStep, ReportStep

\* A notification is told once, and a row for X is posted once and once more per lost
\* answer, for any number of rows, publishers and failures.
THEOREM DeliveriesBounded == Spec => [](ToldOnce /\ PostedPerAnswer)
<1>1. Init => ToldInv /\ PostInv
  BY NoneAssumption DEF Init, ToldInv, PostInv, NoNote, NoX
<1>2. (Typed /\ Held) /\ (ToldInv /\ PostInv) /\ [Next]_vars => (ToldInv /\ PostInv)'
  BY ToldNext, PostNext
<1>3. ToldInv /\ PostInv => ToldOnce /\ PostedPerAnswer
  BY DEF ToldInv, PostInv, ToldOnce, PostedPerAnswer
<1> QED
  BY <1>1, <1>2, <1>3, HeldAlways, PTL DEF Spec

---------------------------------------------------------------------------
(* How often a row for X is tried.                                         *)

\* Every claim is counted before the post, and MAX_ATTEMPTS is compared with one more.
TriesInv ==
  \A i \in XIds :
    /\ xTries[i] <= MaxAttempts - 1
    /\ x[i] \in {"absent", "pending"} => xTries[i] <= MaxAttempts - 2
    /\ x[i] = "failed" => xTries[i] = MaxAttempts - 1

\* A statement on x_outbox: a row is inserted, claimed or marked, or left.
LEMMA XStatements ==
  ASSUME Typed, Held, [Next]_vars, NEW i \in XIds
  PROVE  /\ i \in XIds /\ xTries[i] \in Nat
         /\ \/ x'[i] = x[i] /\ xTries'[i] = xTries[i]
            \/ x[i] = "absent" /\ x'[i] = "pending" /\ xTries'[i] = xTries[i]
            \/ x[i] = "pending" /\ x'[i] = "taken" /\ xTries'[i] = xTries[i] + 1
            \/ /\ x[i] = "taken" /\ xTries'[i] = xTries[i]
               /\ \E p \in Procs : XMark(p) /\ i = xhand[p].row /\ x'[i] = XVerdict(i, xhand[p].res)
<1> USE DEF xVars
<1> DEFINE Moved ==
      \/ x'[i] = x[i] /\ xTries'[i] = xTries[i]
      \/ x[i] = "absent" /\ x'[i] = "pending" /\ xTries'[i] = xTries[i]
      \/ x[i] = "pending" /\ x'[i] = "taken" /\ xTries'[i] = xTries[i] + 1
      \/ /\ x[i] = "taken" /\ xTries'[i] = xTries[i]
         /\ \E p \in Procs : XMark(p) /\ i = xhand[p].row /\ x'[i] = XVerdict(i, xhand[p].res)
<1>1. xTries[i] \in Nat /\ x \in [XIds -> Statuses]
  BY DEF Typed, XTyped
<1>2. ASSUME UNCHANGED <<x, xTries>> PROVE Moved
  BY <1>2
<1>3. ASSUME NEW src, InsertX(src) \/ UNCHANGED x, UNCHANGED xTries PROVE Moved
  BY <1>1, <1>3 DEF InsertX, Free
<1>4. ASSUME EmitTweet PROVE Moved
  BY <1>3, <1>4 DEF EmitTweet
<1>5. ASSUME NEW p \in Procs, BcastEnqueue(p) \/ ReportEnqueue(p) PROVE Moved
  BY <1>3, <1>5 DEF BcastEnqueue, ReportEnqueue
<1>6. ASSUME NEW p \in Procs, XClaim(p) PROVE Moved
  BY <1>6 DEF XClaim, XOldest, XPending, XClaimed, XTried
<1>7. ASSUME NEW p \in Procs, XMark(p) PROVE Moved
  <2>1. xhand[p].row \in XIds /\ InX(p, xhand[p].row)
    BY <1>7 DEF Typed, XTyped, XHand, XMark, InX
  <2>2. x[xhand[p].row] = "taken"
    BY <2>1 DEF Held, XRowsHeld
  <2>3. /\ xTries' = xTries
        /\ x' = x \/ x' = [x EXCEPT ![xhand[p].row] = XVerdict(xhand[p].row, xhand[p].res)]
    BY <1>7 DEF XMark
  <2> QED
    BY <1>1, <1>7, <2>1, <2>2, <2>3
<1>8. ASSUME \/ EmitCrash \/ NewDay \/ UNCHANGED vars
             \/ \E e \in Events : EmitTelegram(e)
             \/ \E s \in Setups : Announce(s)
      PROVE  UNCHANGED <<x, xTries>>
  BY <1>8 DEF EmitCrash, NewDay, EmitTelegram, Announce, vars
<1>9. ASSUME NEW p \in Procs, \/ NoteStep(p) \/ BcastClaim(p) \/ BcastMark(p) \/ ReportCheck(p)
                              \/ ReportSend(p) \/ ReportRecord(p) \/ XCount(p) \/ Crash(p)
                              \/ (\E s \in Setups : BcastSend(p, s)) \/ (\E j \in XIds : XSend(p, j))
      PROVE  UNCHANGED <<x, xTries>>
  BY <1>9 DEF NoteStep, NoteClaim, NoteSend, NoteMark, BcastClaim, BcastSend, BcastMark,
     ReportCheck, ReportSend, ReportRecord, XCount, XSend, Crash
<1>10. Moved
  BY <1>2, <1>4, <1>5, <1>6, <1>7, <1>8, <1>9 DEF Next, XStep, BcastStep, ReportStep
<1> QED
  BY <1>1, <1>10

LEMMA TriesNext == Typed /\ Held /\ TriesInv /\ [Next]_vars => TriesInv'
<1> SUFFICES ASSUME Typed, Held, TriesInv, [Next]_vars, NEW i \in XIds
             PROVE  /\ xTries'[i] <= MaxAttempts - 1
                    /\ x'[i] \in {"absent", "pending"} => xTries'[i] <= MaxAttempts - 2
                    /\ x'[i] = "failed" => xTries'[i] = MaxAttempts - 1
  BY DEF TriesInv
<1>1. /\ xTries[i] \in Nat /\ MaxAttempts \in Nat
      /\ xTries[i] <= MaxAttempts - 1
      /\ x[i] \in {"absent", "pending"} => xTries[i] <= MaxAttempts - 2
      /\ x[i] = "failed" => xTries[i] = MaxAttempts - 1
  BY XStatements, CapsAssumption DEF TriesInv
<1>2. ASSUME NEW res
      PROVE  /\ XVerdict(i, res) \in {"absent", "pending"} => xTries[i] <= MaxAttempts - 2
             /\ XVerdict(i, res) = "failed" => xTries[i] = MaxAttempts - 1
  BY <1>1 DEF XVerdict, Terminal
<1> QED
  BY <1>1, <1>2, XStatements

\* publish_one: a row is tried MAX_ATTEMPTS - 1 times at most, and given up with exactly
\* that attempt, whatever answers are lost and whoever dies.
THEOREM GivenUpOneEarlyHolds == Spec => []GivenUpOneEarly
<1>1. Init => TriesInv
  BY CapsAssumption DEF Init, TriesInv
<1>2. TriesInv => GivenUpOneEarly
  BY DEF TriesInv, GivenUpOneEarly
<1> QED
  BY <1>1, <1>2, TriesNext, HeldAlways, PTL DEF Spec

---------------------------------------------------------------------------
(* A setup is announced once.                                              *)

NoRow(s) == \A i \in XIds : xFrom[i] # s

\* setup_broadcast_outbox: a setup that waits, or that a loop will hand back to wait,
\* has no row for X, and a card only when an answer was lost.
AnnInv ==
  \A s \in Setups :
    /\ cards[s] <= 1 + lost
    /\ \A i, j \in XIds : xFrom[i] = s /\ xFrom[j] = s => i = j
    /\ bcast[s] \in {"absent", "pending"} => cards[s] <= lost /\ NoRow(s)
    /\ \A p \in Procs :
         /\ s \in bhand[p].work => cards[s] <= lost /\ NoRow(s)
         /\ bhand[p].row = s =>
              /\ bhand[p].res \in {"told", "untold", "retry"} => NoRow(s)
              /\ bhand[p].res \in {"untold", "retry"} => cards[s] <= lost

\* A row for X that announces something else.
LEMMA OtherRow ==
  ASSUME Typed, NEW src, InsertX(src) \/ UNCHANGED xFrom, NEW s, s # src
  PROVE  \A i \in XIds : xFrom'[i] = s => xFrom[i] = s
BY DEF Typed, XTyped, InsertX, Free

\* What keeps AnnInv: rows of other things, and lost answers.
LEMMA AnnQuiet ==
  ASSUME Typed, AnnInv, UNCHANGED <<bcast, bhand>>,
         \A s \in Setups : cards'[s] = cards[s] /\ \A i \in XIds : xFrom'[i] = s => xFrom[i] = s,
         lost' \in {lost, lost + 1}
  PROVE  AnnInv'
<1>1. lost \in Nat /\ \A s \in Setups : cards[s] \in Nat
  BY DEF Typed, Counted, BcastTyped
<1>2. \A s \in Setups : NoRow(s) => NoRow(s)'
  BY DEF NoRow
<1>3. \A s \in Setups : cards'[s] = cards[s] /\ (cards[s] <= lost => cards'[s] <= lost')
                        /\ (cards[s] <= 1 + lost => cards'[s] <= 1 + lost')
  BY <1>1
<1> QED
  BY <1>2, <1>3 DEF AnnInv

LEMMA AnnNext == Typed /\ Held /\ AnnInv /\ [Next]_vars => AnnInv'
<1> SUFFICES ASSUME Typed, Held, AnnInv, [Next]_vars PROVE AnnInv'
  OBVIOUS
<1> USE DEF xVars, bcastVars
<1>0. /\ lost \in Nat /\ \A s \in Setups : cards[s] \in Nat
      /\ bhand \in [Procs -> BHand] /\ bcast \in [Setups -> Statuses]
  BY DEF Typed, Counted, BcastTyped
<1>1. CASE UNCHANGED <<bcast, bhand, xFrom, cards>> /\ lost' \in {lost, lost + 1}
  BY <1>1, AnnQuiet
<1>2. ASSUME EmitTweet PROVE AnnInv'
  <2>1. emitting \in Events
    BY <1>2 DEF Typed, NoteTyped, EmitTweet
  <2>2. \A s \in Setups : \A i \in XIds : xFrom'[i] = s => xFrom[i] = s
    <3>1. \A s \in Setups : s # emitting
      BY <2>1, NamesAssumption
    <3> QED
      BY <1>2, <3>1, OtherRow DEF EmitTweet
  <2>3. UNCHANGED <<bcast, bhand, cards, lost>>
    BY <1>2 DEF EmitTweet, hands
  <2> QED
    BY <2>2, <2>3, AnnQuiet
<1>3. ASSUME NEW p \in Procs, ReportSend(p) \/ ReportEnqueue(p) PROVE AnnInv'
  <2>1. rhand[p].win \in 1 .. Days /\ UNCHANGED <<bcast, bhand, lost>>
    BY <1>3 DEF Typed, Windowed, ReportSend, ReportEnqueue
  <2>2. \A s \in Setups : s # rhand[p].win
    BY <2>1, NamesAssumption
  <2>3. \A s \in Setups : cards'[s] = cards[s]
    BY <1>3, <2>2 DEF Typed, BcastTyped, ReportSend, ReportEnqueue
  <2>4. \A s \in Setups : \A i \in XIds : xFrom'[i] = s => xFrom[i] = s
    BY <1>3, <2>2, OtherRow DEF ReportSend, ReportEnqueue
  <2> QED
    BY <2>1, <2>3, <2>4, AnnQuiet
<1>4. ASSUME NEW s \in Setups, Announce(s) PROVE AnnInv'
  <2>1. \A t \in Setups : bcast'[t] = bcast[t] \/ bcast[t] = "absent"
    BY <1>0, <1>4 DEF Announce
  <2>2. UNCHANGED <<bhand, xFrom, cards, lost>>
    BY <1>4 DEF Announce, hands
  <2> QED
    BY <2>1, <2>2 DEF AnnInv, NoRow
<1>5. ASSUME NEW p \in Procs, BcastClaim(p) PROVE AnnInv'
  <2>1. /\ \A t \in Setups : bcast'[t] = IF t \in BcastOldest THEN "taken" ELSE bcast[t]
        /\ \A t \in BcastOldest : t \in Setups /\ bcast[t] = "pending"
        /\ UNCHANGED <<xFrom, cards, lost>>
    BY <1>5 DEF BcastClaim, BcastOldest, BcastPending
  <2>2. \A q \in Procs : /\ bhand'[q].row = bhand[q].row /\ bhand'[q].res = bhand[q].res
                         /\ bhand'[q].work = IF q = p THEN BcastOldest ELSE bhand[q].work
    BY <1>0, <1>5 DEF BcastClaim, BHand
  <2> QED
    BY <2>1, <2>2 DEF AnnInv, NoRow
<1>6. ASSUME NEW p \in Procs, NEW s \in Setups, BcastSend(p, s) PROVE AnnInv'
  <2>1. PICK r \in {"gone", "retry", "untold", "told"} :
          /\ bhand' = [bhand EXCEPT ![p] = [work |-> @.work \ {s}, row |-> s, res |-> r]]
          /\ \/ cards' = cards /\ lost' = lost /\ r # "told"
             \/ cards' = [cards EXCEPT ![s] = @ + 1] /\ lost' = lost /\ r = "told"
             \/ cards' = [cards EXCEPT ![s] = @ + 1] /\ lost' = lost + 1 /\ r = "untold"
    BY <1>6 DEF BcastSend, Answered, AnswerLost
  <2>2. \A q \in Procs :
          /\ bhand'[q].work = IF q = p THEN bhand[q].work \ {s} ELSE bhand[q].work
          /\ bhand'[q].row = IF q = p THEN s ELSE bhand[q].row
          /\ bhand'[q].res = IF q = p THEN r ELSE bhand[q].res
    BY <1>0, <2>1
  <2>3. UNCHANGED <<bcast, xFrom>> /\ s \in bhand[p].work /\ InBcast(p, s)
    BY <1>6 DEF BcastSend, InBcast
  <2>4. bcast[s] = "taken" /\ cards[s] <= lost /\ NoRow(s)
    BY <2>3 DEF Held, BcastHeldOnce, AnnInv
  <2>5. \A q \in Procs : q # p => s \notin bhand[q].work /\ bhand[q].row # s
    BY <2>3 DEF Held, BcastHeldOnce, InBcast
  <2>6. \A t \in Setups : t # s => cards'[t] = cards[t]
    BY <2>1 DEF Typed, BcastTyped
  <2>7. /\ lost <= lost' /\ lost' \in Nat /\ cards'[s] <= 1 + lost'
        /\ r # "told" => cards'[s] <= lost'
    BY <1>0, <2>1, <2>4 DEF Typed, BcastTyped
  <2>8. \A t \in Setups : NoRow(t)' <=> NoRow(t)
    BY <2>3 DEF NoRow
  <2>9. \A t \in Setups : t # s => /\ cards[t] <= lost => cards'[t] <= lost'
                                   /\ cards[t] <= 1 + lost => cards'[t] <= 1 + lost'
    BY <1>0, <2>6, <2>7
  <2>10. ASSUME NEW t \in Setups, t # s
         PROVE  /\ cards'[t] <= 1 + lost'
                /\ \A i, j \in XIds : xFrom'[i] = t /\ xFrom'[j] = t => i = j
                /\ bcast'[t] \in {"absent", "pending"} => cards'[t] <= lost' /\ NoRow(t)'
                /\ \A q \in Procs :
                     /\ t \in bhand'[q].work => cards'[t] <= lost' /\ NoRow(t)'
                     /\ bhand'[q].row = t =>
                          /\ bhand'[q].res \in {"told", "untold", "retry"} => NoRow(t)'
                          /\ bhand'[q].res \in {"untold", "retry"} => cards'[t] <= lost'
    <3>1. \A q \in Procs : /\ t \in bhand'[q].work => t \in bhand[q].work
                           /\ bhand'[q].row = t => bhand[q].row = t /\ bhand'[q].res = bhand[q].res
      BY <2>2, <2>10
    <3> QED
      BY <2>3, <2>8, <2>9, <2>10, <3>1 DEF AnnInv
  <2>11. /\ cards'[s] <= 1 + lost'
         /\ \A i, j \in XIds : xFrom'[i] = s /\ xFrom'[j] = s => i = j
         /\ bcast'[s] \in {"absent", "pending"} => cards'[s] <= lost' /\ NoRow(s)'
         /\ \A q \in Procs :
              /\ s \in bhand'[q].work => cards'[s] <= lost' /\ NoRow(s)'
              /\ bhand'[q].row = s =>
                   /\ bhand'[q].res \in {"told", "untold", "retry"} => NoRow(s)'
                   /\ bhand'[q].res \in {"untold", "retry"} => cards'[s] <= lost'
    BY <2>2, <2>3, <2>4, <2>5, <2>7, <2>8 DEF AnnInv
  <2> QED
    BY <2>10, <2>11 DEF AnnInv
<1>7. ASSUME NEW p \in Procs, BcastEnqueue(p) PROVE AnnInv'
  <2>1. PICK xOk \in BOOLEAN :
          /\ IF xOk THEN InsertX(bhand[p].row) ELSE UNCHANGED <<x, xFrom>>
          /\ bhand' = [bhand EXCEPT ![p].res =
                         IF EitherOk(bhand[p].res = "told", xOk) THEN "sent" ELSE "retry"]
    BY <1>7 DEF BcastEnqueue
  <2>2. /\ bhand[p].res \in {"told", "untold"} /\ bhand[p].row # None
        /\ UNCHANGED <<bcast, cards, lost>>
    BY <1>7 DEF BcastEnqueue, Held, BcastHeldOnce
  <2>3. PICK s \in Setups : s = bhand[p].row
    BY <1>0, <2>2 DEF BHand
  <2>4. /\ InBcast(p, s) /\ bcast[s] = "taken"
        /\ \A q \in Procs : q # p => s \notin bhand[q].work /\ bhand[q].row # s
        /\ s \notin bhand[p].work
    BY <2>3 DEF Held, BcastHeldOnce, InBcast
  <2>5. NoRow(s)
    BY <2>2, <2>3 DEF AnnInv
  <2>6. \A q \in Procs :
          /\ bhand'[q].work = bhand[q].work /\ bhand'[q].row = bhand[q].row
          /\ q # p => bhand'[q].res = bhand[q].res
          /\ bhand'[p].res \in {"sent", "retry"}
          /\ bhand'[p].res = "retry" => ~xOk /\ bhand[p].res = "untold"
    BY <1>0, <2>1, <2>2 DEF BHand, EitherOk
  <2>7. \A t \in Setups : t # s => \A i \in XIds : xFrom'[i] = t => xFrom[i] = t
    <3>1. InsertX(s) \/ UNCHANGED xFrom
      BY <2>1, <2>3
    <3> QED
      BY <3>1, OtherRow
  <2>8. /\ \A i, j \in XIds : xFrom'[i] = s /\ xFrom'[j] = s => i = j
        /\ ~xOk => NoRow(s)'
    <3>1. CASE xOk
      <4>1. PICK i \in XIds : xFrom' = [xFrom EXCEPT ![i] = s]
        BY <2>1, <2>3, <3>1 DEF InsertX, Free
      <4> QED
        BY <2>5, <3>1, <4>1 DEF NoRow, Typed, XTyped
    <3>2. CASE ~xOk
      BY <2>1, <2>5, <3>2 DEF NoRow
    <3> QED
      BY <3>1, <3>2
  <2>9. ASSUME NEW t \in Setups, t # s
        PROVE  /\ cards'[t] <= 1 + lost'
               /\ \A i, j \in XIds : xFrom'[i] = t /\ xFrom'[j] = t => i = j
               /\ bcast'[t] \in {"absent", "pending"} => cards'[t] <= lost' /\ NoRow(t)'
               /\ \A q \in Procs :
                    /\ t \in bhand'[q].work => cards'[t] <= lost' /\ NoRow(t)'
                    /\ bhand'[q].row = t =>
                         /\ bhand'[q].res \in {"told", "untold", "retry"} => NoRow(t)'
                         /\ bhand'[q].res \in {"untold", "retry"} => cards'[t] <= lost'
    <3>1. NoRow(t) => NoRow(t)'
      BY <2>7, <2>9 DEF NoRow
    <3>2. \A q \in Procs : /\ bhand'[q].work = bhand[q].work /\ bhand'[q].row = bhand[q].row
                           /\ bhand'[q].row = t => bhand'[q].res = bhand[q].res
      BY <2>3, <2>6, <2>9
    <3> QED
      BY <2>2, <2>7, <2>9, <3>1, <3>2 DEF AnnInv
  <2>10. /\ cards'[s] <= 1 + lost'
         /\ bcast'[s] \notin {"absent", "pending"}
         /\ \A q \in Procs :
              /\ s \notin bhand'[q].work
              /\ bhand'[q].row = s =>
                   /\ bhand'[q].res \in {"told", "untold", "retry"} => NoRow(s)'
                   /\ bhand'[q].res \in {"untold", "retry"} => cards'[s] <= lost'
    BY <2>2, <2>3, <2>4, <2>6, <2>8 DEF AnnInv
  <2> QED
    BY <2>8, <2>9, <2>10 DEF AnnInv
<1>8. ASSUME NEW p \in Procs, BcastMark(p) PROVE AnnInv'
  <2>1. bhand[p].row \in Setups /\ bhand[p].res \in {"sent", "retry", "gone"}
    BY <1>0, <1>8 DEF BcastMark, Held, BcastHeldOnce, BHand
  <2>2. \A t \in Setups : \/ bcast'[t] = bcast[t]
                          \/ t = bhand[p].row /\ bcast'[t] = BcastVerdict(t, bhand[p].res)
    BY <1>0, <1>8, <2>1 DEF BcastMark
  <2>3. \A t \in Setups : BcastVerdict(t, bhand[p].res) \in {"absent", "pending"}
                            => bhand[p].res = "retry"
    BY <2>1 DEF BcastVerdict
  <2>4. \A q \in Procs : /\ bhand'[q].work = bhand[q].work
                         /\ bhand'[q].row = IF q = p THEN None ELSE bhand[q].row
                         /\ q # p => bhand'[q].res = bhand[q].res
    BY <1>0, <1>8 DEF BcastMark, BHand
  <2>5. UNCHANGED <<xFrom, cards, lost>>
    BY <1>8 DEF BcastMark
  <2>6. \A t \in Setups : NoRow(t)' <=> NoRow(t)
    BY <2>5 DEF NoRow
  <2> QED
    BY <2>1, <2>2, <2>3, <2>4, <2>5, <2>6, NoneAssumption DEF AnnInv
<1>9. ASSUME NEW p \in Procs, Crash(p) PROVE AnnInv'
  <2>1. \A q \in Procs : bhand'[q] = IF q = p THEN NoBcast ELSE bhand[q]
    BY <1>0, <1>9 DEF Crash
  <2>2. UNCHANGED <<bcast, xFrom, cards, lost>>
    BY <1>9 DEF Crash
  <2> QED
    BY <2>1, <2>2, NoneAssumption DEF AnnInv, NoBcast, NoRow
<1>10. ASSUME \/ EmitCrash \/ NewDay \/ UNCHANGED vars \/ \E e \in Events : EmitTelegram(e)
       PROVE  UNCHANGED <<bcast, bhand, xFrom, cards>> /\ lost' \in {lost, lost + 1}
  BY <1>10 DEF EmitCrash, NewDay, EmitTelegram, hands, vars
<1>11. ASSUME NEW p \in Procs, NoteStep(p) \/ XStep(p) \/ ReportCheck(p) \/ ReportRecord(p)
       PROVE  UNCHANGED <<bcast, bhand, xFrom, cards>> /\ lost' \in {lost, lost + 1}
  BY <1>11 DEF NoteStep, NoteClaim, NoteSend, NoteMark, XStep, XCount, XClaim, XSend, XMark,
     ReportCheck, ReportRecord, Answered, AnswerLost
<1> QED
  BY <1>1, <1>2, <1>3, <1>4, <1>5, <1>6, <1>7, <1>8, <1>9, <1>10, <1>11
     DEF Next, BcastStep, ReportStep

\* One member at most.
LEMMA AtMostOneOf ==
  ASSUME NEW S, \A i, j \in S : i = j
  PROVE  Cardinality(S) <= 1
<1>1. CASE S = {}
  BY <1>1, FS_EmptySet
<1>2. ASSUME NEW i \in S PROVE Cardinality(S) <= 1
  <2>1. S = {i}
    BY <1>2
  <2>2. Cardinality({i}) = 1
    BY FS_Singleton
  <2> QED
    BY <2>1, <2>2
<1> QED
  BY <1>1, <1>2

\* setup_publisher: a setup gets one row for X, and one card and one more per lost
\* answer, whatever fails and however many publishers run.
THEOREM SetupsAnnouncedOnce == Spec => []AnnouncedOnce
<1>1. Init => AnnInv
  BY NoneAssumption DEF Init, AnnInv, NoRow, NoBcast
<1>2. AnnInv => AnnouncedOnce
  <2> SUFFICES ASSUME AnnInv, NEW s \in Setups
               PROVE  cards[s] <= 1 + lost /\ Cardinality({i \in XIds : xFrom[i] = s}) <= 1
    BY DEF AnnouncedOnce
  <2>1. \A i, j \in {k \in XIds : xFrom[k] = s} : i = j
    BY DEF AnnInv
  <2> QED
    BY <2>1, AtMostOneOf DEF AnnInv
<1> QED
  BY <1>1, <1>2, AnnNext, HeldAlways, PTL DEF Spec

---------------------------------------------------------------------------
(* A report window.                                                        *)

Sending(w) == {p \in Procs : rhand[p].at = "send" /\ rhand[p].win = w}
Doing(w) == {p \in Procs : rhand[p].at # "idle" /\ rhand[p].win = w}

\* Until the window is stamped, every card of it and every one about to be sent belongs
\* to a loop that is still at it, or to a failure.
RepInv ==
  \A w \in 1 .. Days :
    /\ Doing(w) \subseteq Running("report")
    /\ w \notin stamped =>
         cards[w] + Cardinality(Sending(w)) <= Cardinality(Doing(w)) + faults
    /\ cards[w] + Cardinality(Sending(w)) <= Cardinality(Running("report")) + faults

\* Sets of processes are finite.
LEMMA ProcsFinite == \A P \in SUBSET Procs : IsFiniteSet(P) /\ Cardinality(P) \in Nat
BY RowsAssumption, FS_Subset, FS_CardinalityType

\* One process comes or goes.
LEMMA OneProc ==
  ASSUME NEW P \in SUBSET Procs, NEW Q \in SUBSET Procs, NEW p
  PROVE  /\ Cardinality(P) \in Nat /\ Cardinality(Q) \in Nat
         /\ Q \subseteq P => Cardinality(Q) <= Cardinality(P)
         /\ Q \subseteq P \cup {p} => Cardinality(Q) <= Cardinality(P) + 1
         /\ Q = P \cup {p} /\ p \notin P => Cardinality(Q) = Cardinality(P) + 1
<1>1. IsFiniteSet(P) /\ IsFiniteSet(Q) /\ Cardinality(P) \in Nat /\ Cardinality(Q) \in Nat
  BY ProcsFinite
<1>2. Q \subseteq P => Cardinality(Q) <= Cardinality(P)
  BY <1>1, FS_Subset
<1>3. ASSUME Q \subseteq P \cup {p}
      PROVE  /\ Cardinality(Q) <= Cardinality(P) + 1
             /\ p \notin P /\ Q = P \cup {p} => Cardinality(Q) = Cardinality(P) + 1
  BY <1>1, <1>3, OneMore
<1> QED
  BY <1>1, <1>2, <1>3

\* What the failures of a step come to.
LEMMA FaultsGrow ==
  ASSUME Typed, [Next]_vars
  PROVE  on' = on /\ faults \in Nat /\ faults' \in {faults, faults + 1}
<1>1. faults \in Nat
  BY DEF Typed, Counted
<1>2. on' = on
  BY ZenonT(60) DEF Next, NoteStep, XStep, BcastStep, ReportStep, EmitTelegram, EmitTweet, EmitCrash, Announce,
     NoteClaim, NoteSend, NoteMark, XCount, XClaim, XSend, XMark, BcastClaim, BcastSend,
     BcastEnqueue, BcastMark, ReportCheck, ReportSend, ReportEnqueue, ReportRecord, Crash, NewDay, vars
<1>3. faults' \in {faults, faults + 1}
  <2>1. ASSUME \/ \E e \in Events : EmitTelegram(e)
               \/ \E s \in Setups : Announce(s)
               \/ EmitTweet \/ EmitCrash \/ NewDay \/ UNCHANGED vars
        PROVE  faults' \in {faults, faults + 1}
    BY <2>1 DEF EmitTelegram, EmitTweet, EmitCrash, Announce, NewDay, Fail, vars
  <2>2. ASSUME NEW p \in Procs, NoteStep(p) \/ XStep(p) PROVE faults' \in {faults, faults + 1}
    BY <2>2 DEF NoteStep, XStep, NoteClaim, NoteSend, NoteMark, XCount, XClaim, XSend, XMark, Fail,
       Answered, AnswerLost
  <2>3. ASSUME NEW p \in Procs, BcastStep(p) \/ ReportStep(p) \/ Crash(p)
        PROVE  faults' \in {faults, faults + 1}
    BY <2>3 DEF BcastStep, ReportStep, BcastClaim, BcastSend, BcastEnqueue, BcastMark, ReportCheck,
       ReportSend, ReportEnqueue, ReportRecord, Crash, Fail, Answered, AnswerLost
  <2> QED
    BY <2>1, <2>2, <2>3 DEF Next
<1> QED
  BY <1>1, <1>2, <1>3

LEMMA RepNext == Typed /\ RepInv /\ [Next]_vars => RepInv'
<1> SUFFICES ASSUME Typed, RepInv, [Next]_vars, NEW w \in 1 .. Days
             PROVE  /\ Doing(w)' \subseteq Running("report")'
                    /\ w \notin stamped' =>
                         cards'[w] + Cardinality(Sending(w)') <= Cardinality(Doing(w)') + faults'
                    /\ cards'[w] + Cardinality(Sending(w)')
                         <= Cardinality(Running("report")') + faults'
  BY DEF RepInv
<1> DEFINE S == Sending(w)
           D == Doing(w)
           N == Running("report")
           T == Sending(w)'
           E == Doing(w)'
           Kept == /\ E \subseteq N
                   /\ w \notin stamped' => cards'[w] + Cardinality(T) <= Cardinality(E) + faults'
                   /\ cards'[w] + Cardinality(T) <= Cardinality(N) + faults'
<1>0. /\ faults \in Nat /\ faults' \in {faults, faults + 1} /\ Running("report")' = N
      /\ rhand \in [Procs -> RHand] /\ cards[w] \in Nat
      /\ cards \in [Setups \cup (1 .. Days) -> Nat]
  BY FaultsGrow DEF Running, Typed, ReportTyped, BcastTyped
<1>1. /\ S \in SUBSET Procs /\ D \in SUBSET Procs /\ N \in SUBSET Procs
      /\ T \in SUBSET Procs /\ E \in SUBSET Procs /\ S \subseteq D /\ T \subseteq E
      /\ Cardinality(S) \in Nat /\ Cardinality(D) \in Nat /\ Cardinality(N) \in Nat
      /\ Cardinality(T) \in Nat /\ Cardinality(E) \in Nat
  <2>1. /\ S \in SUBSET Procs /\ D \in SUBSET Procs /\ N \in SUBSET Procs
        /\ T \in SUBSET Procs /\ E \in SUBSET Procs /\ S \subseteq D /\ T \subseteq E
    BY DEF Sending, Doing, Running
  <2> HIDE DEF S, D, N, T, E
  <2> QED
    BY <2>1, ProcsFinite
<1>2. /\ D \subseteq N
      /\ w \notin stamped => cards[w] + Cardinality(S) <= Cardinality(D) + faults
      /\ cards[w] + Cardinality(S) <= Cardinality(N) + faults
  BY DEF RepInv
<1>3. ASSUME UNCHANGED <<rhand, stamped>>, cards'[w] = cards[w] PROVE Kept
  <2>1. T = S /\ E = D
    BY <1>3 DEF Sending, Doing
  <2> HIDE DEF S, D, N, T, E
  <2> QED
    BY <1>0, <1>1, <1>2, <1>3, <2>1
<1>4. ASSUME NEW p \in Procs, ReportCheck(p) PROVE Kept
  <2>1. /\ rhand' = [rhand EXCEPT ![p] = [win |-> day, at |-> "send"]] /\ rhand[p] = NoReport
        /\ day \notin stamped /\ p \in N
        /\ UNCHANGED <<stamped, cards, faults>>
    BY <1>4 DEF ReportCheck, NotStamped, Running
  <2>2. CASE day = w
    <3>1. p \notin D /\ p \notin S /\ E = D \cup {p} /\ T = S \cup {p}
      BY <1>0, <2>1, <2>2 DEF Sending, Doing, NoReport
    <3> HIDE DEF S, D, N, T, E
    <3>2. Cardinality(E) = Cardinality(D) + 1 /\ Cardinality(T) = Cardinality(S) + 1
      BY <1>1, <3>1, OneProc
    <3>3. E \subseteq N /\ Cardinality(E) <= Cardinality(N)
      BY <1>1, <1>2, <2>1, <3>1, OneProc
    <3> QED
      BY <1>0, <1>1, <1>2, <2>1, <2>2, <3>2, <3>3
  <2>3. CASE day # w
    <3>1. E = D /\ T = S
      BY <1>0, <2>1, <2>3 DEF Sending, Doing, NoReport
    <3> HIDE DEF S, D, N, T, E
    <3> QED
      BY <1>0, <1>1, <1>2, <2>1, <3>1
  <2> QED
    BY <2>2, <2>3
<1>5. ASSUME NEW p \in Procs, ReportSend(p) PROVE Kept
  <2>1. /\ rhand' = [rhand EXCEPT ![p].at = "enqueue"] /\ rhand[p].at = "send"
        /\ cards' = cards \/ cards' = [cards EXCEPT ![rhand[p].win] = @ + 1]
        /\ UNCHANGED <<stamped, faults>>
    BY <1>5 DEF ReportSend
  <2>2. \A q \in Procs : /\ rhand'[q].win = rhand[q].win
                         /\ rhand'[q].at = IF q = p THEN "enqueue" ELSE rhand[q].at
    BY <1>0, <2>1 DEF RHand
  <2>3. E = D
    BY <2>1, <2>2 DEF Doing
  <2>4. CASE rhand[p].win = w
    <3>1. S = T \cup {p} /\ p \notin T
      BY <2>1, <2>2, <2>4 DEF Sending
    <3>2. cards'[w] \in {cards[w], cards[w] + 1}
      BY <1>0, <2>1, <2>4
    <3> HIDE DEF S, D, N, T, E
    <3>3. Cardinality(S) = Cardinality(T) + 1
      BY <1>1, <3>1, OneProc
    <3> QED
      BY <1>0, <1>1, <1>2, <2>1, <2>3, <3>2, <3>3
  <2>5. CASE rhand[p].win # w
    <3>1. S = T /\ cards'[w] = cards[w]
      BY <1>0, <2>1, <2>2, <2>5 DEF Sending
    <3> HIDE DEF S, D, N, T, E
    <3> QED
      BY <1>0, <1>1, <1>2, <2>1, <2>3, <3>1
  <2> QED
    BY <2>4, <2>5
<1>6. ASSUME NEW p \in Procs, ReportEnqueue(p) PROVE Kept
  <2>1. \A q \in Procs : /\ rhand'[q].win = rhand[q].win
                         /\ rhand'[q].at = IF q = p THEN "record" ELSE rhand[q].at
    BY <1>0, <1>6 DEF ReportEnqueue, RHand
  <2>2. E = D /\ T = S
    BY <1>6, <2>1 DEF Sending, Doing, ReportEnqueue
  <2>3. UNCHANGED <<stamped, cards>>
    BY <1>6 DEF ReportEnqueue
  <2> HIDE DEF S, D, N, T, E
  <2> QED
    BY <1>0, <1>1, <1>2, <2>2, <2>3
\* A loop lays a window down: it has recorded it, or something failed.
<1>7. ASSUME NEW p \in Procs, rhand' = [rhand EXCEPT ![p] = NoReport], cards' = cards,
             stamped \subseteq stamped',
             rhand[p].at # "idle" /\ rhand[p].win = w =>
               \/ faults' = faults + 1
               \/ w \in stamped'
      PROVE  Kept
  <2>1. /\ E \subseteq D /\ T \subseteq S /\ D \subseteq E \cup {p}
        /\ \/ rhand[p].at # "idle" /\ rhand[p].win = w
           \/ E = D
    BY <1>0, <1>7 DEF Sending, Doing, NoReport
  <2>2. cards'[w] = cards[w] /\ (w \in stamped => w \in stamped')
    BY <1>7
  <2> HIDE DEF S, D, N, T, E
  <2>3. Cardinality(T) <= Cardinality(S)
    BY <1>1, <2>1, OneProc
  <2>4. Cardinality(D) <= Cardinality(E) + 1
    BY <1>1, <2>1, OneProc
  <2> QED
    BY <1>0, <1>1, <1>2, <1>7, <2>1, <2>2, <2>3, <2>4
<1>8. ASSUME NEW p \in Procs, ReportRecord(p) PROVE Kept
  <2>1. /\ rhand' = [rhand EXCEPT ![p] = NoReport] /\ cards' = cards
        /\ \/ stamped' = stamped \cup {rhand[p].win}
           \/ faults' = faults + 1 /\ stamped' = stamped
    BY <1>8 DEF ReportRecord, Fail
  <2> HIDE DEF Kept
  <2> QED
    BY <1>7, <2>1
<1>9. ASSUME NEW p \in Procs, Crash(p) PROVE Kept
  <2>1. rhand' = [rhand EXCEPT ![p] = NoReport] /\ UNCHANGED <<cards, stamped>> /\ faults' = faults + 1
    BY <1>9 DEF Crash, Fail
  <2> HIDE DEF Kept
  <2> QED
    BY <1>7, <2>1
<1>10. ASSUME NEW p \in Procs, NEW s \in Setups, BcastSend(p, s)
       PROVE  UNCHANGED <<rhand, stamped>> /\ cards'[w] = cards[w]
  <2>1. s # w
    BY NamesAssumption
  <2>2. cards' = cards \/ cards' = [cards EXCEPT ![s] = @ + 1]
    BY <1>10 DEF BcastSend
  <2> QED
    BY <1>0, <1>10, <2>1, <2>2 DEF BcastSend
<1>11. ASSUME \/ EmitTweet \/ EmitCrash \/ NewDay \/ UNCHANGED vars
              \/ (\E e \in Events : EmitTelegram(e)) \/ \E s \in Setups : Announce(s)
       PROVE  UNCHANGED <<rhand, stamped, cards>>
  BY <1>11 DEF EmitTweet, EmitCrash, NewDay, EmitTelegram, Announce, hands, vars
<1>12. ASSUME NEW p \in Procs, NoteStep(p) \/ XStep(p) \/ BcastClaim(p) \/ BcastEnqueue(p) \/ BcastMark(p)
       PROVE  UNCHANGED <<rhand, stamped, cards>>
  BY <1>12 DEF NoteStep, NoteClaim, NoteSend, NoteMark, XStep, XCount, XClaim, XSend, XMark,
     BcastClaim, BcastEnqueue, BcastMark
<1>13. Kept
  <2> HIDE DEF Kept
  <2> QED
    BY <1>3, <1>4, <1>5, <1>6, <1>8, <1>9, <1>10, <1>11, <1>12 DEF Next, BcastStep, ReportStep
<1> QED
  BY <1>0, <1>13

\* report_scheduler: a window gets one card per loop that checked before it was stamped,
\* and one more per failure.
THEOREM WindowsReportedOnce == Spec => []ReportedOnce
<1>1. Init => RepInv
  <2> SUFFICES ASSUME Init, NEW w \in 1 .. Days
               PROVE  /\ Doing(w) \subseteq Running("report")
                      /\ cards[w] + Cardinality(Sending(w)) <= Cardinality(Doing(w)) + faults
                      /\ cards[w] + Cardinality(Sending(w))
                           <= Cardinality(Running("report")) + faults
    BY DEF RepInv
  <2>1. Sending(w) = {} /\ Doing(w) = {} /\ Running("report") \in SUBSET Procs
    BY DEF Init, Sending, Doing, NoReport, Running
  <2>2. Cardinality(Sending(w)) = 0 /\ Cardinality(Doing(w)) = 0
    BY <2>1, FS_EmptySet
  <2>3. Cardinality(Running("report")) \in Nat
    BY <2>1, ProcsFinite
  <2> QED
    BY <2>1, <2>2, <2>3 DEF Init
<1>2. Typed /\ RepInv => ReportedOnce
  <2> SUFFICES ASSUME Typed, RepInv, NEW w \in 1 .. Days
               PROVE  cards[w] <= Cardinality(Running("report")) + faults
    BY DEF ReportedOnce
  <2>1. Sending(w) \in SUBSET Procs /\ Running("report") \in SUBSET Procs
    BY DEF Sending, Running
  <2>2. Cardinality(Sending(w)) \in Nat /\ Cardinality(Running("report")) \in Nat
    BY <2>1, ProcsFinite
  <2>3. cards[w] \in Nat /\ faults \in Nat
    BY DEF Typed, BcastTyped, Counted
  <2> QED
    BY <2>2, <2>3 DEF RepInv
<1> QED
  BY <1>1, <1>2, RepNext, HeldAlways, PTL DEF Spec

\* Whatever crashes, however many processes run a loop and whatever answer is lost,
\* people get a message once, or once more per failure the loop leaves open.
THEOREM DeliveredOnceHolds == Spec => []DeliveredOnce
<1>1. ToldOnce /\ PostedPerAnswer /\ AnnouncedOnce /\ ReportedOnce => DeliveredOnce
  BY DEF DeliveredOnce
<1> QED
  BY <1>1, DeliveriesBounded, SetupsAnnouncedOnce, WindowsReportedOnce, PTL

---------------------------------------------------------------------------
(* The daily cap of X.                                                     *)

\* What a publisher may still post without counting again, and what it has posted and
\* not recorded.
Pot == [p \in Procs |-> xhand[p].room + Cardinality(xhand[p].work)]
Post == [p \in Procs |-> IF xhand[p].res = "ok" THEN 1 ELSE 0]

\* What the publishers may take the day to.
Ceiling == DailyCap + (Cardinality(Running("x")) - 1 + faults) * XRoom(0)

CapInv ==
  /\ \A p \in Procs :
       /\ Pot[p] + Post[p] <= XRoom(0)
       /\ p \notin Running("x") => xhand[p] = NoX
       /\ xhand[p].row = None => xhand[p].res = "none"
       /\ xhand[p].room > 0 => xhand[p].row = None
  /\ \A i \in sentToday : x[i] = "sent"
  /\ tweetsToday <= Cardinality(sentToday) + SumFunctionOnSet(Post, Procs) + faults
  /\ tweetsToday + SumFunctionOnSet(Pot, Procs) <= Ceiling

\* What one tick may claim: something, no more than the cap, and with what was sent
\* no more than the cap either.
LEMMA RoomBounds ==
  /\ XRoom(0) \in Nat /\ XRoom(0) >= 1 /\ XRoom(0) <= DailyCap /\ DailyCap \in Nat
  /\ \A n \in Nat : /\ XRoom(n) \in Nat /\ XRoom(n) <= XRoom(0)
                    /\ XRoom(n) > 0 => n + XRoom(n) <= DailyCap
BY CapsAssumption DEF XRoom

LEMMA XIdsFinite == \A S \in SUBSET XIds : IsFiniteSet(S) /\ Cardinality(S) \in Nat
<1>1. IsFiniteSet(XIds)
  BY RowsAssumption, FS_Interval DEF XIds
<1> QED
  BY <1>1, FS_Subset, FS_CardinalityType

\* LIMIT n: the rows with fewer than n older ones are n at most.
LEMMA LimitHolds ==
  ASSUME NEW n \in Nat
  PROVE  XOldest(n) \in SUBSET XIds /\ Cardinality(XOldest(n)) <= n
<1> DEFINE S == XOldest(n)
<1>1. S \in SUBSET XIds /\ XPending \in SUBSET XIds /\ MaxX \in Nat /\ XIds \subseteq 1 .. MaxX
  BY RowsAssumption DEF XOldest, XPending, XIds
<1>2. CASE S = {}
  BY <1>1, <1>2, FS_EmptySet
<1>3. CASE S # {}
  <2> DEFINE Far == {MaxX - i : i \in S}
  <2>1. Far \in SUBSET Nat /\ Far # {}
    <3>1. \A i \in S : MaxX - i \in Nat
      <4> HIDE DEF S
      <4> SUFFICES ASSUME NEW i \in S PROVE MaxX - i \in Nat
        OBVIOUS
      <4>1. i \in 1 .. MaxX
        BY <1>1
      <4> QED
        BY <1>1, <4>1
    <3>2. PICK i \in S : TRUE
      BY <1>3
    <3> QED
      BY <3>1, <3>2
  <2>2. PICK d \in Far : \A e \in Far : d <= e
    <3> HIDE DEF Far
    <3> QED
      BY <2>1, LeastFound
  <2>3. PICK m \in S : d = MaxX - m
    OBVIOUS
  <2>4. \A i \in S : i <= m
    <3> SUFFICES ASSUME NEW i \in S PROVE i <= m
      OBVIOUS
    <3>1. MaxX - i \in Far
      OBVIOUS
    <3>2. i \in Int /\ m \in Int /\ MaxX \in Int /\ MaxX - m <= MaxX - i
      <4> HIDE DEF Far, S
      <4> QED
        BY <1>1, <2>2, <2>3, <3>1
    <3> QED
      BY <3>2
  <2> DEFINE Older == {j \in XPending : j < m}
  <2>5. S \ {m} \subseteq Older
    <3> SUFFICES ASSUME NEW i \in S, i # m PROVE i \in XPending /\ i < m
      OBVIOUS
    <3>1. i \in XPending /\ i <= m /\ i \in Int /\ m \in Int
      BY <1>1, <2>4 DEF XOldest
    <3> QED
      BY <3>1
  <2>6. Cardinality(Older) < n
    BY DEF XOldest
  <2>7. Older \in SUBSET XIds
    BY <1>1
  <2> HIDE DEF S, Older
  <2>8. IsFiniteSet(S) /\ IsFiniteSet(Older) /\ Cardinality(S) \in Nat /\ Cardinality(Older) \in Nat
    BY <1>1, <2>7, XIdsFinite
  <2>9. IsFiniteSet(S \ {m}) /\ Cardinality(S \ {m}) = Cardinality(S) - 1
    BY <2>3, <2>8, FS_RemoveElement
  <2>10. Cardinality(S \ {m}) <= Cardinality(Older)
    BY <2>5, <2>8, FS_Subset
  <2>11. Cardinality(S) <= n
    BY <2>6, <2>8, <2>9, <2>10
  <2> QED
    BY <1>1, <2>11 DEF S
<1> QED
  BY <1>2, <1>3

\* Of what numbers the sums are.
LEMMA PotTyped ==
  ASSUME xhand \in [Procs -> XHand]
  PROVE  /\ \A p \in Procs : /\ Pot[p] = xhand[p].room + Cardinality(xhand[p].work)
                             /\ Post[p] = IF xhand[p].res = "ok" THEN 1 ELSE 0
                             /\ Pot[p] \in Nat /\ Post[p] \in {0, 1}
                             /\ Pot[p] \in Int /\ Post[p] \in Int
                             /\ Cardinality(xhand[p].work) \in Nat /\ IsFiniteSet(xhand[p].work)
         /\ SumFunctionOnSet(Pot, Procs) \in Int /\ SumFunctionOnSet(Post, Procs) \in Int
<1>1. \A p \in Procs : /\ xhand[p].room \in Nat /\ Cardinality(xhand[p].work) \in Nat
                       /\ IsFiniteSet(xhand[p].work)
  BY XIdsFinite DEF XHand
<1>2. \A p \in Procs : /\ Pot[p] = xhand[p].room + Cardinality(xhand[p].work)
                       /\ Post[p] = IF xhand[p].res = "ok" THEN 1 ELSE 0
  BY DEF Pot, Post
<1>3. \A p \in Procs : /\ Pot[p] \in Nat /\ Post[p] \in {0, 1}
                       /\ Pot[p] \in Int /\ Post[p] \in Int
  BY <1>1, <1>2
<1>4. SumFunctionOnSet(Pot, Procs) \in Int /\ SumFunctionOnSet(Post, Procs) \in Int
  BY <1>3, RowsAssumption, SumTyped
<1> QED
  BY <1>1, <1>2, <1>3, <1>4

\* The sums are not negative, and what a set of publishers has in hand is bounded by
\* what each may claim.
LEMMA HandsBounded ==
  ASSUME xhand \in [Procs -> XHand], \A q \in Procs : Pot[q] + Post[q] <= XRoom(0),
         NEW S \in SUBSET Procs, \A q \in Procs \ S : xhand[q] = NoX
  PROVE  /\ SumFunctionOnSet(Pot, Procs) + SumFunctionOnSet(Post, Procs)
              <= Cardinality(S) * XRoom(0)
         /\ SumFunctionOnSet(Post, Procs) >= 0 /\ SumFunctionOnSet(Pot, Procs) >= 0
<1> DEFINE Load == [p \in Procs |-> Pot[p] + Post[p]]
           Zero == [p \in Procs |-> 0]
<1>1. IsFiniteSet(Procs) /\ IsFiniteSet(S)
  BY RowsAssumption, FS_Subset
<1>2. \A p \in Procs : /\ Pot[p] \in Int /\ Post[p] \in Int /\ Load[p] = Pot[p] + Post[p]
                       /\ Load[p] \in Int /\ Load[p] <= XRoom(0)
                       /\ Zero[p] = 0 /\ 0 <= Post[p] /\ 0 <= Pot[p]
  BY PotTyped
<1>3. \A q \in Procs \ S : Load[q] = 0
  <2> SUFFICES ASSUME NEW q \in Procs \ S PROVE Load[q] = 0
    OBVIOUS
  <2>1. xhand[q].room = 0 /\ xhand[q].work = {} /\ xhand[q].res = "none"
    BY DEF NoX
  <2>2. Pot[q] = xhand[q].room + Cardinality(xhand[q].work) /\ Post[q] = 0
    BY <2>1, PotTyped
  <2>3. Cardinality({}) = 0
    BY FS_EmptySet
  <2> QED
    BY <1>2, <2>1, <2>2, <2>3
<1> HIDE DEF Load, Zero
<1>4. SumFunctionOnSet(Load, Procs) = SumFunctionOnSet(Pot, Procs) + SumFunctionOnSet(Post, Procs)
  BY <1>1, <1>2, SumPlus
<1>5. SumFunctionOnSet(Load, Procs) = SumFunctionOnSet(Load, S)
  BY <1>1, <1>2, <1>3, SumSkips
<1>6. SumFunctionOnSet(Load, S) <= Cardinality(S) * XRoom(0)
  <2>1. XRoom(0) \in Int /\ \A p \in S : Load[p] \in Int /\ Load[p] <= XRoom(0)
    BY <1>2, RoomBounds
  <2> QED
    BY <1>1, <2>1, SumBounded
<1>7. SumFunctionOnSet(Zero, Procs) = 0
  <2>1. \A p \in Procs \ {} : Zero[p] = 0
    BY <1>2
  <2>2. {} \in SUBSET Procs /\ \A p \in Procs : Zero[p] \in Int
    BY <1>2
  <2>3. SumFunctionOnSet(Zero, Procs) = SumFunctionOnSet(Zero, {})
    BY <1>1, <2>1, <2>2, SumSkips
  <2> QED
    BY <2>3, SumEmpty
<1>8. SumFunctionOnSet(Zero, Procs) <= SumFunctionOnSet(Post, Procs)
      /\ SumFunctionOnSet(Zero, Procs) <= SumFunctionOnSet(Pot, Procs)
  <2>1. \A p \in Procs : /\ Zero[p] \in Int /\ Post[p] \in Int /\ Pot[p] \in Int
                         /\ Zero[p] <= Post[p] /\ Zero[p] <= Pot[p]
    BY <1>2
  <2>2. SumFunctionOnSet(Zero, Procs) <= SumFunctionOnSet(Post, Procs)
    BY <1>1, <2>1, SumMonotone
  <2>3. SumFunctionOnSet(Zero, Procs) <= SumFunctionOnSet(Pot, Procs)
    BY <1>1, <2>1, SumMonotone
  <2> QED
    BY <2>2, <2>3
<1> QED
  BY <1>4, <1>5, <1>6, <1>7, <1>8, PotTyped

\* One publisher moves: the sums move by what it does.
LEMMA HandMoves ==
  ASSUME xhand \in [Procs -> XHand], xhand' \in [Procs -> XHand], NEW p \in Procs,
         \A q \in Procs : q # p => xhand'[q] = xhand[q]
  PROVE  /\ SumFunctionOnSet(Pot', Procs) = SumFunctionOnSet(Pot, Procs) + Pot'[p] - Pot[p]
         /\ SumFunctionOnSet(Post', Procs) = SumFunctionOnSet(Post, Procs) + Post'[p] - Post[p]
         /\ Pot'[p] = xhand'[p].room + Cardinality(xhand'[p].work) /\ Pot'[p] \in Nat
         /\ Post'[p] = (IF xhand'[p].res = "ok" THEN 1 ELSE 0) /\ Post'[p] \in {0, 1}
         /\ \A q \in Procs : q # p => Pot'[q] = Pot[q] /\ Post'[q] = Post[q]
<1>1. \A q \in Procs : /\ Pot[q] \in Int /\ Post[q] \in Int
  BY PotTyped
<1>2. /\ Pot'[p] = xhand'[p].room + Cardinality(xhand'[p].work) /\ Pot'[p] \in Nat
      /\ Post'[p] = (IF xhand'[p].res = "ok" THEN 1 ELSE 0) /\ Post'[p] \in {0, 1}
  <2>1. xhand'[p].room \in Nat /\ Cardinality(xhand'[p].work) \in Nat
    BY XIdsFinite DEF XHand
  <2> QED
    BY <2>1 DEF Pot, Post
<1>3. \A q \in Procs : q # p => Pot'[q] = Pot[q] /\ Post'[q] = Post[q]
  BY DEF Pot, Post
<1>4. \A q \in Procs \ {p} : Pot'[q] = Pot[q] /\ Post'[q] = Post[q]
  BY <1>3
<1>5. Pot'[p] \in Int /\ Post'[p] \in Int
  BY <1>2
<1>6. SumFunctionOnSet(Pot', Procs) = SumFunctionOnSet(Pot, Procs) + Pot'[p] - Pot[p]
  BY <1>1, <1>4, <1>5, RowsAssumption, SumMoves
<1>7. SumFunctionOnSet(Post', Procs) = SumFunctionOnSet(Post, Procs) + Post'[p] - Post[p]
  BY <1>1, <1>4, <1>5, RowsAssumption, SumMoves
<1> QED
  BY <1>2, <1>3, <1>6, <1>7

\* A failure raises the ceiling by what a tick may claim; nothing lowers it.
LEMMA CeilingRises ==
  ASSUME Typed, [Next]_vars
  PROVE  /\ Ceiling \in Int /\ Ceiling' \in Int /\ Ceiling <= Ceiling'
         /\ faults' = faults + 1 => Ceiling' = Ceiling + XRoom(0)
         /\ faults \in Nat /\ faults' \in Nat /\ faults <= faults'
         /\ Running("x")' = Running("x")
<1> DEFINE k == Cardinality(Running("x")) - 1 + faults
           l == Cardinality(Running("x")) - 1 + faults'
           R == XRoom(0)
<1>1. on' = on /\ faults \in Nat /\ faults' \in {faults, faults + 1}
  BY FaultsGrow
<1>2. Running("x")' = Running("x") /\ Cardinality(Running("x")) \in Nat
  BY <1>1, ProcsFinite DEF Running
<1>3. Ceiling = DailyCap + k * R /\ Ceiling' = DailyCap + l * R
  BY <1>2 DEF Ceiling
<1>4. /\ k \in Int /\ l \in Int /\ R \in Nat /\ DailyCap \in Nat /\ l \in {k, k + 1}
      /\ faults' = faults + 1 => l = k + 1
  BY <1>1, <1>2, RoomBounds
<1> HIDE DEF k, l, R
<1>5. k * R \in Int /\ (k + 1) * R = k * R + R
  BY <1>4, Times
<1>6. /\ Ceiling \in Int /\ Ceiling' \in Int /\ Ceiling <= Ceiling'
      /\ faults' = faults + 1 => Ceiling' = Ceiling + R
  BY <1>3, <1>4, <1>5
<1> QED
  BY <1>1, <1>2, <1>6 DEF R

\* Rows that were sent stay sent.
LEMMA SentStays ==
  ASSUME Typed, Held, [Next]_vars, \A i \in sentToday : x[i] = "sent"
  PROVE  \A i \in sentToday' : x'[i] = "sent"
<1>1. ASSUME NEW i \in sentToday PROVE x'[i] = "sent"
  <2>1. i \in XIds /\ x[i] = "sent"
    BY DEF Typed, XTyped
  <2> QED
    BY <2>1, XStatements
<1>2. ASSUME NEW p \in Procs, XMark(p) PROVE \A i \in sentToday' : x'[i] = "sent"
  <2>1. xhand[p].row \in XIds
    BY <1>2 DEF Typed, XTyped, XHand, XMark
  <2>2. \A i \in sentToday' : i \in sentToday \/ (i = xhand[p].row /\ xhand[p].res = "ok"
                                                   /\ x'[i] = XVerdict(i, xhand[p].res))
    BY <1>2, <2>1 DEF XMark, Typed, XTyped
  <2> QED
    BY <1>1, <2>2 DEF XVerdict
<1>3. sentToday' \subseteq sentToday \/ \E p \in Procs : XMark(p)
  BY ZenonT(60) DEF Next, NoteStep, XStep, BcastStep, ReportStep, EmitTelegram, EmitTweet, EmitCrash, Announce,
     NoteClaim, NoteSend, NoteMark, XCount, XClaim, XSend, BcastClaim, BcastSend,
     BcastEnqueue, BcastMark, ReportCheck, ReportSend, ReportEnqueue, ReportRecord, Crash, NewDay,
     dayVars, vars
<1> QED
  BY <1>1, <1>2, <1>3

\* A bound is still one when its last term grows.
LEMMA Slack ==
  ASSUME NEW k \in Int, NEW l \in Nat, NEW r \in Nat, NEW h \in Nat, NEW g \in Nat,
         l <= r + k + h, h <= g
  PROVE  l <= r + k + g
OBVIOUS

LEMMA CapNext == Typed /\ Held /\ CapInv /\ [Next]_vars => CapInv'
<1>a. Typed /\ [Next]_vars => Typed'
  BY TypedNext
<1> SUFFICES ASSUME Typed, Held, CapInv, [Next]_vars PROVE CapInv'
  OBVIOUS
<1> DEFINE R == XRoom(0)
           t == tweetsToday
           n == Cardinality(sentToday)
           a == SumFunctionOnSet(Post, Procs)
           b == SumFunctionOnSet(Pot, Procs)
           tt == tweetsToday'
           nn == Cardinality(sentToday')
           aa == SumFunctionOnSet(Post', Procs)
           bb == SumFunctionOnSet(Pot', Procs)
           Good == /\ \A p \in Procs :
                        /\ Pot'[p] + Post'[p] <= R
                        /\ p \notin Running("x")' => xhand'[p] = NoX
                        /\ xhand'[p].row = None => xhand'[p].res = "none"
                        /\ xhand'[p].room > 0 => xhand'[p].row = None
                   /\ tt <= nn + aa + faults'
                   /\ tt + bb <= Ceiling'
<1>1. /\ xhand \in [Procs -> XHand] /\ xhand' \in [Procs -> XHand]
      /\ t \in Nat /\ tt \in Nat /\ sentToday \in SUBSET XIds /\ sentToday' \in SUBSET XIds
      /\ n \in Nat /\ nn \in Nat /\ R \in Nat /\ R >= 1
  <2>1. Typed'
    BY <1>a
  <2>2. /\ xhand \in [Procs -> XHand] /\ xhand' \in [Procs -> XHand]
        /\ t \in Nat /\ tt \in Nat /\ sentToday \in SUBSET XIds /\ sentToday' \in SUBSET XIds
    BY <2>1 DEF Typed, XTyped
  <2> QED
    BY <2>2, XIdsFinite, RoomBounds
<1>2. /\ a \in Int /\ b \in Int
      /\ t <= n + a + faults /\ t + b <= Ceiling
      /\ \A p \in Procs :
           /\ Pot[p] + Post[p] <= R /\ Pot[p] \in Nat /\ Post[p] \in {0, 1}
           /\ p \notin Running("x") => xhand[p] = NoX
           /\ xhand[p].row = None => xhand[p].res = "none"
           /\ xhand[p].room > 0 => xhand[p].row = None
  BY <1>1, PotTyped DEF CapInv
<1>3. /\ Ceiling \in Int /\ Ceiling' \in Int /\ Ceiling <= Ceiling'
      /\ faults' = faults + 1 => Ceiling' = Ceiling + R
      /\ faults \in Nat /\ faults' \in Nat /\ faults <= faults'
      /\ Running("x")' = Running("x")
  BY CeilingRises
\* Nothing of the publishers' moves.
<1>4. ASSUME UNCHANGED <<xhand, sentToday, tweetsToday>> PROVE Good
  <2>1. Pot' = Pot /\ Post' = Post /\ aa = a /\ bb = b /\ nn = n /\ tt = t
    BY <1>4 DEF Pot, Post
  <2> HIDE DEF n, nn, a, aa, b, bb, t, tt, R
  <2> QED
    BY <1>1, <1>2, <1>3, <1>4, <2>1
\* One publisher moves, and the others are as they were.
<1>5. ASSUME NEW p \in Procs, \A q \in Procs : q # p => xhand'[q] = xhand[q]
      PROVE  /\ bb = b + Pot'[p] - Pot[p] /\ aa = a + Post'[p] - Post[p]
             /\ Pot'[p] = xhand'[p].room + Cardinality(xhand'[p].work) /\ Pot'[p] \in Nat
             /\ Post'[p] = (IF xhand'[p].res = "ok" THEN 1 ELSE 0) /\ Post'[p] \in {0, 1}
             /\ \A q \in Procs : q # p => Pot'[q] = Pot[q] /\ Post'[q] = Post[q]
             /\ Pot[p] = xhand[p].room + Cardinality(xhand[p].work)
             /\ Post[p] = (IF xhand[p].res = "ok" THEN 1 ELSE 0)
  BY <1>1, <1>5, HandMoves, PotTyped
<1>6. ASSUME NEW p \in Procs, \A q \in Procs : q # p => xhand'[q] = xhand[q],
             p \in Running("x"), Pot'[p] + Post'[p] <= R,
             xhand'[p].row = None => xhand'[p].res = "none",
             xhand'[p].room > 0 => xhand'[p].row = None,
             tt <= nn + aa + faults', tt + bb <= Ceiling'
      PROVE  Good
  <2>1. \A q \in Procs : q # p => Pot'[q] = Pot[q] /\ Post'[q] = Post[q]
    BY <1>5, <1>6
  <2>2. \A q \in Procs :
          /\ Pot'[q] + Post'[q] <= R
          /\ q \notin Running("x")' => xhand'[q] = NoX
          /\ xhand'[q].row = None => xhand'[q].res = "none"
          /\ xhand'[q].room > 0 => xhand'[q].row = None
    BY <1>2, <1>3, <1>6, <2>1
  <2> QED
    BY <1>6, <2>2
<1>7. ASSUME NEW p \in Procs, xhand[p] # NoX PROVE p \in Running("x")
  BY <1>2, <1>7
<1>8. ASSUME NEW p \in Procs, XCount(p) PROVE Good
  <2>1. /\ p \in Running("x") /\ xhand[p] = NoX
        /\ UNCHANGED <<sentToday, tweetsToday>>
        /\ \/ XRoom(n) > 0 /\ xhand' = [xhand EXCEPT ![p].room = XRoom(n)] /\ faults' = faults
           \/ xhand' = [xhand EXCEPT ![p].room = R] /\ faults' = faults + 1
    BY <1>8 DEF XCount, Running, Fail, dayVars
  <2>2. PICK m \in Nat :
          /\ xhand' = [xhand EXCEPT ![p].room = m] /\ m <= R
          /\ \/ m > 0 /\ n + m <= DailyCap /\ faults' = faults
             \/ m = R /\ faults' = faults + 1
    BY <1>1, <2>1, RoomBounds
  <2>3. /\ \A q \in Procs : q # p => xhand'[q] = xhand[q]
        /\ xhand'[p].room = m /\ xhand'[p].work = {} /\ xhand'[p].row = None /\ xhand'[p].res = "none"
    BY <1>1, <2>1, <2>2 DEF XHand, NoX
  <2>4. Cardinality({}) = 0
    BY FS_EmptySet
  <2>5. /\ Pot'[p] = m /\ Post'[p] = 0 /\ Pot[p] = 0 /\ Post[p] = 0
        /\ bb = b + m /\ aa = a
    <3>1. xhand[p].room = 0 /\ xhand[p].work = {} /\ xhand[p].res = "none"
      BY <2>1 DEF NoX
    <3>2. Pot'[p] = m /\ Post'[p] = 0 /\ Pot[p] = 0 /\ Post[p] = 0
      <4>1. Pot'[p] = m + Cardinality({}) /\ Pot[p] = 0 + Cardinality({})
        BY <1>5, <2>3, <3>1, Zenon
      <4>2. Post'[p] = 0 /\ Post[p] = 0
        BY <1>5, <2>3, <3>1
      <4> QED
        BY <2>4, <4>1, <4>2
    <3>3. bb = b + Pot'[p] - Pot[p] /\ aa = a + Post'[p] - Post[p]
      BY <1>5, <2>3
    <3> HIDE DEF a, aa, b, bb
    <3> QED
      BY <1>2, <3>2, <3>3
  <2>6. tt = t /\ nn = n
    BY <2>1
  <2>7. tt + bb <= Ceiling'
    <3>1. CASE m = R /\ faults' = faults + 1
      <4> HIDE DEF n, nn, a, aa, b, bb, t, tt, R
      <4> QED
        BY <1>1, <1>2, <1>3, <2>5, <2>6, <3>1
    <3>2. CASE m > 0 /\ n + m <= DailyCap /\ faults' = faults
      <4> DEFINE N == Cardinality(Running("x"))
      <4>1. N \in Nat /\ IsFiniteSet(Running("x")) /\ Running("x") \in SUBSET Procs
        BY ProcsFinite DEF Running
      <4>2. Cardinality(Running("x") \ {p}) = N - 1
        BY <2>1, <4>1, FS_RemoveElement
      <4>3. \A q \in Procs \ (Running("x") \ {p}) : xhand[q] = NoX
        BY <1>2, <2>1
      <4>4. b + a <= Cardinality(Running("x") \ {p}) * R
        <5>1. Running("x") \ {p} \in SUBSET Procs /\ \A q \in Procs : Pot[q] + Post[q] <= XRoom(0)
          BY <1>2, <4>1
        <5> QED
          BY <1>1, <4>3, <5>1, HandsBounded
      <4>5. b + a <= (N - 1) * R
        BY <4>2, <4>4
      <4>6. Ceiling' = DailyCap + (N - 1 + faults) * R
        BY <1>3, <3>2 DEF Ceiling
      <4>7. (N - 1 + faults) * R = (N - 1) * R + faults * R
            /\ (N - 1) * R \in Int /\ faults * R \in Nat /\ faults <= faults * R
        <5> HIDE DEF N, R
        <5>1. faults * 1 <= faults * R
          <6>1. 1 * faults <= R * faults
            BY <1>1, <1>3, Times
          <6> QED
            BY <1>1, <1>3, <6>1
        <5> QED
          BY <1>1, <1>3, <4>1, <5>1
      <4> HIDE DEF n, nn, a, aa, b, bb, t, tt, R, N
      <4> QED
        BY <1>1, <1>2, <1>3, <2>2, <2>5, <2>6, <3>2, <4>5, <4>6, <4>7, RoomBounds
    <3> QED
      BY <2>2, <3>1, <3>2
  <2>8. tt <= nn + aa + faults'
    <3>1. t <= n + a + faults /\ aa = a /\ tt = t /\ nn = n /\ faults <= faults'
      BY <1>2, <1>3, <2>5, <2>6
    <3>2. t \in Nat /\ n \in Nat /\ a \in Int /\ faults \in Nat /\ faults' \in Nat
      BY <1>1, <1>2, <1>3
    <3> HIDE DEF n, nn, a, aa, b, bb, t, tt, R
    <3>3. t <= n + a + faults'
      BY <3>1, <3>2, Slack, Zenon
    <3> QED
      BY <3>1, <3>3, Zenon
  <2>9. Pot'[p] + Post'[p] <= R
    BY <2>2, <2>5
  <2> HIDE DEF Good
  <2> QED
    BY <1>6, <2>1, <2>3, <2>7, <2>8, <2>9
<1>9. ASSUME NEW p \in Procs, XClaim(p) PROVE Good
  <2> DEFINE rows == XOldest(xhand[p].room)
  <2>1. /\ xhand[p].room > 0 /\ xhand' = [xhand EXCEPT ![p] = [NoX EXCEPT !.work = rows]]
        /\ UNCHANGED <<sentToday, tweetsToday>>
    BY <1>9 DEF XClaim, dayVars
  <2>2. rows \in SUBSET XIds /\ Cardinality(rows) <= xhand[p].room /\ Cardinality(rows) \in Nat
        /\ xhand[p].room \in Nat /\ xhand[p].work \in SUBSET XIds
    <3>1. xhand[p].room \in Nat /\ xhand[p].work \in SUBSET XIds
      BY <1>1 DEF XHand
    <3> QED
      BY <3>1, LimitHolds, XIdsFinite
  <2>3. xhand[p].row = None /\ xhand[p].res = "none" /\ xhand[p] # NoX
    BY <1>2, <2>1 DEF NoX
  <2> HIDE DEF rows
  <2>4. /\ \A q \in Procs : q # p => xhand'[q] = xhand[q]
        /\ xhand'[p].room = 0 /\ xhand'[p].work = rows /\ xhand'[p].row = None /\ xhand'[p].res = "none"
    BY <1>1, <2>1 DEF NoX
  <2>5. /\ Pot'[p] <= Pot[p] /\ Post'[p] = 0 /\ Post[p] = 0 /\ Pot'[p] \in Nat /\ Pot[p] \in Nat
        /\ bb = b + Pot'[p] - Pot[p] /\ aa = a
    <3>1. bb = b + Pot'[p] - Pot[p] /\ aa = a + Post'[p] - Post[p]
      BY <1>5, <2>4
    <3>2. Pot'[p] = Cardinality(rows) /\ Pot[p] = xhand[p].room + Cardinality(xhand[p].work)
          /\ Post'[p] = 0 /\ Post[p] = 0 /\ Cardinality(xhand[p].work) \in Nat
      BY <1>5, <2>2, <2>3, <2>4, XIdsFinite
    <3> HIDE DEF a, aa, b, bb
    <3> QED
      BY <1>2, <2>2, <3>1, <3>2
  <2>6. tt = t /\ nn = n
    BY <2>1
  <2>7. tt + bb <= Ceiling' /\ tt <= nn + aa + faults' /\ Pot'[p] + Post'[p] <= R
    <3>1. Pot[p] + Post[p] <= R
      BY <1>2
    <3>2. /\ t + b <= Ceiling /\ Ceiling <= Ceiling' /\ t <= n + a + faults
          /\ faults <= faults' /\ tt = t /\ nn = n /\ aa = a /\ bb = b + Pot'[p] - Pot[p]
      BY <1>2, <1>3, <2>5, <2>6
    <3>3. /\ t \in Nat /\ n \in Nat /\ a \in Int /\ b \in Int /\ faults \in Nat /\ faults' \in Nat
          /\ Ceiling \in Int /\ Ceiling' \in Int /\ R \in Nat
      BY <1>1, <1>2, <1>3
    <3>4. Pot'[p] <= Pot[p] /\ Pot'[p] \in Nat /\ Pot[p] \in Nat /\ Post'[p] = 0 /\ Post[p] = 0
      BY <2>5
    <3> HIDE DEF n, nn, a, aa, b, bb, t, tt, R
    <3>5. tt + bb <= Ceiling'
      BY <3>2, <3>3, <3>4
    <3>6. tt <= nn + aa + faults'
      <4>1. t <= n + a + faults'
        BY <3>2, <3>3, Slack, Zenon
      <4> QED
        BY <3>2, <4>1, Zenon
    <3> QED
      BY <3>1, <3>3, <3>4, <3>5, <3>6
  <2> HIDE DEF Good
  <2> QED
    BY <1>6, <1>7, <2>3, <2>4, <2>7
<1>10. ASSUME NEW p \in Procs, NEW i \in XIds, XSend(p, i) PROVE Good
  <2>1. PICK r \in {"ok", "err"} :
          /\ xhand' = [xhand EXCEPT ![p] = [room |-> 0, work |-> @.work \ {i}, row |-> i, res |-> r]]
          /\ \/ r = "ok" /\ tt = t + 1 /\ faults' = faults
             \/ r = "err" /\ tt = t
             \/ r = "err" /\ tt = t + 1 /\ faults' = faults + 1
    BY <1>10 DEF XSend, Answered, AnswerLost, Fail
  <2>2. /\ xhand[p].row = None /\ i \in xhand[p].work /\ xhand[p].res = "none" /\ xhand[p] # NoX
        /\ sentToday' = sentToday
    BY <1>2, <1>10 DEF XSend, NoX
  <2>3. /\ \A q \in Procs : q # p => xhand'[q] = xhand[q]
        /\ xhand'[p].room = 0 /\ xhand'[p].work = xhand[p].work \ {i} /\ xhand'[p].row = i
        /\ xhand'[p].res = r /\ i # None
    BY <1>1, <2>1, NoneAssumption
  <2>4. Cardinality(xhand[p].work \ {i}) = Cardinality(xhand[p].work) - 1
        /\ xhand[p].room \in Nat /\ Cardinality(xhand[p].work) \in Nat
    <3>1. IsFiniteSet(xhand[p].work) /\ Cardinality(xhand[p].work) \in Nat /\ xhand[p].room \in Nat
      BY <1>1, PotTyped DEF XHand
    <3> QED
      BY <2>2, <3>1, FS_RemoveElement
  <2>5. /\ Pot'[p] + 1 <= Pot[p] /\ Post[p] = 0 /\ Pot'[p] \in Nat /\ Pot[p] \in Nat
        /\ Post'[p] = (IF r = "ok" THEN 1 ELSE 0)
        /\ bb = b + Pot'[p] - Pot[p] /\ aa = a + Post'[p]
    <3>1. bb = b + Pot'[p] - Pot[p] /\ aa = a + Post'[p] - Post[p]
      BY <1>5, <2>3
    <3>2. Pot'[p] = Cardinality(xhand[p].work) - 1 /\ Pot[p] = xhand[p].room + Cardinality(xhand[p].work)
          /\ Post'[p] = (IF r = "ok" THEN 1 ELSE 0) /\ Post[p] = 0 /\ Pot'[p] \in Nat
      <4>1. Pot'[p] = xhand'[p].room + Cardinality(xhand'[p].work) /\ Pot'[p] \in Nat
        BY <1>5, <2>3
      <4> QED
        BY <1>5, <2>2, <2>3, <2>4, <4>1
    <3> HIDE DEF a, aa, b, bb
    <3> QED
      BY <1>2, <2>4, <3>1, <3>2
  <2>6. nn = n
    BY <2>2
  <2>7. tt + bb <= Ceiling' /\ tt <= nn + aa + faults' /\ Pot'[p] + Post'[p] <= R
    <3>1. Pot[p] + Post[p] <= R
      BY <1>2
    <3>2. r \in {"ok", "err"} /\ Post'[p] \in {0, 1} /\ (r = "ok" => Post'[p] = 1)
      BY <2>5
    <3>3. \/ r = "ok" /\ tt = t + 1 /\ faults' = faults
          \/ tt = t
          \/ tt = t + 1 /\ faults' = faults + 1
      BY <2>1
    <3> HIDE DEF n, nn, a, aa, b, bb, t, tt, R
    <3> QED
      BY <1>1, <1>2, <1>3, <2>5, <2>6, <3>1, <3>2, <3>3
  <2> HIDE DEF Good
  <2> QED
    BY <1>6, <1>7, <2>2, <2>3, <2>7
<1>11. ASSUME NEW p \in Procs, XMark(p) PROVE Good
  <2>1. /\ xhand[p].row \in XIds /\ xhand[p].row # None /\ xhand[p] # NoX
        /\ xhand[p].room = 0 /\ tt = t
    <3>1. xhand[p].row # None /\ tt = t /\ xhand[p].room \in Nat
      BY <1>1, <1>11 DEF XMark, XHand
    <3> QED
      BY <1>1, <1>2, <3>1 DEF XHand, NoX
  <2>2. /\ \A q \in Procs : q # p => xhand'[q] = xhand[q]
        /\ xhand'[p].room = xhand[p].room /\ xhand'[p].work = xhand[p].work
        /\ xhand'[p].row = None /\ xhand'[p].res = "none"
    BY <1>1, <1>11 DEF XMark, XHand
  <2>3. Pot'[p] = Pot[p] /\ Post'[p] = 0 /\ bb = b /\ aa = a - Post[p]
    <3>1. bb = b + Pot'[p] - Pot[p] /\ aa = a + Post'[p] - Post[p]
      BY <1>5, <2>2
    <3>2. Pot'[p] = Pot[p] /\ Post'[p] = 0 /\ Pot[p] \in Nat /\ Post[p] \in {0, 1}
      BY <1>2, <1>5, <2>2
    <3> HIDE DEF a, aa, b, bb
    <3> QED
      BY <1>2, <3>1, <3>2
  <2>4. nn + faults' >= n + faults + Post[p]
    <3>1. CASE xhand[p].res # "ok"
      <4>1. Post[p] = 0
        BY <1>5, <2>2, <3>1
      <4>2. sentToday' = sentToday
        BY <1>11, <3>1 DEF XMark
      <4> QED
        BY <1>1, <1>3, <4>1, <4>2
    <3>2. CASE xhand[p].res = "ok" /\ sentToday' = sentToday \cup {xhand[p].row}
      <4>1. xhand[p].row \notin sentToday
        <5>1. x[xhand[p].row] = "taken"
          BY <2>1 DEF Held, XRowsHeld, InX
        <5> QED
          BY <5>1 DEF CapInv
      <4>2. IsFiniteSet(sentToday)
        BY <1>1, XIdsFinite
      <4>3. nn = n + 1
        BY <3>2, <4>1, <4>2, FS_AddElement
      <4> QED
        BY <1>1, <1>2, <1>3, <4>3
    <3>3. CASE faults' = faults + 1 /\ sentToday' = sentToday
      BY <1>1, <1>2, <1>3, <3>3
    <3> QED
      BY <1>11, <3>1, <3>2, <3>3 DEF XMark, Fail
  <2>5. tt + bb <= Ceiling' /\ tt <= nn + aa + faults' /\ Pot'[p] + Post'[p] <= R
    <3>1. Pot[p] + Post[p] <= R /\ Pot[p] \in Nat /\ Post[p] \in {0, 1}
      BY <1>2
    <3> HIDE DEF n, nn, a, aa, b, bb, t, tt, R
    <3> QED
      BY <1>1, <1>2, <1>3, <2>1, <2>3, <2>4, <3>1
  <2> HIDE DEF Good
  <2> QED
    BY <1>6, <1>7, <2>1, <2>2, <2>5
<1>12. ASSUME NEW p \in Procs, Crash(p) PROVE Good
  <2>1. xhand' = [xhand EXCEPT ![p] = NoX] /\ faults' = faults + 1 /\ UNCHANGED <<sentToday, tweetsToday>>
    BY <1>12 DEF Crash, Fail, dayVars
  <2>2. /\ \A q \in Procs : q # p => xhand'[q] = xhand[q]
        /\ xhand'[p] = NoX
    BY <1>1, <2>1
  <2>3. Pot'[p] = 0 /\ Post'[p] = 0
    <3>1. Cardinality({}) = 0
      BY FS_EmptySet
    <3>2. xhand'[p].room = 0 /\ xhand'[p].work = {} /\ xhand'[p].res = "none"
      BY <2>2 DEF NoX
    <3>3. Pot'[p] = 0 + Cardinality({})
      BY <1>5, <2>2, <3>2, Zenon
    <3>4. Post'[p] = 0
      BY <1>5, <2>2, <3>2
    <3> QED
      BY <3>1, <3>3, <3>4
  <2>4. bb = b - Pot[p] /\ aa = a - Post[p] /\ Pot[p] \in Nat /\ Post[p] \in {0, 1}
    <3>1. bb = b + Pot'[p] - Pot[p] /\ aa = a + Post'[p] - Post[p]
      BY <1>5, <2>2
    <3>2. Pot[p] \in Nat /\ Post[p] \in {0, 1}
      BY <1>2
    <3> HIDE DEF a, aa, b, bb
    <3> QED
      BY <1>2, <2>3, <3>1, <3>2
  <2>5. tt = t /\ nn = n
    BY <2>1
  <2>6. tt + bb <= Ceiling' /\ tt <= nn + aa + faults'
    <3> HIDE DEF n, nn, a, aa, b, bb, t, tt, R
    <3> QED
      BY <1>1, <1>2, <1>3, <2>1, <2>4, <2>5
  <2>7. \A q \in Procs :
          /\ Pot'[q] + Post'[q] <= R
          /\ q \notin Running("x")' => xhand'[q] = NoX
          /\ xhand'[q].row = None => xhand'[q].res = "none"
          /\ xhand'[q].room > 0 => xhand'[q].row = None
    <3> SUFFICES ASSUME NEW q \in Procs
                 PROVE  /\ Pot'[q] + Post'[q] <= R
                        /\ q \notin Running("x")' => xhand'[q] = NoX
                        /\ xhand'[q].row = None => xhand'[q].res = "none"
                        /\ xhand'[q].room > 0 => xhand'[q].row = None
      OBVIOUS
    <3>1. CASE q = p
      BY <1>1, <2>2, <2>3, <3>1 DEF NoX
    <3>2. CASE q # p
      <4>1. Pot'[q] = Pot[q] /\ Post'[q] = Post[q]
        BY <1>5, <2>2, <3>2
      <4> QED
        BY <1>2, <1>3, <2>2, <3>2, <4>1
    <3> QED
      BY <3>1, <3>2
  <2> QED
    BY <2>6, <2>7
\* Midnight: nothing is posted today, and what the publishers still have in hand is
\* theirs to post.
<1>13. ASSUME NewDay PROVE Good
  <2>1. tt = 0 /\ sentToday' = {} /\ xhand' = xhand /\ faults' = faults
    BY <1>13 DEF NewDay, hands
  <2>2. nn = 0
    BY <2>1, FS_EmptySet
  <2>3. Pot' = Pot /\ Post' = Post /\ aa = a /\ bb = b
    BY <2>1 DEF Pot, Post
  <2> DEFINE N == Cardinality(Running("x"))
  <2>4. N \in Nat /\ Running("x") \in SUBSET Procs
    BY ProcsFinite DEF Running
  <2>5. b + a <= N * R /\ a >= 0 /\ b >= 0
    <3>1. /\ \A q \in Procs \ Running("x") : xhand[q] = NoX
          /\ \A q \in Procs : Pot[q] + Post[q] <= XRoom(0)
      BY <1>2
    <3> QED
      BY <1>1, <2>4, <3>1, HandsBounded
  <2>6. Ceiling' = DailyCap + (N - 1 + faults) * R
    BY <1>3, <2>1 DEF Ceiling
  <2>7. N * R <= DailyCap + (N - 1 + faults) * R /\ N * R \in Nat
    <3> HIDE DEF N, R
    <3>1. (N - 1 + faults + 1) * R = (N - 1 + faults) * R + R /\ (N - 1 + faults) * R \in Int
      <4>1. N - 1 + faults \in Int
        BY <1>3, <2>4
      <4> QED
        BY <1>1, <4>1, Times
    <3>2. N * R <= (N + faults) * R /\ N * R \in Nat
      <4>1. N + faults \in Int /\ N \in Int /\ N <= N + faults
        BY <1>3, <2>4
      <4> QED
        BY <1>1, <2>4, <4>1, Times
    <3>3. N - 1 + faults + 1 = N + faults /\ R <= DailyCap /\ DailyCap \in Nat
      BY <1>3, <2>4, RoomBounds DEF R
    <3> QED
      BY <1>1, <1>3, <2>4, <3>1, <3>2, <3>3
  <2>8. tt + bb <= Ceiling' /\ tt <= nn + aa + faults'
    <3> HIDE DEF n, nn, a, aa, b, bb, t, tt, R, N
    <3> QED
      BY <1>1, <1>2, <1>3, <2>1, <2>2, <2>3, <2>5, <2>6, <2>7
  <2>9. \A q \in Procs :
          /\ Pot'[q] + Post'[q] <= R
          /\ q \notin Running("x")' => xhand'[q] = NoX
          /\ xhand'[q].row = None => xhand'[q].res = "none"
          /\ xhand'[q].room > 0 => xhand'[q].row = None
    BY <1>2, <1>3, <2>1, <2>3
  <2> QED
    BY <2>8, <2>9
<1>14. ASSUME \/ EmitTweet \/ EmitCrash \/ UNCHANGED vars
              \/ (\E e \in Events : EmitTelegram(e)) \/ \E s \in Setups : Announce(s)
       PROVE  UNCHANGED <<xhand, sentToday, tweetsToday>>
  BY <1>14 DEF EmitTweet, EmitCrash, EmitTelegram, Announce, hands, dayVars, vars
<1>15. ASSUME NEW p \in Procs, NoteStep(p) \/ BcastStep(p) \/ ReportStep(p)
       PROVE  UNCHANGED <<xhand, sentToday, tweetsToday>>
  BY <1>15 DEF NoteStep, NoteClaim, NoteSend, NoteMark, BcastStep, BcastClaim, BcastSend,
     BcastEnqueue, BcastMark, ReportStep, ReportCheck, ReportSend, ReportEnqueue, ReportRecord, dayVars
<1>16. Good
  <2> HIDE DEF Good
  <2> QED
    BY <1>4, <1>8, <1>9, <1>10, <1>11, <1>12, <1>13, <1>14, <1>15 DEF Next, XStep
<1>17. \A i \in sentToday' : x'[i] = "sent"
  BY SentStays DEF CapInv
<1> QED
  BY <1>16, <1>17 DEF CapInv

\* tick_once: however many publishers count before the others have marked their posts,
\* the day goes past the cap by one tick's rows for each other publisher and each
\* failure.
THEOREM DailyCapHolds == Spec => []DailyCapBounds
<1>1. Init => CapInv
  <2> SUFFICES ASSUME Init PROVE CapInv
    OBVIOUS
  <2>1. Typed
    BY TypedInit
  <2>2. xhand \in [Procs -> XHand] /\ \A p \in Procs : xhand[p] = NoX
    BY <2>1 DEF Typed, XTyped, Init
  <2>3. Cardinality({}) = 0
    BY FS_EmptySet
  <2>4. \A p \in Procs : /\ Pot[p] = 0 /\ Post[p] = 0 /\ Pot[p] + Post[p] <= XRoom(0)
                         /\ xhand[p].row = None /\ xhand[p].res = "none" /\ xhand[p].room = 0
    <3>1. \A p \in Procs : xhand[p].room = 0 /\ xhand[p].work = {} /\ xhand[p].res = "none"
                           /\ xhand[p].row = None
      BY <2>2 DEF NoX
    <3>2. \A p \in Procs : Pot[p] = 0 /\ Post[p] = 0
      BY <2>2, <2>3, <3>1 DEF Pot, Post
    <3> QED
      BY <3>1, <3>2, RoomBounds
  <2>5. \A p \in Procs : Pot[p] \in Int /\ Post[p] \in Int
    BY <2>4
  <2>6. {} \in SUBSET Procs /\ \A p \in Procs \ {} : Pot[p] = 0 /\ Post[p] = 0
    BY <2>4
  <2>7. SumFunctionOnSet(Pot, Procs) = 0
    <3>1. SumFunctionOnSet(Pot, Procs) = SumFunctionOnSet(Pot, {})
      BY <2>5, <2>6, RowsAssumption, SumSkips
    <3> QED
      BY <3>1, SumEmpty
  <2>8. SumFunctionOnSet(Post, Procs) = 0
    <3>1. SumFunctionOnSet(Post, Procs) = SumFunctionOnSet(Post, {})
      BY <2>5, <2>6, RowsAssumption, SumSkips
    <3> QED
      BY <3>1, SumEmpty
  <2>9. sentToday = {} /\ Cardinality(sentToday) = 0 /\ tweetsToday = 0 /\ faults = 0
    BY <2>3 DEF Init
  <2>10. 0 <= Ceiling
    <3> DEFINE N == Cardinality(Running("x"))
    <3>1. N \in Nat
      BY <2>1, ProcsFinite DEF Running
    <3>2. Ceiling = DailyCap + (N - 1 + 0) * XRoom(0)
      BY <2>9 DEF Ceiling
    <3> HIDE DEF N
    <3>3. (N - 1 + 1) * XRoom(0) = (N - 1) * XRoom(0) + XRoom(0) /\ (N - 1) * XRoom(0) \in Int
      <4>1. N - 1 \in Int
        BY <3>1
      <4> QED
        BY <4>1, RoomBounds, Times
    <3>4. N * XRoom(0) \in Nat
      BY <3>1, RoomBounds, Times
    <3>5. N - 1 + 1 = N /\ N - 1 + 0 = N - 1
      BY <3>1
    <3> QED
      BY <3>2, <3>3, <3>4, <3>5, RoomBounds
  <2>11. tweetsToday <= Cardinality(sentToday) + SumFunctionOnSet(Post, Procs) + faults
         /\ tweetsToday + SumFunctionOnSet(Pot, Procs) <= Ceiling
    BY <2>7, <2>8, <2>9, <2>10
  <2>12. \A p \in Procs : ~(xhand[p].room > 0)
    BY <2>4
  <2> QED
    BY <2>2, <2>4, <2>9, <2>11, <2>12 DEF CapInv
<1>2. Typed /\ CapInv => DailyCapBounds
  <2> SUFFICES ASSUME Typed, CapInv PROVE tweetsToday <= Ceiling
    BY DEF DailyCapBounds, Ceiling
  <2>1. xhand \in [Procs -> XHand] /\ tweetsToday \in Nat /\ faults \in Nat
    BY DEF Typed, XTyped, Counted
  <2>2. SumFunctionOnSet(Pot, Procs) >= 0 /\ SumFunctionOnSet(Pot, Procs) \in Int
    <3>1. /\ Procs \in SUBSET Procs /\ \A q \in Procs \ Procs : xhand[q] = NoX
          /\ \A q \in Procs : Pot[q] + Post[q] <= XRoom(0)
      BY DEF CapInv
    <3> QED
      BY <2>1, <3>1, HandsBounded, PotTyped
  <2>3. Ceiling \in Int
    <3>1. Cardinality(Running("x")) \in Nat
      BY ProcsFinite DEF Running
    <3>2. (Cardinality(Running("x")) - 1 + faults) * XRoom(0) \in Int
      BY <2>1, <3>1, RoomBounds
    <3> QED
      BY <3>2, RoomBounds DEF Ceiling
  <2> QED
    BY <2>1, <2>2, <2>3 DEF CapInv
<1> QED
  BY <1>1, <1>2, CapNext, HeldAlways, PTL DEF Spec

\* What X costs is bounded: the attempts of a row and the posts of a day.
THEOREM PostsBoundedHolds == Spec => []PostsBounded
<1>1. GivenUpOneEarly /\ DailyCapBounds => PostsBounded
  BY DEF PostsBounded
<1> QED
  BY <1>1, GivenUpOneEarlyHolds, DailyCapHolds, PTL

=============================================================================
