------------------------- MODULE OrderLedgerProofs -------------------------
(* What holds of OrderLedger for any number of orders, trades and failures. *)
EXTENDS OrderLedger, SequenceTheorems, TLAPS

AnyMessage == [o : Orders, state : VenueStates, trade : Nat]
Ats == {"idle", "list", "pairs", "query", "update", "patch"}

Typed ==
  /\ venue \in [Orders -> [state : VenueStates \cup {"none"}, trades : Nat]]
  /\ wire \in Seq(AnyMessage)
  /\ sent \in [Orders -> {"none", "empty", "listed"}]
  /\ row \in [Orders -> [status : Statuses \cup {"absent"}, listed : BOOLEAN]]
  /\ hand \in [at : {"none", "fill", "status"}, msg : AnyMessage \cup {Nothing}]
  /\ hand.at # "none" => hand.msg \in AnyMessage
  /\ rec \in [Reconcilers -> [at : Ats, remote : SUBSET Orders, ids : SUBSET Orders,
                              todo : SUBSET Orders, resolved : SUBSET Orders,
                              o : Orders \cup {NoOrder}, state : VenueStates,
                              listed : BOOLEAN]]
  /\ \A r \in Reconcilers : rec[r].at = "update" => rec[r].o \in Orders
  /\ cancels \in SUBSET Orders /\ late \in SUBSET Orders

\* An end that was heard of is an end at the venue.
Heard(o, state) == state \in VenueEnds => venue[o].state = state
WireTrue == \A i \in DOMAIN wire : Heard(wire[i].o, wire[i].state)
HandTrue == hand.at # "none" => Heard(hand.msg.o, hand.msg.state)

\* A row is about an order the venue has, and is inserted once.
Placed(o) == venue[o].state # "none"
RowsPlaced ==
  \A o \in Orders : /\ sent[o] # "none" \/ HasRow(o) => Placed(o)
                    /\ ~(sent[o] # "none" /\ HasRow(o))
CancelsTrue == \A o \in cancels : venue[o].state = "CANCELED"

\* What a reconciler misses has ended, unless it was placed under its eyes.
Gone(o) == Ended(o) \/ o \in late
RecTrue(r) ==
  /\ rec[r].at # "idle" => \A o \in Orders \ rec[r].remote : Placed(o) => Gone(o)
  /\ \A o \in rec[r].ids : Gone(o)
  /\ rec[r].at = "update" => Heard(rec[r].o, rec[r].state) /\ Answered(rec[r].state) # "none"

Inv ==
  /\ Typed /\ WireTrue /\ HandTrue /\ RowsPlaced /\ CancelsTrue
  /\ \A r \in Reconcilers : RecTrue(r)
  /\ StatusTrue

---------------------------------------------------------------------------
(* The venue moves.                                                       *)

\* What a step of the venue does to one order.
VenueMoves ==
  \A o \in Orders : /\ Placed(o) => Placed(o)'
                    /\ Ended(o) => venue'[o].state = venue[o].state

\* The end of one order is told with what it was told.
LEMMA WireGrows ==
  ASSUME Typed, WireTrue, VenueMoves, NEW msgs \in Seq(AnyMessage), Told(msgs),
         \A i \in DOMAIN msgs : Heard(msgs[i].o, msgs[i].state)'
  PROVE  wire' \in Seq(AnyMessage) /\ WireTrue'
<1>1. \A o \in Orders, state \in VenueStates : Heard(o, state) => Heard(o, state)'
  BY DEF Heard, VenueMoves, Ended
<1>2. CASE UNCHANGED wire
  <2>1. \A i \in DOMAIN wire : wire[i] \in AnyMessage
    BY DEF Typed
  <2> QED
    BY <1>1, <1>2, <2>1 DEF WireTrue, Typed, AnyMessage
<1>3. CASE wire' = wire \o msgs
  <2>1. /\ wire' \in Seq(AnyMessage) /\ DOMAIN wire' = 1..(Len(wire) + Len(msgs))
        /\ \A i \in 1..(Len(wire) + Len(msgs)) :
             wire'[i] = IF i <= Len(wire) THEN wire[i] ELSE msgs[i - Len(wire)]
    BY <1>3, ConcatProperties DEF Typed
  <2>2. SUFFICES ASSUME NEW i \in DOMAIN wire'
                 PROVE  wire'[i].state \in VenueEnds => venue'[wire'[i].o].state = wire'[i].state
    BY <2>1 DEF WireTrue, Heard
  <2>3. CASE i <= Len(wire)
    <3>1. i \in DOMAIN wire /\ wire'[i] = wire[i] /\ wire[i] \in AnyMessage
      BY <2>1, <2>3 DEF Typed
    <3> QED
      BY <1>1, <3>1 DEF WireTrue, AnyMessage, Heard
  <2>4. CASE ~(i <= Len(wire))
    <3>1. i - Len(wire) \in DOMAIN msgs /\ wire'[i] = msgs[i - Len(wire)]
      BY <2>1, <2>4 DEF Typed
    <3> QED
      BY <3>1 DEF Heard
  <2> QED
    BY <2>3, <2>4
<1> QED
  BY <1>2, <1>3 DEF Told

\* What the others know of the venue stays true when it moves.
LEMMA KnownStaysTrue ==
  ASSUME Inv, VenueMoves, UNCHANGED <<row, hand>>,
         late \subseteq late', UNCHANGED rec,
         \A r \in Reconcilers : rec[r].at # "idle" =>
           \A o \in Orders : ~Placed(o) /\ Placed(o)' => o \in late'
  PROVE  HandTrue' /\ (\A r \in Reconcilers : RecTrue(r)') /\ StatusTrue'
<1>1. HandTrue'
  BY DEF Inv, HandTrue, Heard, VenueMoves, Typed, AnyMessage, Ended
<1>2. \A o \in Orders : Gone(o) => Gone(o)'
  BY DEF Gone, VenueMoves, Ended
<1>3. ASSUME NEW r \in Reconcilers
      PROVE  RecTrue(r)'
  <2>1. rec[r].at # "idle" => \A o \in Orders \ rec[r].remote : Placed(o)' => Gone(o)'
    BY <1>2 DEF Inv, RecTrue, Gone
  <2>2. \A o \in rec[r].ids : Gone(o)'
    BY <1>2 DEF Inv, RecTrue, Typed
  <2>3. rec[r].at = "update" => (Heard(rec[r].o, rec[r].state) /\ Answered(rec[r].state) # "none")'
    BY DEF Inv, RecTrue, Typed, Heard, VenueMoves, Ended
  <2> QED
    BY <2>1, <2>2, <2>3 DEF RecTrue
<1>4. StatusTrue'
  <2>1. SUFFICES ASSUME NEW o \in Orders PROVE Claims(o)'
    BY DEF StatusTrue
  <2>2. Claims(o)
    BY DEF Inv, StatusTrue
  <2>3. row' = row /\ (Ended(o) => venue'[o].state = venue[o].state)
    BY DEF VenueMoves
  <2> QED
    BY <2>2, <2>3 DEF Claims, Ended, VenueEnds
<1> QED
  BY <1>1, <1>3, <1>4

\* The trades of an order, as they are told.
LEMMA TradesTold ==
  ASSUME NEW o \in Orders, NEW from \in Nat, NEW to \in Nat, from <= to
  PROVE  /\ Trades(o, from, to) \in Seq(AnyMessage)
         /\ \A i \in DOMAIN Trades(o, from, to) :
              /\ Trades(o, from, to)[i].o = o
              /\ Trades(o, from, to)[i].state \in VenueEnds
                   => Trades(o, from, to)[i].state = StateAfter(to)
<1>1. to - from \in Nat /\ Trades(o, from, to) = [i \in 1..(to - from) |-> Message(o, StateAfter(from + i), from + i)]
  BY DEF Trades
<1>2. ASSUME NEW i \in 1..(to - from)
      PROVE  /\ Message(o, StateAfter(from + i), from + i) \in AnyMessage
             /\ StateAfter(from + i) \in VenueEnds => StateAfter(from + i) = StateAfter(to)
  <2>1. from + i \in Nat /\ from + i <= to /\ from + i # 0
    OBVIOUS
  <2> QED
    BY <2>1, BoundsAssumption DEF StateAfter, VenueEnds, VenueOpen, VenueStates, Message, AnyMessage
<1>3. Trades(o, from, to) \in [1..(to - from) -> AnyMessage]
  BY <1>1, <1>2
<1>4. Trades(o, from, to) \in Seq(AnyMessage)
  BY <1>1, <1>3, SeqDef
<1>5. ASSUME NEW i \in DOMAIN Trades(o, from, to)
      PROVE  /\ Trades(o, from, to)[i].o = o
             /\ Trades(o, from, to)[i].state \in VenueEnds
                  => Trades(o, from, to)[i].state = StateAfter(to)
  <2>1. i \in 1..(to - from) /\ Trades(o, from, to)[i] = Message(o, StateAfter(from + i), from + i)
    BY <1>1
  <2> QED
    BY <1>2, <2>1 DEF Message
<1> QED
  BY <1>4, <1>5

LEMMA PlaceKeeps ==
  ASSUME Inv, NEW o \in Orders, NEW n \in 0..Units, Place(o, n)
  PROVE  Inv'
<1> DEFINE first == <<Message(o, "NEW", 0)>>
           msgs == first \o Trades(o, 0, n)
<1> HIDE DEF first, msgs
<1>1. n \in Nat /\ StateAfter(n) \in VenueStates
  BY BoundsAssumption DEF StateAfter, VenueStates, VenueOpen, VenueEnds
<1>2. VenueMoves
  BY <1>1 DEF Inv, Typed, VenueMoves, Placed, Ended, Place, VenueEnds, StateAfter
<1>3. /\ first \in Seq(AnyMessage) /\ Len(first) = 1 /\ first[1] = Message(o, "NEW", 0)
  BY DEF first, Message, AnyMessage, VenueStates, VenueOpen
<1>4. venue'[o].state = StateAfter(n)
  BY DEF Inv, Typed, Place
<1>5. msgs \in Seq(AnyMessage) /\ \A i \in DOMAIN msgs : Heard(msgs[i].o, msgs[i].state)'
  <2>1. /\ Trades(o, 0, n) \in Seq(AnyMessage)
        /\ \A i \in DOMAIN Trades(o, 0, n) :
             /\ Trades(o, 0, n)[i].o = o
             /\ Trades(o, 0, n)[i].state \in VenueEnds => Trades(o, 0, n)[i].state = StateAfter(n)
    BY <1>1, TradesTold
  <2>2. /\ msgs \in Seq(AnyMessage) /\ DOMAIN msgs = 1..(1 + Len(Trades(o, 0, n)))
        /\ \A i \in 1..(1 + Len(Trades(o, 0, n))) :
             msgs[i] = IF i <= 1 THEN first[i] ELSE Trades(o, 0, n)[i - 1]
    <3> DEFINE rest == Trades(o, 0, n)
    <3> HIDE DEF rest
    <3>1. rest \in Seq(AnyMessage)
      BY <2>1 DEF rest
    <3>2. /\ first \o rest \in Seq(AnyMessage) /\ Len(first \o rest) = Len(first) + Len(rest)
          /\ \A i \in 1 .. (Len(first) + Len(rest)) :
               (first \o rest)[i] = IF i <= Len(first) THEN first[i] ELSE rest[i - Len(first)]
      BY <1>3, <3>1, ConcatProperties
    <3>3. DOMAIN (first \o rest) = 1 .. (1 + Len(rest))
      BY <1>3, <3>2, LenProperties
    <3> QED
      BY <1>3, <3>2, <3>3 DEF msgs, rest
  <2>3. ASSUME NEW i \in DOMAIN msgs
        PROVE  msgs[i].o = o /\ (msgs[i].state \in VenueEnds => msgs[i].state = StateAfter(n))
    <3>1. CASE i = 1
      BY <1>3, <2>2, <3>1 DEF Message, VenueEnds
    <3>2. CASE i # 1
      <4>1. i - 1 \in DOMAIN Trades(o, 0, n) /\ msgs[i] = Trades(o, 0, n)[i - 1]
        BY <2>1, <2>2, <3>2
      <4> QED
        BY <2>1, <4>1
    <3> QED
      BY <3>1, <3>2
  <2> QED
    BY <1>4, <2>2, <2>3 DEF Heard
<1>6. Told(msgs)
  BY DEF Place, msgs, first
<1>7. wire' \in Seq(AnyMessage) /\ WireTrue'
  BY <1>2, <1>5, <1>6, WireGrows DEF Inv
<1>8. Typed'
  <2>1. venue' \in [Orders -> [state : VenueStates \cup {"none"}, trades : Nat]]
    BY <1>1 DEF Inv, Typed, Place
  <2>2. sent' \in [Orders -> {"none", "empty", "listed"}] /\ late' \in SUBSET Orders
    BY DEF Inv, Typed, Place
  <2> QED
    BY <1>7, <2>1, <2>2 DEF Inv, Typed, Place, tableVars, streamVars
<1>9. HandTrue' /\ (\A r \in Reconcilers : RecTrue(r)') /\ StatusTrue'
  <2>1. \A r \in Reconcilers : rec[r].at # "idle" => \A p \in Orders : ~Placed(p) /\ Placed(p)' => p \in late'
    BY DEF Inv, Typed, Place, Placed
  <2>2. UNCHANGED <<row, hand, rec>> /\ late \subseteq late'
    BY DEF Place, tableVars, streamVars
  <2> QED
    BY <1>2, <2>1, <2>2, KnownStaysTrue
<1>10. RowsPlaced' /\ CancelsTrue'
  <2>1. Placed(o)' /\ UNCHANGED <<row, cancels>> /\ \A p \in Orders \ {o} : sent'[p] = sent[p]
    BY <1>1, <1>4 DEF Placed, Place, tableVars, StateAfter, Inv, Typed
  <2>2. \A p \in Orders : Placed(p) => Placed(p)'
    BY <1>2 DEF VenueMoves
  <2>3. ~Placed(o)
    BY DEF Place, Placed
  <2>5. RowsPlaced'
    BY <2>1, <2>2, <2>3 DEF Inv, RowsPlaced, HasRow
  <2>4. CancelsTrue'
    BY <1>2, <2>1 DEF Inv, Typed, CancelsTrue, VenueMoves, Ended, VenueEnds
  <2> QED
    BY <2>4, <2>5
<1> QED
  BY <1>7, <1>8, <1>9, <1>10 DEF Inv

LEMMA TradeKeeps ==
  ASSUME Inv, NEW o \in Orders, Trade(o)
  PROVE  Inv'
<1>0. PICK n \in Nat : n = venue[o].trades
  BY DEF Inv, Typed
<1> DEFINE msgs == Trades(o, n, n + 1)
<1> HIDE DEF msgs
<1>1. StateAfter(n + 1) \in VenueStates
  BY DEF StateAfter, VenueStates, VenueOpen, VenueEnds
<1>2. venue' = [venue EXCEPT ![o] = [state |-> StateAfter(n + 1), trades |-> n + 1]]
  BY <1>0 DEF Trade, Inv, Typed
<1>3. VenueMoves
  BY <1>1, <1>2 DEF Inv, Typed, VenueMoves, Placed, Ended, Trade, OpenAtVenue, VenueEnds, VenueOpen, VenueStates
<1>4. msgs \in Seq(AnyMessage) /\ \A i \in DOMAIN msgs : Heard(msgs[i].o, msgs[i].state)'
  <2>1. /\ msgs \in Seq(AnyMessage)
        /\ \A i \in DOMAIN msgs :
             /\ msgs[i].o = o
             /\ msgs[i].state \in VenueEnds => msgs[i].state = StateAfter(n + 1)
    BY <1>1, TradesTold DEF msgs
  <2>2. venue'[o].state = StateAfter(n + 1)
    BY <1>2 DEF Inv, Typed
  <2> QED
    BY <2>1, <2>2 DEF Heard
<1>5. wire' \in Seq(AnyMessage) /\ WireTrue'
  <2>1. Told(msgs)
    BY <1>0 DEF Trade, msgs
  <2> QED
    BY <1>3, <1>4, <2>1, WireGrows DEF Inv
<1>6. Typed'
  <2>1. venue' \in [Orders -> [state : VenueStates \cup {"none"}, trades : Nat]]
    BY <1>1, <1>2 DEF Inv, Typed
  <2> QED
    BY <1>5, <2>1 DEF Inv, Typed, Trade, tableVars, streamVars
<1>7. UNCHANGED <<row, hand, rec, late, sent, cancels>>
  BY DEF Trade, tableVars, streamVars
<1>8. HandTrue' /\ (\A r \in Reconcilers : RecTrue(r)') /\ StatusTrue'
  <2>1. \A p \in Orders : Placed(p)' => Placed(p)
    BY <1>2 DEF Placed, Trade, OpenAtVenue, VenueOpen, Inv, Typed
  <2> QED
    BY <1>3, <1>7, <2>1, KnownStaysTrue
<1>9. RowsPlaced' /\ CancelsTrue'
  BY <1>3, <1>7 DEF Inv, RowsPlaced, CancelsTrue, VenueMoves, HasRow, Ended, VenueEnds, Typed
<1> QED
  BY <1>5, <1>6, <1>8, <1>9 DEF Inv

LEMMA EndKeeps ==
  ASSUME Inv, NEW o \in Orders, NEW state \in VenueEnds \ {"FILLED"}, End(o, state),
         \/ UNCHANGED cancels
         \/ state = "CANCELED" /\ cancels' = cancels \cup {o}
  PROVE  Inv'
<1> DEFINE msgs == <<Message(o, state, 0)>>
<1> HIDE DEF msgs
<1>1. venue' = [venue EXCEPT ![o].state = state] /\ venue'[o].state = state
  BY DEF End, Inv, Typed
<1>2. VenueMoves
  BY <1>1 DEF Inv, Typed, VenueMoves, Placed, Ended, End, OpenAtVenue, VenueEnds, VenueOpen
<1>3. msgs \in Seq(AnyMessage) /\ \A i \in DOMAIN msgs : Heard(msgs[i].o, msgs[i].state)'
  BY <1>1 DEF msgs, Message, AnyMessage, Heard, VenueStates
<1>4. wire' \in Seq(AnyMessage) /\ WireTrue'
  <2>1. Told(msgs)
    BY DEF End, msgs
  <2> QED
    BY <1>2, <1>3, <2>1, WireGrows DEF Inv
<1>5. Typed'
  <2>1. venue' \in [Orders -> [state : VenueStates \cup {"none"}, trades : Nat]]
    BY <1>1, SMTT(30) DEF Inv, Typed, VenueStates
  <2>2. cancels' \in SUBSET Orders
    BY DEF Inv, Typed
  <2> QED
    BY <1>4, <2>1, <2>2 DEF Inv, Typed, End, tableVars, streamVars
<1>6. UNCHANGED <<row, hand, rec, late, sent>>
  BY DEF End, tableVars, streamVars
<1>7. HandTrue' /\ (\A r \in Reconcilers : RecTrue(r)') /\ StatusTrue'
  <2>1. \A p \in Orders : Placed(p)' => Placed(p)
    BY <1>1 DEF Placed, End, OpenAtVenue, VenueOpen, Inv, Typed
  <2> QED
    BY <1>2, <1>6, <2>1, KnownStaysTrue
<1>8. RowsPlaced'
  BY <1>2, <1>6 DEF Inv, RowsPlaced, VenueMoves, HasRow
<1>9. CancelsTrue'
  BY <1>1, <1>2 DEF Inv, CancelsTrue, VenueMoves, Ended, VenueEnds, Typed
<1> QED
  BY <1>4, <1>5, <1>7, <1>8, <1>9 DEF Inv

---------------------------------------------------------------------------
(* The venue stands still.                                                *)

\* What says nothing of the rows stays as it was.
LEMMA StillTrue ==
  ASSUME Inv, UNCHANGED <<venue, late>>
  PROVE  /\ (wire' = wire => WireTrue') /\ (hand' = hand => HandTrue')
         /\ (cancels' \subseteq cancels => CancelsTrue')
         /\ (UNCHANGED <<sent, row>> => RowsPlaced')
         /\ (rec' = rec => \A r \in Reconcilers : RecTrue(r)')
         /\ (row' = row => StatusTrue')
<1>1. (wire' = wire => WireTrue') /\ (hand' = hand => HandTrue')
  BY DEF Inv, WireTrue, HandTrue, Heard
<1>2. (cancels' \subseteq cancels => CancelsTrue') /\ (UNCHANGED <<sent, row>> => RowsPlaced')
  BY DEF Inv, CancelsTrue, RowsPlaced, Placed, HasRow
<1>3. rec' = rec => \A r \in Reconcilers : RecTrue(r)'
  BY DEF Inv, RecTrue, Placed, Gone, Ended, Heard
<1>4. row' = row => StatusTrue'
  BY DEF Inv, StatusTrue, Claims, Ended
<1> QED
  BY <1>1, <1>2, <1>3, <1>4

\* An UPDATE of one row, to a status that is so at the venue.
LEMMA WriteTrue ==
  ASSUME Inv, UNCHANGED <<venue, late, sent>>, NEW o \in Orders, HasRow(o),
         NEW status \in Statuses, NEW listed \in BOOLEAN, Write(o, status, listed),
         status = "filled" => venue[o].state = "FILLED",
         status = "canceled" => venue[o].state \in VenueEnds \ {"FILLED"},
         status = "expired" => venue[o].state = "EXPIRED",
         status # "reconciled_not_open"
  PROVE  /\ row' \in [Orders -> [status : Statuses \cup {"absent"}, listed : BOOLEAN]]
         /\ StatusTrue' /\ RowsPlaced'
<1>1. row' = [row EXCEPT ![o] = [status |-> status, listed |-> listed]]
  BY DEF Write
<1>2. row' \in [Orders -> [status : Statuses \cup {"absent"}, listed : BOOLEAN]]
  BY <1>1 DEF Inv, Typed
<1>3. row'[o].status = status /\ \A p \in Orders \ {o} : row'[p] = row[p]
  BY <1>1 DEF Inv, Typed
<1>4. StatusTrue'
  BY <1>3 DEF Inv, StatusTrue, Claims, Ended
<1>5. RowsPlaced'
  BY <1>3 DEF Inv, RowsPlaced, Placed, HasRow
<1> QED
  BY <1>2, <1>4, <1>5

LEMMA InsertRowKeeps ==
  ASSUME Inv, NEW o \in Orders, InsertRow(o)
  PROVE  Inv'
<1>1. UNCHANGED <<venue, wire, late, hand, rec, cancels>>
  BY DEF InsertRow, venueVars, streamVars
<1>2. sent' = [sent EXCEPT ![o] = "none"] /\ sent[o] # "none"
  BY DEF InsertRow
<1>3. row' = row \/ row' = [row EXCEPT ![o] = [status |-> "submitted", listed |-> sent[o] = "listed"]]
  BY DEF InsertRow
<1>4. row' \in [Orders -> [status : Statuses \cup {"absent"}, listed : BOOLEAN]]
  <2>1. PICK l \in BOOLEAN : l = (sent[o] = "listed")
    OBVIOUS
  <2>2. [status |-> "submitted", listed |-> l] \in [status : Statuses \cup {"absent"}, listed : BOOLEAN]
    BY DEF Statuses
  <2>3. row' = row \/ row' = [row EXCEPT ![o] = [status |-> "submitted", listed |-> l]]
    BY <1>3, <2>1, Zenon
  <2> QED
    BY <2>2, <2>3 DEF Inv, Typed
<1>5. Typed'
  BY <1>1, <1>2, <1>4 DEF Inv, Typed
<1>6. RowsPlaced'
  BY <1>1, <1>2, <1>3 DEF Inv, Typed, RowsPlaced, Placed, HasRow
<1>7. StatusTrue'
  <2>1. SUFFICES ASSUME NEW p \in Orders PROVE Claims(p)'
    BY DEF StatusTrue
  <2>2. row'[p] = row[p] \/ row'[p].status = "submitted"
    BY <1>3 DEF Inv, Typed
  <2> QED
    BY <1>1, <2>2 DEF Inv, StatusTrue, Claims, Ended
<1> QED
  BY <1>1, <1>5, <1>6, <1>7, StillTrue DEF Inv

LEMMA MarkCanceledKeeps ==
  ASSUME Inv, NEW o \in Orders, MarkCanceled(o)
  PROVE  Inv'
<1>1. UNCHANGED <<venue, wire, late, sent, hand, rec>> /\ cancels' = cancels \ {o}
  BY DEF MarkCanceled, venueVars, streamVars
<1>2. venue[o].state = "CANCELED"
  BY DEF MarkCanceled, Inv, CancelsTrue
<1>3. \/ row' = row
      \/ HasRow(o) /\ Write(o, "canceled", row[o].listed)
  BY DEF MarkCanceled
<1>4. CASE row' = row
  BY <1>1, <1>4, StillTrue DEF Inv, Typed
<1>5. CASE HasRow(o) /\ Write(o, "canceled", row[o].listed)
  <2>1. /\ row' \in [Orders -> [status : Statuses \cup {"absent"}, listed : BOOLEAN]]
        /\ StatusTrue' /\ RowsPlaced'
    <3>1. PICK listed \in BOOLEAN : listed = row[o].listed
      BY DEF Inv, Typed
    <3>2. "canceled" \in Statuses
      BY DEF Statuses, Terminal
    <3> QED
      BY <1>1, <1>2, <1>5, <3>1, <3>2, WriteTrue DEF VenueEnds
  <2> QED
    BY <1>1, <2>1, StillTrue DEF Inv, Typed
<1> QED
  BY <1>3, <1>4, <1>5

LEMMA StreamKeeps ==
  ASSUME Inv, Connect \/ Disconnect \/ TakeMessage \/ StoreFill
  PROVE  Inv'
<1>1. CASE Connect
  BY <1>1, StillTrue DEF Inv, Typed, Connect, venueVars, tableVars
<1>2. CASE Disconnect
  <2>1. wire' = <<>> /\ UNCHANGED <<venue, late, sent, row, hand, rec, cancels>>
    BY <1>2 DEF Disconnect, tableVars
  <2> QED
    BY <2>1, StillTrue DEF Inv, Typed, WireTrue
<1>3. CASE TakeMessage
  <2> DEFINE m == Head(wire)
  <2>1. UNCHANGED <<venue, late, sent, row, rec, cancels>> /\ wire' = Tail(wire) /\ wire # <<>>
    BY <1>3 DEF TakeMessage, tableVars
  <2>2. /\ hand'.msg = m /\ hand'.at \in {"fill", "status"}
        /\ hand' \in [at : {"none", "fill", "status"}, msg : {m}]
    BY <1>3 DEF TakeMessage
  <2>3. /\ m = wire[1] /\ m \in AnyMessage /\ 1 \in DOMAIN wire
        /\ wire' \in Seq(AnyMessage)
        /\ \A i \in DOMAIN wire' : i + 1 \in DOMAIN wire /\ wire'[i] = wire[i + 1]
    BY <2>1, HeadTailProperties DEF Inv, Typed
  <2>4. WireTrue'
    BY <2>1, <2>3 DEF Inv, WireTrue, Heard
  <2>5. HandTrue'
    BY <2>1, <2>2, <2>3 DEF Inv, WireTrue, HandTrue, Heard
  <2>6. Typed'
    BY <2>1, <2>2, <2>3 DEF Inv, Typed
  <2> QED
    BY <2>1, <2>4, <2>5, <2>6, StillTrue DEF Inv
<1>4. CASE StoreFill
  <2>1. UNCHANGED <<venue, wire, late, sent, row, rec, cancels>>
    BY <1>4 DEF StoreFill, venueVars
  <2>2. hand'.at = "status" /\ hand'.msg = hand.msg /\ hand.at = "fill"
    BY <1>4 DEF StoreFill, Inv, Typed
  <2>3. Typed' /\ HandTrue'
    BY <1>4, <2>1, <2>2 DEF Inv, Typed, HandTrue, Heard, StoreFill
  <2> QED
    BY <2>1, <2>3, StillTrue DEF Inv
<1> QED
  BY <1>1, <1>2, <1>3, <1>4

LEMMA StoreStatusKeeps ==
  ASSUME Inv, StoreStatus
  PROVE  Inv'
<1>1. UNCHANGED <<venue, wire, late, sent, rec, cancels>> /\ hand' = Idle
  BY DEF StoreStatus, venueVars
<1>2. Typed' <=> row' \in [Orders -> [status : Statuses \cup {"absent"}, listed : BOOLEAN]]
  BY <1>1 DEF Inv, Typed, Idle
<1>3. HandTrue'
  BY <1>1 DEF HandTrue, Idle
<1>4. \/ row' = row
      \/ Movable(hand.msg.o) /\ Write(hand.msg.o, Normalized(hand.msg.state), FALSE)
  BY DEF StoreStatus
<1>5. CASE row' = row
  BY <1>1, <1>2, <1>3, <1>5, StillTrue DEF Inv, Typed
<1>6. CASE Movable(hand.msg.o) /\ Write(hand.msg.o, Normalized(hand.msg.state), FALSE)
  <2>1. PICK o, state : o = hand.msg.o /\ state = hand.msg.state
    OBVIOUS
  <2>2. o \in Orders /\ state \in VenueStates /\ (state \in VenueEnds => venue[o].state = state)
    BY <2>1 DEF StoreStatus, Inv, Typed, AnyMessage, HandTrue, Heard
  <2>3. HasRow(o) /\ Write(o, Normalized(state), FALSE)
    BY <1>6, <2>1 DEF Movable
  <2>4. /\ Normalized(state) \in Statuses /\ Normalized(state) # "reconciled_not_open"
        /\ Normalized(state) = "filled" => state = "FILLED"
        /\ Normalized(state) = "canceled" => state = "CANCELED"
        /\ Normalized(state) = "expired" => state = "EXPIRED"
    BY <2>2 DEF Normalized, Statuses, Terminal, VenueStates, VenueEnds, VenueOpen
  <2>5. /\ row' \in [Orders -> [status : Statuses \cup {"absent"}, listed : BOOLEAN]]
        /\ StatusTrue' /\ RowsPlaced'
    BY <1>1, <2>2, <2>3, <2>4, WriteTrue DEF VenueEnds
  <2> QED
    BY <1>1, <1>2, <1>3, <2>5, StillTrue DEF Inv
<1> QED
  BY <1>4, <1>5, <1>6

---------------------------------------------------------------------------
(* A reconciler.                                                          *)

\* What a reconciler has in hand.
Work == [at : Ats, remote : SUBSET Orders, ids : SUBSET Orders, todo : SUBSET Orders,
         resolved : SUBSET Orders, o : Orders \cup {NoOrder}, state : VenueStates,
         listed : BOOLEAN]
WorkTrue(w) ==
  /\ w \in Work /\ (w.at = "update" => w.o \in Orders)
  /\ w.at # "idle" => \A o \in Orders \ w.remote : Placed(o) => Gone(o)
  /\ \A o \in w.ids : Gone(o)
  /\ w.at = "update" => Heard(w.o, w.state) /\ Answered(w.state) # "none"

LEMMA NoWorkTrue == WorkTrue(NoWork)
BY DEF WorkTrue, NoWork, Work, Ats, VenueStates, VenueOpen

LEMMA InHand ==
  ASSUME Inv, NEW r \in Reconcilers
  PROVE  WorkTrue(rec[r])
BY DEF Inv, Typed, RecTrue, WorkTrue, Work

\* One reconciler takes something else in hand.
LEMMA HandsOver ==
  ASSUME Inv, UNCHANGED <<venue, wire, late, sent, hand, cancels>>,
         NEW r \in Reconcilers, NEW w, rec' = [rec EXCEPT ![r] = w], WorkTrue(w),
         row' \in [Orders -> [status : Statuses \cup {"absent"}, listed : BOOLEAN]],
         StatusTrue', RowsPlaced'
  PROVE  Inv'
<1>1. rec'[r] = w /\ \A q \in Reconcilers \ {r} : rec'[q] = rec[q]
  BY DEF Inv, Typed
<1>2. Typed'
  <2>1. rec' \in [Reconcilers -> Work]
    BY DEF Inv, Typed, WorkTrue, Work
  <2>2. \A q \in Reconcilers : rec'[q].at = "update" => rec'[q].o \in Orders
    BY <1>1 DEF Inv, Typed, WorkTrue
  <2> QED
    BY <2>1, <2>2 DEF Inv, Typed, Work
<1>3. \A q \in Reconcilers : RecTrue(q)'
  <2>1. ASSUME NEW q \in Reconcilers PROVE WorkTrue(rec'[q])
    BY <1>1, InHand DEF Inv
  <2> QED
    BY <2>1 DEF RecTrue, WorkTrue, Gone, Placed, Ended, Heard
<1> QED
  BY <1>2, <1>3, StillTrue DEF Inv

LEMMA LooksKeep ==
  ASSUME Inv, NEW r \in Reconcilers,
         ReadOpen(r) \/ ReadRows(r) \/ ReadPairs(r) \/ EndQueries(r)
           \/ \E o \in Orders : QueryOrder(r, o)
  PROVE  Inv'
<1>1. UNCHANGED <<venue, wire, late, sent, row, hand, cancels>>
  BY DEF ReadOpen, ReadRows, ReadPairs, EndQueries, QueryOrder, venueVars, tableVars, streamVars
<1>2. WorkTrue(rec[r])
  BY InHand
<1>3. \E w : rec' = [rec EXCEPT ![r] = w] /\ WorkTrue(w)
  <2>1. CASE ReadOpen(r)
    <3> DEFINE w == [NoWork EXCEPT !.at = "list", !.remote = {o \in Orders : OpenAtVenue(o)}]
    <3>1. rec' = [rec EXCEPT ![r] = w]
      BY <2>1 DEF ReadOpen
    <3>2. \A o \in Orders \ w.remote : Placed(o) => Gone(o)
      BY DEF NoWork, OpenAtVenue, Placed, Gone, Ended, Inv, Typed, VenueStates
    <3>3. WorkTrue(w)
      BY <3>2 DEF WorkTrue, NoWork, Work, Ats, VenueStates, VenueOpen
    <3> QED
      BY <3>1, <3>3
  <2>2. CASE ReadRows(r)
    <3> DEFINE w == [rec[r] EXCEPT !.at = IF r \in dep.refine THEN "pairs" ELSE "patch", !.ids = Missing(r)]
    <3>1. rec' = [rec EXCEPT ![r] = NoWork] \/ rec' = [rec EXCEPT ![r] = w]
      BY <2>2 DEF ReadRows
    <3>2. \A o \in Missing(r) : o \in Orders /\ Gone(o)
      <4>1. SUFFICES ASSUME NEW o \in Missing(r) PROVE o \in Orders /\ Gone(o)
        OBVIOUS
      <4>2. o \in Orders /\ HasRow(o) /\ o \notin rec[r].remote
        BY DEF Missing, Listed, Submitted, HasRow
      <4>3. Placed(o)
        BY <4>2 DEF Inv, RowsPlaced
      <4> QED
        BY <1>2, <2>2, <4>2, <4>3 DEF ReadRows, WorkTrue
    <3>3. WorkTrue(w)
      BY <1>2, <2>2, <3>2 DEF WorkTrue, Work, Ats, ReadRows
    <3> QED
      BY <3>1, <3>3, NoWorkTrue
  <2>3. CASE ReadPairs(r)
    <3>1. CASE rec' = [rec EXCEPT ![r] = NoWork]
      BY <3>1, NoWorkTrue
    <3>2. CASE \E os \in SUBSET Orders :
                 rec' = [rec EXCEPT ![r] = [rec[r] EXCEPT !.at = "query", !.todo = os]]
      <4>1. PICK os \in SUBSET Orders :
              rec' = [rec EXCEPT ![r] = [rec[r] EXCEPT !.at = "query", !.todo = os]]
        BY <3>2
      <4>2. WorkTrue([rec[r] EXCEPT !.at = "query", !.todo = os])
        BY <1>2, <2>3 DEF WorkTrue, Work, Ats, ReadPairs
      <4> QED
        BY <4>1, <4>2
    <3>3. \A os \in SUBSET {o \in rec[r].ids : Submitted(o)} : os \in SUBSET Orders
      BY <1>2 DEF WorkTrue, Work
    <3> QED
      BY <2>3, <3>1, <3>2, <3>3 DEF ReadPairs, Inv, Typed
  <2>4. CASE EndQueries(r)
    <3> DEFINE w == [rec[r] EXCEPT !.at = "patch"]
    <3>1. rec' = [rec EXCEPT ![r] = NoWork] \/ rec' = [rec EXCEPT ![r] = w]
      BY <2>4 DEF EndQueries
    <3>2. WorkTrue(w)
      BY <1>2, <2>4 DEF WorkTrue, Work, Ats, EndQueries
    <3> QED
      BY <3>1, <3>2, NoWorkTrue
  <2>5. ASSUME NEW o \in Orders, QueryOrder(r, o)
        PROVE  \E w : rec' = [rec EXCEPT ![r] = w] /\ WorkTrue(w)
    <3> DEFINE rest == [rec[r] EXCEPT !.todo = @ \ {o}]
    <3>0. PICK traded \in BOOLEAN : traded = (venue[o].trades > 0)
      <4>1. (venue[o].trades > 0) \in BOOLEAN
        BY DEF Inv, Typed
      <4> QED
        BY <4>1, Zenon
    <3> DEFINE found == [rest EXCEPT !.at = "update", !.o = o, !.state = venue[o].state,
                                     !.listed = traded]
    <3>1. rec[r].at = "query"
      BY <2>5 DEF QueryOrder
    <3>2. WorkTrue(rest)
      BY <1>2, <3>1 DEF WorkTrue, Work
    <3>3. \/ rec' = [rec EXCEPT ![r] = rest]
          \/ Answered(venue[o].state) # "none" /\ rec' = [rec EXCEPT ![r] = found]
      BY <2>5, <3>0, Zenon DEF QueryOrder
    <3>4. CASE rec' = [rec EXCEPT ![r] = rest]
      BY <3>2, <3>4
    <3>5. CASE Answered(venue[o].state) # "none" /\ rec' = [rec EXCEPT ![r] = found]
      <4>1. venue[o].state \in VenueStates
        BY <3>5 DEF Answered, VenueStates, VenueOpen, VenueEnds, Inv, Typed
      <4>2. found.o = o /\ found.state = venue[o].state /\ found.at = "update"
            /\ found.ids = rec[r].ids /\ found.remote = rec[r].remote
        BY <1>2 DEF WorkTrue, Work
      <4>3. found \in Work
        BY <1>2, <4>1 DEF WorkTrue, Work, Ats
      <4>4. WorkTrue(found)
        BY <1>2, <3>1, <3>5, <4>2, <4>3 DEF WorkTrue, Heard
      <4> QED
        BY <3>5, <4>4
    <3> QED
      BY <3>3, <3>4, <3>5
  <2> QED
    BY <2>1, <2>2, <2>3, <2>4, <2>5
<1>4. PICK w : rec' = [rec EXCEPT ![r] = w] /\ WorkTrue(w)
  BY <1>3
<1>5. StatusTrue' /\ RowsPlaced'
  BY <1>1, StillTrue
<1> QED
  BY <1>1, <1>4, <1>5, HandsOver DEF Inv, Typed

LEMMA UpdateRowKeeps ==
  ASSUME Inv, NEW r \in Reconcilers, UpdateRow(r)
  PROVE  Inv'
<1> DEFINE o == rec[r].o
           done == [rec[r] EXCEPT !.at = "query", !.o = NoOrder, !.state = "NEW", !.listed = FALSE]
           more == [done EXCEPT !.resolved = @ \cup {rec[r].o}]
<1>1. UNCHANGED <<venue, wire, late, sent, hand, cancels>>
  BY DEF UpdateRow, venueVars, streamVars
<1>2. WorkTrue(rec[r]) /\ rec[r].at = "update"
  BY InHand DEF UpdateRow
<1>3. WorkTrue(done) /\ WorkTrue(more)
  BY <1>2 DEF WorkTrue, Work, Ats, VenueStates, VenueOpen
<1>4. \E w : rec' = [rec EXCEPT ![r] = w] /\ WorkTrue(w)
  <2>1. \/ rec' = [rec EXCEPT ![r] = more] \/ rec' = [rec EXCEPT ![r] = done]
        \/ rec' = [rec EXCEPT ![r] = NoWork]
    BY DEF UpdateRow
  <2> QED
    BY <1>3, <2>1, NoWorkTrue
<1>5. \/ row' = row
      \/ Submitted(o) /\ Write(o, Answered(rec[r].state), rec[r].listed)
  BY DEF UpdateRow
<1>6. /\ row' \in [Orders -> [status : Statuses \cup {"absent"}, listed : BOOLEAN]]
      /\ StatusTrue' /\ RowsPlaced'
  <2>1. CASE row' = row
    BY <1>1, <2>1, StillTrue DEF Inv, Typed
  <2>2. CASE Submitted(o) /\ Write(o, Answered(rec[r].state), rec[r].listed)
    <3>1. PICK p \in Orders, state \in VenueStates, l \in BOOLEAN :
            p = rec[r].o /\ state = rec[r].state /\ l = rec[r].listed
      BY <1>2 DEF WorkTrue, Work
    <3>2. HasRow(p) /\ Write(p, Answered(state), l) /\ (state \in VenueEnds => venue[p].state = state)
      BY <1>2, <2>2, <3>1 DEF Submitted, HasRow, WorkTrue, Heard
    <3>3. Answered(state) # "none"
      BY <1>2, <3>1 DEF WorkTrue
    <3>4. /\ Answered(state) \in Statuses /\ Answered(state) # "reconciled_not_open"
          /\ Answered(state) # "expired"
          /\ Answered(state) = "filled" => state = "FILLED"
          /\ Answered(state) = "canceled" => state \in VenueEnds \ {"FILLED"}
      BY <3>1, <3>3 DEF Answered, Statuses, Terminal, VenueEnds, VenueOpen, VenueStates
    <3> QED
      BY <1>1, <3>2, <3>4, WriteTrue DEF VenueEnds
  <2> QED
    BY <1>5, <2>1, <2>2
<1> QED
  BY <1>1, <1>4, <1>6, HandsOver

LEMMA PatchRestKeeps ==
  ASSUME Inv, NEW r \in Reconcilers, PatchRest(r)
  PROVE  Inv'
<1> DEFINE os == {o \in rec[r].ids \ rec[r].resolved : Submitted(o)}
<1>1. UNCHANGED <<venue, wire, late, sent, hand, cancels>> /\ rec' = [rec EXCEPT ![r] = NoWork]
  BY DEF PatchRest, venueVars, streamVars
<1>2. \A o \in os : o \in Orders /\ Gone(o) /\ Submitted(o)
  BY InHand DEF WorkTrue, Work
<1>3. \/ row' = row
      \/ row' = [o \in Orders |->
                   IF o \in os THEN [row[o] EXCEPT !.status = "reconciled_not_open"] ELSE row[o]]
  BY DEF PatchRest
<1>4. CASE row' = row
  BY <1>1, <1>4, StillTrue, NoWorkTrue, HandsOver DEF Inv, Typed
<1>5. CASE row' = [o \in Orders |->
                     IF o \in os THEN [row[o] EXCEPT !.status = "reconciled_not_open"] ELSE row[o]]
  <2>1. ASSUME NEW o \in Orders
        PROVE  /\ row'[o] \in [status : Statuses \cup {"absent"}, listed : BOOLEAN]
               /\ \/ row'[o] = row[o]
                  \/ row'[o].status = "reconciled_not_open" /\ Gone(o) /\ Submitted(o)
    <3>1. row[o] \in [status : Statuses \cup {"absent"}, listed : BOOLEAN]
      BY DEF Inv, Typed
    <3>2. CASE o \in os
      <4>1. row'[o] = [row[o] EXCEPT !.status = "reconciled_not_open"]
        BY <1>5, <3>2
      <4> QED
        BY <1>2, <3>1, <3>2, <4>1 DEF Statuses
    <3>3. CASE o \notin os
      BY <1>5, <3>1, <3>3
    <3> QED
      BY <3>2, <3>3
  <2>2. row' \in [Orders -> [status : Statuses \cup {"absent"}, listed : BOOLEAN]]
    BY <1>5, <2>1
  <2>3. StatusTrue'
    <3>1. SUFFICES ASSUME NEW o \in Orders PROVE Claims(o)'
      BY DEF StatusTrue
    <3> QED
      BY <1>1, <2>1 DEF Inv, StatusTrue, Claims, Gone, Ended
  <2>4. RowsPlaced'
    BY <1>1, <2>1 DEF Inv, RowsPlaced, Placed, HasRow, Submitted
  <2> QED
    BY <1>1, <2>2, <2>3, <2>4, NoWorkTrue, HandsOver
<1> QED
  BY <1>3, <1>4, <1>5

LEMMA CrashKeeps == Inv /\ Crash => Inv'
<1> SUFFICES ASSUME Inv, Crash PROVE Inv'
  OBVIOUS
<1>1. UNCHANGED <<venue, late, sent, row, cancels>> /\ wire' = <<>> /\ hand' = Idle
  BY DEF Crash, tableVars
<1>2. rec' = [rec EXCEPT !["worker"] = NoWork] /\ "worker" \in Reconcilers
  BY DEF Crash, Reconcilers
<1>3. \A r \in Reconcilers : rec'[r] = rec[r] \/ rec'[r] = NoWork
  BY <1>2 DEF Inv, Typed
<1>4. WireTrue' /\ HandTrue'
  BY <1>1 DEF WireTrue, HandTrue, Idle
<1>5. \A r \in Reconcilers : WorkTrue(rec'[r])
  BY <1>3, InHand, NoWorkTrue
<1>6. \A r \in Reconcilers : RecTrue(r)'
  BY <1>1, <1>5 DEF RecTrue, WorkTrue, Gone, Placed, Ended, Heard
<1>7. Typed'
  <2>1. rec' \in [Reconcilers -> Work]
    BY <1>2, NoWorkTrue DEF Inv, Typed, WorkTrue, Work
  <2>2. \A r \in Reconcilers : rec'[r].at = "update" => rec'[r].o \in Orders
    BY <1>5 DEF WorkTrue
  <2> QED
    BY <1>1, <2>1, <2>2 DEF Inv, Typed, Work, Idle
<1> QED
  BY <1>1, <1>4, <1>6, <1>7, StillTrue DEF Inv

---------------------------------------------------------------------------
(* Theorems.                                                              *)

LEMMA InitHolds == Init => Inv
<1> SUFFICES ASSUME Init PROVE Inv
  OBVIOUS
<1>1. Typed
  BY NoWorkTrue DEF Init, Typed, Idle, Absent, WorkTrue, Work, NoWork, VenueStates, VenueOpen
<1>2. WireTrue /\ HandTrue /\ RowsPlaced /\ CancelsTrue /\ StatusTrue
  BY DEF Init, WireTrue, HandTrue, RowsPlaced, HasRow, Absent, CancelsTrue, StatusTrue, Claims, Idle
<1>3. \A r \in Reconcilers : RecTrue(r)
  BY DEF Init, RecTrue, NoWork
<1> QED
  BY <1>1, <1>2, <1>3 DEF Inv

LEMMA StepKeeps == Inv /\ [Next]_vars => Inv'
<1> SUFFICES ASSUME Inv, [Next]_vars PROVE Inv'
  OBVIOUS
<1>1. CASE VenueStep
  <2>1. ASSUME NEW o \in Orders, NEW state \in VenueEnds \ {"FILLED"}, End(o, state), UNCHANGED cancels
        PROVE  Inv'
    BY <2>1, EndKeeps
  <2> QED
    BY <1>1, <2>1, PlaceKeeps, TradeKeeps DEF VenueStep, EndAlone
<1>2. CASE RouteStep
  <2>1. ASSUME NEW o \in Orders, CancelAtVenue(o) PROVE Inv'
    <3>1. "CANCELED" \in VenueEnds \ {"FILLED"}
      BY DEF VenueEnds
    <3> QED
      BY <2>1, <3>1, EndKeeps DEF CancelAtVenue
  <2> QED
    BY <1>2, <2>1, InsertRowKeeps, MarkCanceledKeeps DEF RouteStep
<1>3. CASE StreamStep \/ Disconnect
  BY <1>3, StreamKeeps, StoreStatusKeeps DEF StreamStep
<1>4. CASE \E r \in Reconcilers : ReconcileStep(r)
  BY <1>4, LooksKeep, UpdateRowKeeps, PatchRestKeeps DEF ReconcileStep
<1>5. CASE Crash
  BY <1>5, CrashKeeps
<1>6. CASE UNCHANGED vars
  <2>1. UNCHANGED <<venue, wire, late, sent, row, hand, rec, cancels>>
    BY <1>6 DEF vars, venueVars, tableVars, streamVars
  <2> QED
    BY <2>1, StillTrue DEF Inv, Typed
<1> QED
  BY <1>1, <1>2, <1>3, <1>4, <1>5, <1>6 DEF Next

\* The inductive invariant: what the stream and the reconcilers have heard of the venue is
\* so, and what a reconciler misses has ended or was placed under its eyes.
THEOREM InvHolds == Spec => []Inv
BY InitHolds, StepKeeps, PTL DEF Spec

\* Whatever is lost, late or interleaved: what a row says of its order is so at the venue.
THEOREM RowsTellTheTruth == Spec => []StatusTrue
<1>1. Inv => StatusTrue
  BY DEF Inv
<1> QED
  BY <1>1, InvHolds, PTL

\* Every UPDATE leaves a terminal status as it is, mark_canceled too, which has no guard:
\* the venue refuses to cancel what has ended.
THEOREM TerminalStays == Spec => TerminalIsFinal
<1> DEFINE Stays == \A o \in Orders : row[o].status \in Terminal => row'[o].status = row[o].status
<1>1. Inv /\ [Next]_vars => [Stays]_vars
  <2> SUFFICES ASSUME Inv, [Next]_vars, NEW o \in Orders, row[o].status \in Terminal
               PROVE  row'[o].status = row[o].status
    OBVIOUS
  <2>1. HasRow(o) /\ ~Submitted(o) /\ sent[o] = "none" /\ Claims(o)
    BY DEF Terminal, HasRow, Submitted, Inv, RowsPlaced, StatusTrue
  <2>2. CASE UNCHANGED row
    BY <2>2
  <2>3. ASSUME NEW p \in Orders, InsertRow(p) PROVE row'[o].status = row[o].status
    BY <2>1, <2>3 DEF InsertRow, Inv, Typed
  <2>4. ASSUME NEW p \in Orders, MarkCanceled(p) PROVE row'[o].status = row[o].status
    <3>1. CASE p = o
      <4>1. row[o].status = "canceled"
        BY <2>1, <2>4, <3>1 DEF MarkCanceled, Inv, CancelsTrue, Claims, Terminal
      <4> QED
        BY <2>4, <3>1, <4>1 DEF MarkCanceled, Write, Inv, Typed
    <3>2. CASE p # o
      BY <2>4, <3>2 DEF MarkCanceled, Write, Inv, Typed
    <3> QED
      BY <3>1, <3>2
  <2>5. ASSUME StoreStatus PROVE row'[o].status = row[o].status
    <3>1. \/ UNCHANGED row
          \/ /\ Movable(hand.msg.o)
             /\ row' = [row EXCEPT ![hand.msg.o] = [status |-> Normalized(hand.msg.state), listed |-> FALSE]]
      BY <2>5 DEF StoreStatus, Write
    <3> QED
      BY <3>1 DEF Movable, Inv, Typed
  <2>6. ASSUME NEW r \in Reconcilers, UpdateRow(r) PROVE row'[o].status = row[o].status
    BY <2>1, <2>6 DEF UpdateRow, Write, Inv, Typed
  <2>7. ASSUME NEW r \in Reconcilers, PatchRest(r) PROVE row'[o].status = row[o].status
    BY <2>1, <2>7 DEF PatchRest
  <2>8. CASE Next
    <3>1. VenueStep => UNCHANGED row
      BY DEF VenueStep, Trade, EndAlone, End, Place, tableVars
    <3>2. RouteStep => UNCHANGED row \/ \E p \in Orders : InsertRow(p) \/ MarkCanceled(p)
      BY DEF RouteStep, CancelAtVenue, End, tableVars
    <3>3. StreamStep \/ Disconnect \/ Crash => UNCHANGED row \/ StoreStatus
      BY DEF StreamStep, Connect, TakeMessage, StoreFill, Disconnect, Crash, tableVars
    <3>4. ASSUME NEW r \in Reconcilers, ReconcileStep(r)
          PROVE  UNCHANGED row \/ UpdateRow(r) \/ PatchRest(r)
      BY <3>4 DEF ReconcileStep, ReadOpen, ReadRows, ReadPairs, QueryOrder, EndQueries, tableVars
    <3> QED
      BY <2>2, <2>3, <2>4, <2>5, <2>6, <2>7, <2>8, <3>1, <3>2, <3>3, <3>4 DEF Next
  <2>9. CASE UNCHANGED vars
    BY <2>2, <2>9 DEF vars, tableVars
  <2> QED
    BY <2>8, <2>9
<1>2. Spec => [][Stays]_vars
  BY <1>1, InvHolds, PTL DEF Spec
<1> QED
  BY <1>2 DEF TerminalIsFinal

---------------------------------------------------------------------------
(* The rest of the types: what the table lists, and what was traded.      *)

\* An order that is open at the venue has trades left, and a fill in hand is a trade of an order.
Counted ==
  /\ \A o \in Orders : OpenAtVenue(o) => venue[o].trades < Units
  /\ hand.at = "fill" => hand.msg.o \in Orders /\ hand.msg.trade \in 1..Units

Whole == Inv /\ TypeOK /\ Counted

\* An UPDATE permutes the rows of the table, it adds none.
LEMMA TouchedTyped ==
  ASSUME recent \in Seq(Orders), NEW os
  PROVE  Touched(os) \subseteq Seq(Orders)
<1>1. DOMAIN recent = 1..Len(recent) /\ Len(recent) \in Nat
  BY LenProperties
<1>2. [1..Len(recent) -> Orders] \subseteq Seq(Orders)
  BY <1>1, SeqDef
<1> QED
  BY <1>1, <1>2 DEF Touched

LEMMA RecentTyped ==
  ASSUME Whole, Next
  PROVE  recent' \in Seq(Orders)
<1>1. recent \in Seq(Orders)
  BY DEF Whole, TypeOK
<1>2. \A o \in Orders : <<o>> \o recent \in Seq(Orders)
  BY <1>1
<1>3. \A os : Touched(os) \subseteq Seq(Orders)
  BY <1>1, TouchedTyped
<1>4. \A o, status, listed : Write(o, status, listed) => recent' \in Seq(Orders)
  BY <1>3 DEF Write
<1>5. CASE VenueStep
  BY <1>1, <1>5 DEF VenueStep, Trade, EndAlone, End, Place, tableVars
<1>6. ASSUME NEW o \in Orders, InsertRow(o) \/ CancelAtVenue(o) \/ MarkCanceled(o)
      PROVE  recent' \in Seq(Orders)
  BY <1>1, <1>2, <1>4, <1>6 DEF InsertRow, CancelAtVenue, End, MarkCanceled, tableVars
<1>7. CASE StreamStep \/ Disconnect \/ Crash
  BY <1>1, <1>4, <1>7 DEF StreamStep, Connect, TakeMessage, StoreFill, StoreStatus, Disconnect, Crash,
       tableVars
<1>8. ASSUME NEW r \in Reconcilers, ReconcileStep(r)
      PROVE  recent' \in Seq(Orders)
  <2>1. UNCHANGED recent \/ UpdateRow(r) \/ PatchRest(r)
    BY <1>8 DEF ReconcileStep, ReadOpen, ReadRows, ReadPairs, QueryOrder, EndQueries, tableVars
  <2>2. UpdateRow(r) => recent' \in Seq(Orders)
    BY <1>1, <1>4 DEF UpdateRow
  <2>3. PatchRest(r) => recent' \in Seq(Orders)
    BY <1>1, <1>3 DEF PatchRest
  <2> QED
    BY <1>1, <2>1, <2>2, <2>3
<1> QED
  BY <1>5, <1>6, <1>7, <1>8 DEF Next, RouteStep

\* What the venue tells of trades up to the last one it may have.
LEMMA TradesTyped ==
  ASSUME NEW o \in Orders, NEW from \in Nat, NEW to \in 0..Units, from <= to
  PROVE  Trades(o, from, to) \in Seq(Messages)
<1>1. to - from \in Nat /\ to \in Nat
  BY BoundsAssumption
<1>2. ASSUME NEW i \in 1..(to - from)
      PROVE  Message(o, StateAfter(from + i), from + i) \in Messages
  <2>1. from + i \in 0..Units
    BY <1>1, BoundsAssumption
  <2>2. StateAfter(from + i) \in VenueStates
    BY DEF StateAfter, VenueStates, VenueOpen, VenueEnds
  <2> QED
    BY <2>1, <2>2 DEF Message, Messages
<1>3. Trades(o, from, to) \in [1..(to - from) -> Messages]
  BY <1>2 DEF Trades
<1> QED
  BY <1>1, <1>3, SeqDef

LEMMA ToldTyped ==
  ASSUME Whole, NEW msgs \in Seq(Messages), Told(msgs)
  PROVE  wire' \in Seq(Messages) /\ Len(wire') <= MaxWire
<1>1. wire \in Seq(Messages) /\ Len(wire) <= MaxWire
  BY DEF Whole, TypeOK
<1>2. CASE UNCHANGED wire
  BY <1>1, <1>2
<1>3. CASE Len(wire) + Len(msgs) <= MaxWire /\ wire' = wire \o msgs
  BY <1>1, <1>3, ConcatProperties
<1> QED
  BY <1>2, <1>3 DEF Told

\* A step of the venue, with what it tells.
LEMMA VenueCounts ==
  ASSUME Whole, NEW o \in Orders,
         \/ Trade(o) \/ \E n \in 0..Units : Place(o, n)
         \/ \E state \in VenueEnds : End(o, state)
  PROVE  /\ venue' \in [Orders -> [state : VenueStates \cup {"none"}, trades : 0..Units]]
         /\ \A p \in Orders : OpenAtVenue(p)' => venue'[p].trades < Units
         /\ wire' \in Seq(Messages) /\ Len(wire') <= MaxWire
<1> DEFINE Orderly(v) == /\ v \in [state : VenueStates \cup {"none"}, trades : 0..Units]
                         /\ v.state \in VenueOpen => v.trades < Units
<1>1. venue \in [Orders -> [state : VenueStates \cup {"none"}, trades : 0..Units]]
  BY DEF Whole, TypeOK
<1>2. \A p \in Orders : Orderly(venue[p])
  BY <1>1 DEF Whole, Counted, OpenAtVenue
<1>3. ASSUME NEW n \in 0..Units PROVE Orderly([state |-> StateAfter(n), trades |-> n])
  BY <1>3, BoundsAssumption DEF StateAfter, VenueStates, VenueOpen, VenueEnds
<1> HIDE DEF Orderly
<1>4. \E v, msgs : Orderly(v) /\ msgs \in Seq(Messages) /\ venue' = [venue EXCEPT ![o] = v] /\ Told(msgs)
  <2>1. CASE Trade(o)
    <3> DEFINE n == venue[o].trades
    <3>1. n \in Nat /\ n + 1 \in 0..Units
      BY <1>1, <2>1, BoundsAssumption DEF Trade, Whole, Counted
    <3>2. venue' = [venue EXCEPT ![o] = [state |-> StateAfter(n + 1), trades |-> n + 1]]
      BY <1>1, <2>1 DEF Trade
    <3>3. Told(Trades(o, n, n + 1)) /\ Trades(o, n, n + 1) \in Seq(Messages)
      BY <2>1, <3>1, TradesTyped DEF Trade
    <3> QED
      BY <1>3, <3>1, <3>2, <3>3
  <2>2. ASSUME NEW n \in 0..Units, Place(o, n)
        PROVE  \E v, msgs : /\ Orderly(v) /\ msgs \in Seq(Messages)
                            /\ venue' = [venue EXCEPT ![o] = v] /\ Told(msgs)
    <3>1. n \in Nat
      BY BoundsAssumption
    <3>2. Trades(o, 0, n) \in Seq(Messages)
      BY <3>1, TradesTyped
    <3>3. <<Message(o, "NEW", 0)>> \in Seq(Messages)
      BY BoundsAssumption DEF Message, Messages, VenueStates, VenueOpen
    <3>4. <<Message(o, "NEW", 0)>> \o Trades(o, 0, n) \in Seq(Messages)
      BY <3>2, <3>3, ConcatProperties
    <3> QED
      BY <1>3, <2>2, <3>4 DEF Place
  <2>3. ASSUME NEW state \in VenueEnds, End(o, state)
        PROVE  \E v, msgs : /\ Orderly(v) /\ msgs \in Seq(Messages)
                            /\ venue' = [venue EXCEPT ![o] = v] /\ Told(msgs)
    <3> DEFINE v == [venue[o] EXCEPT !.state = state]
    <3>1. Orderly(v)
      BY <1>1, <2>3 DEF Orderly, VenueStates, VenueOpen, VenueEnds
    <3>2. <<Message(o, state, 0)>> \in Seq(Messages)
      BY <2>3, BoundsAssumption DEF Message, Messages, VenueStates
    <3>3. venue' = [venue EXCEPT ![o] = v] /\ Told(<<Message(o, state, 0)>>)
      BY <2>3 DEF End
    <3> QED
      BY <3>1, <3>2, <3>3
  <2> QED
    BY <2>1, <2>2, <2>3
<1>5. PICK v, msgs : Orderly(v) /\ msgs \in Seq(Messages) /\ venue' = [venue EXCEPT ![o] = v] /\ Told(msgs)
  BY <1>4
<1>6. \A p \in Orders : Orderly(venue'[p])
  BY <1>1, <1>2, <1>5
<1>7. \A p \in Orders : OpenAtVenue(p)' => venue'[p].trades < Units
  BY <1>6 DEF Orderly, OpenAtVenue
<1>8. venue' \in [Orders -> [state : VenueStates \cup {"none"}, trades : 0..Units]]
  BY <1>1, <1>5 DEF Orderly
<1> QED
  BY <1>5, <1>7, <1>8, ToldTyped

\* Whoever takes a message, the wire only loses it; what is in hand was on the wire.
LEMMA StreamCounts ==
  ASSUME Whole, StreamStep \/ Disconnect \/ Crash
  PROVE  /\ wire' \in Seq(Messages) /\ Len(wire') <= MaxWire
         /\ hand' \in [at : {"none", "fill", "status"}, msg : Messages \cup {Nothing}]
         /\ hand'.at = "fill" => hand'.msg.o \in Orders /\ hand'.msg.trade \in 1..Units
         /\ fills' \in SUBSET (Orders \X (1..Units))
<1>1. /\ wire \in Seq(Messages) /\ Len(wire) <= MaxWire
      /\ hand \in [at : {"none", "fill", "status"}, msg : Messages \cup {Nothing}]
      /\ fills \in SUBSET (Orders \X (1..Units))
  BY DEF Whole, TypeOK
<1>2. <<>> \in Seq(Messages) /\ Len(<<>>) <= MaxWire
  BY BoundsAssumption
<1>3. Idle \in [at : {"none", "fill", "status"}, msg : Messages \cup {Nothing}] /\ Idle.at # "fill"
  BY DEF Idle
<1>4. CASE TakeMessage
  <2> DEFINE m == Head(wire)
  <2>1. /\ wire # <<>> /\ wire' = Tail(wire) /\ fills' = fills
        /\ hand' = [at |-> IF m.trade > 0 /\ HasRow(m.o) THEN "fill" ELSE "status", msg |-> m]
    BY <1>4 DEF TakeMessage, tableVars
  <2>2. m \in Messages /\ wire' \in Seq(Messages) /\ Len(wire') = Len(wire) - 1 /\ Len(wire) \in Nat
    BY <1>1, <2>1, HeadTailProperties, LenProperties
  <2>3. m.trade > 0 => m.trade \in 1..Units
    BY <2>2, BoundsAssumption DEF Messages
  <2>4. m.o \in Orders
    BY <2>2 DEF Messages
  <2>5. hand'.msg = m /\ hand'.at \in {"fill", "status"} /\ (hand'.at = "fill" => m.trade > 0)
    BY <2>1
  <2>6. hand' \in [at : {"none", "fill", "status"}, msg : Messages \cup {Nothing}]
    BY <2>1, <2>2
  <2> QED
    BY <1>1, <2>1, <2>2, <2>3, <2>4, <2>5, <2>6, BoundsAssumption
<1>5. CASE StoreFill
  <2>1. /\ wire' = wire /\ hand.at = "fill" /\ hand' = [hand EXCEPT !.at = "status"]
        /\ fills' = fills \/ fills' = fills \cup {<<hand.msg.o, hand.msg.trade>>}
    BY <1>5 DEF StoreFill, venueVars
  <2>2. hand.msg.o \in Orders /\ hand.msg.trade \in 1..Units
    BY <2>1 DEF Whole, Counted
  <2> QED
    BY <1>1, <2>1, <2>2
<1>6. CASE StoreStatus
  BY <1>1, <1>3, <1>6 DEF StoreStatus, venueVars
<1>7. CASE Connect
  BY <1>1, <1>7 DEF Connect, Whole, Counted, venueVars, tableVars
<1>8. CASE Disconnect
  BY <1>1, <1>2, <1>8 DEF Disconnect, Whole, Counted, tableVars
<1>9. CASE Crash
  BY <1>1, <1>2, <1>3, <1>9 DEF Crash, tableVars
<1> QED
  BY <1>4, <1>5, <1>6, <1>7, <1>8, <1>9 DEF StreamStep

\* What only some steps touch.
LEMMA RestTyped ==
  ASSUME Whole, Next
  PROVE  dep' \in Deployments /\ up' \in BOOLEAN /\ faults' \in Nat
<1>1. dep \in Deployments /\ up \in BOOLEAN /\ faults \in Nat
  BY DEF Whole, TypeOK
<1>2. \A k : Fail(k) => faults' \in Nat
  BY <1>1 DEF Fail
<1>3. ASSUME NEW o \in Orders, \/ Trade(o) \/ EndAlone(o) \/ (\E n \in 0..Units : Place(o, n))
                               \/ InsertRow(o) \/ CancelAtVenue(o) \/ MarkCanceled(o)
      PROVE  UNCHANGED <<dep, up>> /\ faults' \in Nat
  BY <1>1, <1>2, <1>3 DEF Trade, EndAlone, Place, InsertRow, CancelAtVenue, MarkCanceled, End,
       streamVars
<1>4. CASE StreamStep \/ Disconnect \/ Crash
  BY <1>1, <1>2, <1>4 DEF StreamStep, Connect, TakeMessage, StoreFill, StoreStatus, Disconnect, Crash
<1>5. ASSUME NEW r \in Reconcilers, ReconcileStep(r)
      PROVE  UNCHANGED <<dep, up>> /\ faults' \in Nat
  BY <1>1, <1>2, <1>5 DEF ReconcileStep, ReadOpen, ReadRows, ReadPairs, QueryOrder, UpdateRow,
       EndQueries, PatchRest, streamVars
<1> QED
  BY <1>1, <1>3, <1>4, <1>5 DEF Next, VenueStep, RouteStep

VenueTyped ==
  /\ venue \in [Orders -> [state : VenueStates \cup {"none"}, trades : 0..Units]]
  /\ \A o \in Orders : OpenAtVenue(o) => venue[o].trades < Units
WireTyped == wire \in Seq(Messages) /\ Len(wire) <= MaxWire
HandTyped ==
  /\ hand \in [at : {"none", "fill", "status"}, msg : Messages \cup {Nothing}]
  /\ hand.at = "fill" => hand.msg.o \in Orders /\ hand.msg.trade \in 1..Units

LEMMA WholeStep == Whole /\ [Next]_vars => Whole'
<1> SUFFICES ASSUME Whole, [Next]_vars PROVE Whole'
  OBVIOUS
<1>1. Inv'
  BY StepKeeps DEF Whole
<1>2. /\ sent' \in [Orders -> {"none", "empty", "listed"}]
      /\ row' \in [Orders -> [status : Statuses \cup {"absent"}, listed : BOOLEAN]]
      /\ rec' \in [Reconcilers -> [at : {"idle", "list", "pairs", "query", "update", "patch"},
                                   remote : SUBSET Orders, ids : SUBSET Orders,
                                   todo : SUBSET Orders, resolved : SUBSET Orders,
                                   o : Orders \cup {NoOrder}, state : VenueStates,
                                   listed : BOOLEAN]]
      /\ cancels' \in SUBSET Orders /\ late' \in SUBSET Orders
  BY <1>1 DEF Inv, Typed, Ats
<1>3. CASE UNCHANGED vars
  BY <1>1, <1>3 DEF Whole, TypeOK, Counted, OpenAtVenue, vars, venueVars, tableVars, streamVars
<1>4. CASE Next
  <2>1. VenueTyped' /\ HandTyped' /\ WireTyped' /\ fills' \in SUBSET (Orders \X (1..Units))
    <3>1. VenueTyped /\ HandTyped /\ WireTyped /\ fills \in SUBSET (Orders \X (1..Units))
      BY DEF Whole, TypeOK, Counted, VenueTyped, HandTyped, WireTyped
    <3>2. ASSUME NEW o \in Orders, \/ Trade(o) \/ EndAlone(o) \/ CancelAtVenue(o)
                                   \/ \E n \in 0..Units : Place(o, n)
          PROVE  VenueTyped' /\ WireTyped' /\ UNCHANGED <<hand, fills>>
      <4>1. \/ Trade(o) \/ \E n \in 0..Units : Place(o, n)
            \/ \E state \in VenueEnds : End(o, state)
        BY <3>2 DEF EndAlone, CancelAtVenue, VenueEnds
      <4>2. UNCHANGED <<hand, fills>>
        BY <4>1 DEF Trade, Place, End, tableVars, streamVars
      <4> QED
        BY <4>1, <4>2, VenueCounts DEF VenueTyped, WireTyped
    <3>3. CASE StreamStep \/ Disconnect \/ Crash
      <4>1. UNCHANGED venue
        BY <3>3 DEF StreamStep, Connect, TakeMessage, StoreFill, StoreStatus, Disconnect, Crash,
             venueVars
      <4> QED
        BY <3>1, <3>3, <4>1, StreamCounts DEF VenueTyped, HandTyped, WireTyped, OpenAtVenue
    <3>4. ASSUME UNCHANGED <<venue, wire, hand, fills>>
          PROVE  VenueTyped' /\ HandTyped' /\ WireTyped' /\ fills' \in SUBSET (Orders \X (1..Units))
      BY <3>1, <3>4 DEF VenueTyped, HandTyped, WireTyped, OpenAtVenue
    <3>5. ASSUME NEW o \in Orders, InsertRow(o) \/ MarkCanceled(o)
          PROVE  UNCHANGED <<venue, wire, hand, fills>>
      BY <3>5 DEF InsertRow, MarkCanceled, venueVars, streamVars
    <3>6. ASSUME NEW r \in Reconcilers, ReconcileStep(r)
          PROVE  UNCHANGED <<venue, wire, hand, fills>>
      BY <3>6 DEF ReconcileStep, ReadOpen, ReadRows, ReadPairs, QueryOrder, UpdateRow, EndQueries,
           PatchRest, venueVars, tableVars, streamVars
    <3>7. ASSUME UNCHANGED <<hand, fills>>
          PROVE  HandTyped' /\ fills' \in SUBSET (Orders \X (1..Units))
      BY <3>1, <3>7 DEF HandTyped
    <3> QED
      BY <1>4, <3>2, <3>3, <3>4, <3>5, <3>6, <3>7 DEF Next, VenueStep, RouteStep
  <2> QED
    BY <1>1, <1>2, <1>4, <2>1, RecentTyped, RestTyped
    DEF Whole, TypeOK, Counted, VenueTyped, HandTyped, WireTyped
<1> QED
  BY <1>3, <1>4

\* Rows, messages, fills and reconcilers keep their types; in particular a fill that is stored
\* names an order and one of its trades.
THEOREM TypeCorrect == Spec => []TypeOK
<1>1. Init => Whole
  <2> SUFFICES ASSUME Init PROVE Whole
    OBVIOUS
  <2>1. Inv
    BY InitHolds
  <2>2. TypeOK
    <3>1. /\ row \in [Orders -> [status : Statuses \cup {"absent"}, listed : BOOLEAN]]
          /\ rec \in [Reconcilers -> [at : {"idle", "list", "pairs", "query", "update", "patch"},
                                      remote : SUBSET Orders, ids : SUBSET Orders,
                                      todo : SUBSET Orders, resolved : SUBSET Orders,
                                      o : Orders \cup {NoOrder}, state : VenueStates,
                                      listed : BOOLEAN]]
      BY <2>1 DEF Inv, Typed, Ats
    <3>2. /\ venue \in [Orders -> [state : VenueStates \cup {"none"}, trades : 0..Units]]
          /\ hand \in [at : {"none", "fill", "status"}, msg : Messages \cup {Nothing}]
          /\ wire \in Seq(Messages) /\ Len(wire) <= MaxWire /\ recent \in Seq(Orders)
      BY BoundsAssumption DEF Init, Idle
    <3> QED
      BY <3>1, <3>2 DEF Init, TypeOK
  <2> QED
    BY <2>1, <2>2 DEF Init, Whole, Counted, OpenAtVenue, VenueOpen, Idle
<1>2. Whole => TypeOK
  BY DEF Whole
<1> QED
  BY <1>1, <1>2, WholeStep, PTL DEF Spec
=============================================================================
