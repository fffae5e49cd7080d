---------------------------- MODULE OrderLedger ----------------------------
(***************************************************************************)
(* What exchange_orders and exchange_fills say of the orders of one user    *)
(* at the venue.                                                            *)
(*                                                                         *)
(* A row is inserted once the venue has answered.  From then on three       *)
(* writers work on it: the user stream (one message at a time: the fill,    *)
(* then the status), the reconcilers (the open orders, then the local rows, *)
(* then a query and an UPDATE per order, then one UPDATE for the rest) and  *)
(* the cancel route.  Every UPDATE is keyed by the order and guarded by the *)
(* status the row has by then.  Spot and futures run the same code on their *)
(* own rows; notifications and the reconcile report are left out.           *)
(***************************************************************************)
EXTENDS Naturals, Sequences, FiniteSets, Functions

CONSTANTS
  Orders,       \* orders that may be placed
  NoOrder,      \* "no order in hand"
  Units,        \* trades that fill an order
  MaxWire,      \* bound: messages of the stream not read yet
  Deployments   \* what a behaviour may start from:
                \*   orders  those that are placed
                \*   stream  whether the user stream runs
                \*   patch   reconcilers that write reconciled_not_open
                \*   refine  reconcilers that query the orders they miss
                \*   limit   LIMIT of list_for_user
                \*   most    refine_max_orders
                \*   kinds   kinds of failure that may happen
                \*   faults  bound: how many failures there are

\* The worker's loop, and POST /reconcile.
Reconcilers == {"worker", "http"}
FaultKinds == {"insert", "drop", "crash", "fill", "status", "query", "patch", "cancel"}

ASSUME OrdersAssumption == IsFiniteSet(Orders) /\ NoOrder \notin Orders
ASSUME BoundsAssumption == Units \in Nat \ {0} /\ MaxWire \in Nat
ASSUME DeploymentsAssumption ==
  Deployments \subseteq [orders : SUBSET Orders, stream : BOOLEAN,
                         patch : SUBSET Reconcilers, refine : SUBSET Reconcilers,
                         limit : Nat, most : Nat \ {0},
                         kinds : SUBSET FaultKinds, faults : Nat]

VARIABLES
  dep,
  venue,    \* an order at the venue
  wire,     \* messages of the user stream not read
  sent,     \* orders the venue has answered for and that have no row yet: executedQty > 0?
  row,      \* exchange_orders
  recent,   \* its rows by updated_at, the latest first
  fills,    \* exchange_fills
  up,       \* the user stream is connected
  hand,     \* the message it handles
  rec,      \* what a reconciler has in hand
  cancels,  \* orders the cancel route has cancelled at the venue and not marked
  late,     \* history: orders placed while a reconciler held its list of open orders
  faults

venueVars == <<venue, wire, late>>
tableVars == <<row, recent, fills>>
streamVars == <<up, hand>>
vars == <<dep, venueVars, sent, tableVars, streamVars, rec, cancels, faults>>

VenueOpen == {"NEW", "PARTIALLY_FILLED"}
VenueEnds == {"FILLED", "CANCELED", "EXPIRED", "EXPIRED_IN_MATCH"}
VenueStates == VenueOpen \cup VenueEnds
Terminal == {"filled", "canceled", "expired"}
Statuses == {"submitted", "open", "partially_filled", "reconciled_not_open"} \cup Terminal

Message(o, state, trade) == [o |-> o, state |-> state, trade |-> trade]
Messages == [o : Orders, state : VenueStates, trade : 0..Units]
Nothing == [o |-> NoOrder, state |-> "NEW", trade |-> 0]

Absent == [status |-> "absent", listed |-> FALSE]
NoWork == [at |-> "idle", remote |-> {}, ids |-> {}, todo |-> {}, resolved |-> {},
           o |-> NoOrder, state |-> "NEW", listed |-> FALSE]

TypeOK ==
  /\ dep \in Deployments
  /\ venue \in [Orders -> [state : VenueStates \cup {"none"}, trades : 0..Units]]
  /\ wire \in Seq(Messages) /\ Len(wire) <= MaxWire
  /\ sent \in [Orders -> {"none", "empty", "listed"}]
  /\ row \in [Orders -> [status : Statuses \cup {"absent"}, listed : BOOLEAN]]
  /\ recent \in Seq(Orders)
  /\ fills \in SUBSET (Orders \X (1..Units))
  /\ up \in BOOLEAN
  /\ hand \in [at : {"none", "fill", "status"}, msg : Messages \cup {Nothing}]
  /\ rec \in [Reconcilers -> [at : {"idle", "list", "pairs", "query", "update", "patch"},
                              remote : SUBSET Orders, ids : SUBSET Orders,
                              todo : SUBSET Orders, resolved : SUBSET Orders,
                              o : Orders \cup {NoOrder}, state : VenueStates,
                              listed : BOOLEAN]]
  /\ cancels \in SUBSET Orders /\ late \in SUBSET Orders
  /\ faults \in Nat

Idle == [at |-> "none", msg |-> Nothing]
Init ==
  /\ dep \in Deployments
  /\ venue = [o \in Orders |-> [state |-> "none", trades |-> 0]]
  /\ wire = <<>>
  /\ sent = [o \in Orders |-> "none"]
  /\ row = [o \in Orders |-> Absent]
  /\ recent = <<>> /\ fills = {}
  /\ up = FALSE /\ hand = Idle
  /\ rec = [r \in Reconcilers |-> NoWork]
  /\ cancels = {} /\ late = {}
  /\ faults = 0

---------------------------------------------------------------------------
(* What is read and written.                                              *)

Fail(k) == k \in dep.kinds /\ faults < dep.faults /\ faults' = faults + 1

OpenAtVenue(o) == venue[o].state \in VenueOpen
Ended(o) == venue[o].state \in VenueEnds
HasRow(o) == row[o].status # "absent"

\* normalize_binance_order_status
Normalized(state) ==
  CASE state = "PARTIALLY_FILLED" -> "partially_filled"
    [] state = "FILLED"           -> "filled"
    [] state = "CANCELED"         -> "canceled"
    [] state = "EXPIRED"          -> "expired"
    [] OTHER                      -> "open"

\* exchange_order_status_from_binance_json
AnsweredExact(state) ==
  CASE state = "PARTIALLY_FILLED" -> "partially_filled"
    [] state = "FILLED"           -> "filled"
    [] state \in {"CANCELED", "EXPIRED"} -> "canceled"
    [] OTHER                      -> "none"
Answered(state) ==
  CASE state = "PARTIALLY_FILLED" -> "partially_filled"
    [] state = "FILLED"           -> "filled"
    [] state \in VenueEnds \ {"FILLED"} -> "canceled"
    [] OTHER                      -> "none"

\* ORDER BY updated_at DESC after os were written at one now(): os first, in any order among
\* themselves, and the others as they were.
Touched(os) ==
  {q \in [DOMAIN recent -> Orders] :
     /\ Range(q) = Range(recent)
     /\ \A i, j \in DOMAIN q : i < j /\ q[j] \in os => q[i] \in os
     /\ \A i, j \in DOMAIN q : i < j /\ recent[i] \notin os /\ recent[j] \notin os
          => \E k, l \in DOMAIN q : k < l /\ q[k] = recent[i] /\ q[l] = recent[j]}

\* UPDATE ... SET status, venue_response, updated_at = now(); listed is what
\* list_recent_filled_orders_* looks for in venue_response.
Write(o, status, listed) ==
  /\ row' = [row EXCEPT ![o] = [status |-> status, listed |-> listed]]
  /\ recent' \in Touched({o})

\* The venue tells the stream, when one is connected.
Told(msgs) == IF up THEN Len(wire) + Len(msgs) <= MaxWire /\ wire' = wire \o msgs
                    ELSE UNCHANGED wire

---------------------------------------------------------------------------
(* The venue, and the routes that place and cancel.                       *)

\* The venue accepts an order and may fill some of it at once.
StateAfter(n) == IF n = 0 THEN "NEW" ELSE IF n < Units THEN "PARTIALLY_FILLED" ELSE "FILLED"
Trades(o, from, to) == [i \in 1..(to - from) |-> Message(o, StateAfter(from + i), from + i)]
Place(o, n) ==
  /\ o \in dep.orders /\ venue[o].state = "none"
  /\ venue' = [venue EXCEPT ![o] = [state |-> StateAfter(n), trades |-> n]]
  /\ sent' = [sent EXCEPT ![o] = IF n > 0 THEN "listed" ELSE "empty"]
  /\ late' = IF \E r \in Reconcilers : rec[r].at # "idle" THEN late \cup {o} ELSE late
  /\ Told(<<Message(o, "NEW", 0)>> \o Trades(o, 0, n))
  /\ UNCHANGED <<dep, tableVars, streamVars, rec, cancels, faults>>

\* insert_submitted, with the answer as venue_response; when it fails there is no row.
InsertRow(o) ==
  /\ sent[o] # "none"
  /\ \/ /\ row' = [row EXCEPT ![o] = [status |-> "submitted", listed |-> sent[o] = "listed"]]
        /\ recent' = <<o>> \o recent
        /\ UNCHANGED faults
     \/ Fail("insert") /\ UNCHANGED <<row, recent>>
  /\ sent' = [sent EXCEPT ![o] = "none"]
  /\ UNCHANGED <<dep, venueVars, fills, streamVars, rec, cancels>>

\* The order trades.
Trade(o) ==
  /\ OpenAtVenue(o)
  /\ venue' = [venue EXCEPT ![o] = [state |-> StateAfter(@.trades + 1), trades |-> @.trades + 1]]
  /\ Told(Trades(o, venue[o].trades, venue[o].trades + 1))
  /\ UNCHANGED <<dep, late, sent, tableVars, streamVars, rec, cancels, faults>>

\* The order ends without the rest of its trades.
End(o, state) ==
  /\ OpenAtVenue(o)
  /\ venue' = [venue EXCEPT ![o].state = state]
  /\ Told(<<Message(o, state, 0)>>)
  /\ UNCHANGED <<dep, late, sent, tableVars, streamVars, rec, faults>>
EndAlone(o) ==
  /\ \E state \in VenueEnds \ {"FILLED"} : End(o, state)
  /\ UNCHANGED cancels

\* cancel_order: the venue first, which refuses an order that has ended.
CancelAtVenue(o) ==
  /\ HasRow(o) /\ o \notin cancels
  /\ End(o, "CANCELED")
  /\ cancels' = cancels \cup {o}

\* Then mark_canceled, whatever the row says.
MarkCanceled(o) ==
  /\ o \in cancels
  /\ \/ /\ IF HasRow(o) THEN Write(o, "canceled", row[o].listed) ELSE UNCHANGED <<row, recent>>
        /\ UNCHANGED faults
     \/ Fail("cancel") /\ UNCHANGED <<row, recent>>
  /\ cancels' = cancels \ {o}
  /\ UNCHANGED <<dep, venueVars, sent, fills, streamVars, rec>>

---------------------------------------------------------------------------
(* The user stream of the worker.                                         *)

Connect ==
  /\ dep.stream /\ ~up
  /\ up' = TRUE
  /\ UNCHANGED <<dep, venueVars, sent, tableVars, hand, rec, cancels, faults>>

\* Read error, close or failed keepalive, noticed between two messages: what was not
\* read is lost, and nothing asks for it again.
Disconnect ==
  /\ up /\ hand = Idle
  /\ Fail("drop")
  /\ up' = FALSE /\ wire' = <<>>
  /\ UNCHANGED <<dep, venue, late, sent, tableVars, hand, rec, cancels>>

\* A message, and fetch_org_id_for_venue_order when it carries a trade: an order that
\* has no row by then gets no fill.
TakeMessage ==
  /\ hand = Idle /\ wire # <<>>
  /\ LET m == Head(wire)
     IN  hand' = [at |-> IF m.trade > 0 /\ HasRow(m.o) THEN "fill" ELSE "status", msg |-> m]
  /\ wire' = Tail(wire)
  /\ UNCHANGED <<dep, venue, late, sent, tableVars, up, rec, cancels, faults>>

\* insert_if_absent, keyed by the trade; its error is dropped.
StoreFill ==
  /\ hand.at = "fill"
  /\ \/ fills' = fills \cup {<<hand.msg.o, hand.msg.trade>>} /\ UNCHANGED faults
     \/ Fail("fill") /\ UNCHANGED fills
  /\ hand' = [hand EXCEPT !.at = "status"]
  /\ UNCHANGED <<dep, venueVars, sent, row, recent, up, rec, cancels>>

\* update_status_and_venue_response_if_not_terminal: the message becomes venue_response.
MovableAlways(o) == HasRow(o)
Movable(o) == HasRow(o) /\ row[o].status \notin Terminal
StoreStatus ==
  /\ hand.at = "status"
  /\ \/ /\ IF Movable(hand.msg.o) THEN Write(hand.msg.o, Normalized(hand.msg.state), FALSE)
                                  ELSE UNCHANGED <<row, recent>>
        /\ UNCHANGED faults
     \/ Fail("status") /\ UNCHANGED <<row, recent>>
  /\ hand' = Idle
  /\ UNCHANGED <<dep, venueVars, sent, fills, up, rec, cancels>>

---------------------------------------------------------------------------
(* A reconciler.                                                          *)

\* The open orders of the venue.
ReadOpen(r) ==
  /\ r \in dep.patch \cup dep.refine /\ rec[r].at = "idle"
  /\ rec' = [rec EXCEPT ![r] = [NoWork EXCEPT !.at = "list", !.remote = {o \in Orders : OpenAtVenue(o)}]]
  /\ UNCHANGED <<dep, venueVars, sent, tableVars, streamVars, cancels, faults>>

\* list_for_user, then venue_order_ids_submitted_not_on_open_list.
Submitted(o) == row[o].status = "submitted"
Listed == {o \in Orders : \E i \in DOMAIN recent : i <= dep.limit /\ recent[i] = o}
MissingAny(r) == {o \in Listed : Submitted(o)}
Missing(r) == {o \in Listed : Submitted(o) /\ o \notin rec[r].remote}
ReadRows(r) ==
  /\ rec[r].at = "list"
  /\ rec' = [rec EXCEPT ![r] =
       IF Missing(r) = {} THEN NoWork
       ELSE [@ EXCEPT !.at = IF r \in dep.refine THEN "pairs" ELSE "patch", !.ids = Missing(r)]]
  /\ UNCHANGED <<dep, venueVars, sent, tableVars, streamVars, cancels, faults>>

\* list_submitted_venue_symbol_pairs, in no order, then take(refine_max_orders); an error
\* ends the whole patch.
ReadPairs(r) ==
  /\ rec[r].at = "pairs"
  /\ \/ \E os \in SUBSET {o \in rec[r].ids : Submitted(o)} :
          /\ \/ Cardinality(os) = dep.most
             \/ Cardinality(os) < dep.most /\ os = {o \in rec[r].ids : Submitted(o)}
          /\ rec' = [rec EXCEPT ![r].at = "query", ![r].todo = os]
          /\ UNCHANGED faults
     \/ Fail("patch") /\ rec' = [rec EXCEPT ![r] = NoWork]
  /\ UNCHANGED <<dep, venueVars, sent, tableVars, streamVars, cancels>>

\* GET order: an answer that names no status, or an error, leaves the row to the last
\* step.
QueryOrder(r, o) ==
  /\ rec[r].at = "query" /\ o \in rec[r].todo
  /\ LET rest == [rec[r] EXCEPT !.todo = @ \ {o}]
     IN  \/ /\ rec' = [rec EXCEPT ![r] =
                 IF Answered(venue[o].state) = "none" THEN rest
                 ELSE [rest EXCEPT !.at = "update", !.o = o, !.state = venue[o].state,
                                   !.listed = venue[o].trades > 0]]
            /\ UNCHANGED faults
         \/ Fail("query") /\ rec' = [rec EXCEPT ![r] = rest]
  /\ UNCHANGED <<dep, venueVars, sent, tableVars, streamVars, cancels>>

\* update_submitted_status_and_venue_response; an error ends the whole patch.
UpdateRow(r) ==
  /\ rec[r].at = "update"
  /\ LET o == rec[r].o
         done == [rec[r] EXCEPT !.at = "query", !.o = NoOrder, !.state = "NEW", !.listed = FALSE]
     IN  \/ /\ IF Submitted(o)
                  THEN /\ Write(o, Answered(rec[r].state), rec[r].listed)
                       /\ rec' = [rec EXCEPT ![r] = [done EXCEPT !.resolved = @ \cup {o}]]
                  ELSE /\ rec' = [rec EXCEPT ![r] = done]
                       /\ UNCHANGED <<row, recent>>
            /\ UNCHANGED faults
         \/ Fail("patch") /\ rec' = [rec EXCEPT ![r] = NoWork] /\ UNCHANGED <<row, recent>>
  /\ UNCHANGED <<dep, venueVars, sent, fills, streamVars, cancels>>

EndQueries(r) ==
  /\ rec[r].at = "query" /\ rec[r].todo = {}
  /\ rec' = [rec EXCEPT ![r] = IF r \in dep.patch THEN [@ EXCEPT !.at = "patch"] ELSE NoWork]
  /\ UNCHANGED <<dep, venueVars, sent, tableVars, streamVars, cancels, faults>>

\* mark_submitted_reconciled_not_open_by_venue_ids, on what was not resolved.
PatchRest(r) ==
  /\ rec[r].at = "patch"
  /\ LET os == {o \in rec[r].ids \ rec[r].resolved : Submitted(o)}
     IN  \/ /\ row' = [o \in Orders |->
                 IF o \in os THEN [row[o] EXCEPT !.status = "reconciled_not_open"] ELSE row[o]]
            /\ recent' \in Touched(os)
            /\ UNCHANGED faults
         \/ Fail("patch") /\ UNCHANGED <<row, recent>>
  /\ rec' = [rec EXCEPT ![r] = NoWork]
  /\ UNCHANGED <<dep, venueVars, sent, fills, streamVars, cancels>>

\* The worker dies with its stream and its reconciler; the API runs on.
Crash ==
  /\ Fail("crash")
  /\ up' = FALSE /\ wire' = <<>> /\ hand' = Idle
  /\ rec' = [rec EXCEPT !["worker"] = NoWork]
  /\ UNCHANGED <<dep, venue, late, sent, tableVars, cancels>>

---------------------------------------------------------------------------
VenueStep ==
  \E o \in Orders : Trade(o) \/ EndAlone(o) \/ \E n \in 0..Units : Place(o, n)
RouteStep == \E o \in Orders : InsertRow(o) \/ CancelAtVenue(o) \/ MarkCanceled(o)
StreamStep == Connect \/ TakeMessage \/ StoreFill \/ StoreStatus
ReconcileStep(r) ==
  \/ ReadOpen(r) \/ ReadRows(r) \/ ReadPairs(r)
  \/ \E o \in Orders : QueryOrder(r, o)
  \/ UpdateRow(r) \/ EndQueries(r) \/ PatchRest(r)

Next ==
  \/ VenueStep \/ RouteStep \/ StreamStep \/ Disconnect
  \/ \E r \in Reconcilers : ReconcileStep(r)
  \/ Crash

Spec == Init /\ [][Next]_vars

\* The worker's loop goes on after every error; the route runs when somebody calls it.
FairSpec == Spec /\ WF_vars(ReconcileStep("worker"))

---------------------------------------------------------------------------
(* Properties.                                                            *)

\* What the row claims is so at the venue.
Claims(o) ==
  CASE row[o].status = "filled"   -> venue[o].state = "FILLED"
    [] row[o].status = "canceled" -> venue[o].state \in VenueEnds \ {"FILLED"}
    [] row[o].status = "expired"  -> venue[o].state = "EXPIRED"
    [] row[o].status = "reconciled_not_open" -> Ended(o) \/ o \in late
    [] OTHER -> TRUE

\* Every writer of exchange_orders: a row says filled, canceled or expired only of an
\* order that has ended so, and reconciled_not_open of an open order only when it was
\* placed while a reconciler was between the list of open orders and its last UPDATE.
StatusTrue == \A o \in Orders : Claims(o)

\* update_status_and_venue_response_if_not_terminal and its neighbours: whatever arrives
\* late or twice, and whoever else writes, a terminal status stays.
TerminalIsFinal ==
  [][\A o \in Orders : row[o].status \in Terminal => row'[o].status = row[o].status]_vars

\* binance_*_reconcile_loop: where the worker patches or queries, and lists all rows, a row
\* does not say submitted for ever of an order that has ended.
Served == "worker" \in dep.patch \cup dep.refine /\ dep.limit >= Cardinality(Orders)
SubmittedLeaves ==
  \A o \in Orders : (Served /\ Submitted(o) /\ Ended(o)) ~> ~Submitted(o)

\* list_recent_filled_orders_*: an order the table calls filled is among the fills that
\* the position manager, the copy-trade queue and the tactical executor read.
FilledIsListed == \A o \in Orders : row[o].status = "filled" => row[o].listed
=============================================================================
