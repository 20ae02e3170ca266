------------------------------- MODULE OrdersDb -------------------------------
(***************************************************************************)
(* The orders in the database (db_handler).  One process listens to the    *)
(* events of every exchange and writes what it hears: an order sent to an  *)
(* exchange is inserted, an order reported by the API or by the            *)
(* authenticated websocket is merged into the rows that have its id or its *)
(* exchange id, and inserted when there is none.  The table has no key     *)
(* (OrderModel), and pub/sub keeps nothing for a handler that is down.     *)
(*                                                                         *)
(* Around the handler: the trigger that sends an order once, the exchange  *)
(* API whose answer is saved whenever it comes, and the websocket, whose   *)
(* reports of one order are in the exchange's order.  An exchange that     *)
(* does not echo the client's id reports the order under an id built from  *)
(* its own: `own' says whether an event or a row has the trigger's id.     *)
(***************************************************************************)
EXTENDS Integers, Sequences, FiniteSetsExt, OrderMerge

CONSTANTS
  Orders,        \* the orders of the triggers
  Size,          \* how often an order can be filled
  MaxRestarts    \* bound: restarts of the handler

OrdersDbAssumption ==
  Size \in Nat \ {0} /\ MaxRestarts \in Nat

VARIABLES
  echoed,     \* the orders whose exchange echoes the client's id: a fact, not a state
  rows,       \* the table orders, in the order of insertion
  trades,     \* trades[o]: the rows of trades_exec for the fills of o
  handlerUp, restarts,
  stream,     \* the events on their way to the handler
  api,        \* api[o]: "idle", "creating" or "answered"
  exchange,   \* exchange[o]: "none", "open", "filled" or "canceled"
  fills,      \* fills[o]: how often the exchange filled o
  lost        \* history: the orders of which an event was lost

vars == <<echoed, rows, trades, handlerUp, restarts, stream, api, exchange, fills, lost>>
database == <<echoed, rows, trades>>

Row == [ord: Orders, own: BOOLEAN, eid: BOOLEAN, st: Status, filled: Nat]
Event == [kind: {"exchange", "update", "trade"}, ord: Orders, own: BOOLEAN,
          eid: BOOLEAN, st: Status, filled: Nat]

TypeOK ==
  /\ echoed \subseteq Orders
  /\ rows \in Seq(Row)
  /\ trades \in [Orders -> Nat]
  /\ handlerUp \in BOOLEAN /\ restarts \in 0..MaxRestarts
  /\ stream \in Seq(Event)
  /\ api \in [Orders -> {"idle", "creating", "answered"}]
  /\ exchange \in [Orders -> {"none", "open", "filled", "canceled"}]
  /\ fills \in [Orders -> 0..Size]
  /\ lost \subseteq Orders

Init ==
  /\ echoed \in SUBSET Orders
  /\ rows = <<>>
  /\ trades = [o \in Orders |-> 0]
  /\ handlerUp = TRUE /\ restarts = 0
  /\ stream = <<>>
  /\ api = [o \in Orders |-> "idle"]
  /\ exchange = [o \in Orders |-> "none"]
  /\ fills = [o \in Orders |-> 0]
  /\ lost = {}

-----------------------------------------------------------------------------
\* publish_event: whoever does not listen never hears of it.
Publish(events) ==
  IF handlerUp THEN stream' = stream \o events /\ UNCHANGED lost
  ELSE lost' = lost \cup {events[i].ord : i \in DOMAIN events} /\ UNCHANGED stream

\* fire_order
FireOrder(o) ==
  /\ api[o] = "idle"
  /\ api' = [api EXCEPT ![o] = "creating"]
  /\ Publish(<<[kind |-> "exchange", ord |-> o, own |-> TRUE, eid |-> FALSE,
                st |-> "new", filled |-> 0]>>)
  /\ UNCHANGED <<database, handlerUp, restarts, exchange, fills>>

\* What the websocket publishes of an order: on_order_info_cb.
Report(o, st, filled) ==
  [kind |-> "update", ord |-> o, own |-> o \in echoed, eid |-> TRUE,
   st |-> st, filled |-> filled]

\* on_fills_cb; the row of a fill needs no more than its order.
FillEvent(o) == [Report(o, "partial", 1) EXCEPT !.kind = "trade"]

\* The exchange takes an order the API is creating, ...
Accept(o) ==
  /\ api[o] = "creating" /\ exchange[o] = "none"
  /\ exchange' = [exchange EXCEPT ![o] = "open"]
  /\ Publish(<<Report(o, "open", 0)>>)
  /\ UNCHANGED <<database, handlerUp, restarts, api, fills>>

\* ... fills it, reporting the fill and the order in either order, ...
Fill(o) ==
  /\ exchange[o] = "open"
  /\ fills' = [fills EXCEPT ![o] = @ + 1]
  /\ exchange' = [exchange EXCEPT ![o] = IF fills'[o] = Size THEN "filled" ELSE @]
  /\ LET report == Report(o, IF fills'[o] = Size THEN "filled" ELSE "partial", fills'[o])
     IN \/ Publish(<<FillEvent(o), report>>)
        \/ Publish(<<report, FillEvent(o)>>)
  /\ UNCHANGED <<database, handlerUp, restarts, api>>

\* ... and cancels it.
Cancel(o) ==
  /\ exchange[o] = "open"
  /\ exchange' = [exchange EXCEPT ![o] = "canceled"]
  /\ Publish(<<Report(o, "canceled", fills[o])>>)
  /\ UNCHANGED <<database, handlerUp, restarts, api, fills>>

\* create_order returns what the exchange had when it took the order, or raises:
\* refused, or too late.  Either way the order is saved.
Answer(o) ==
  /\ api[o] = "creating"
  /\ api' = [api EXCEPT ![o] = "answered"]
  /\ \/ /\ exchange[o] # "none"
        /\ Publish(<<[Report(o, "open", 0) EXCEPT !.own = TRUE]>>)
     \/ Publish(<<[Report(o, "rejected", 0) EXCEPT !.own = TRUE, !.eid = FALSE]>>)
  /\ UNCHANGED <<database, handlerUp, restarts, exchange, fills>>

-----------------------------------------------------------------------------
\* create_or_update_order: the rows with the id or the exchange id of the order.
Matching(e) ==
  {i \in DOMAIN rows : /\ rows[i].ord = e.ord
                       /\ rows[i].own = e.own \/ (rows[i].eid /\ e.eid)}

\* Mutant: the quantity of the event replaces that of the row.
UpdatedFilled(row, seen, e) ==
  [row EXCEPT !.eid = e.eid, !.filled = e.filled,
              !.st = IF Rank[e.st] >= Rank[seen.st] THEN e.st ELSE seen.st]

\* Mutant: the status does.
UpdatedStatus(row, seen, e) ==
  [row EXCEPT !.eid = e.eid, !.st = e.st,
              !.filled = IF e.filled > seen.filled THEN e.filled ELSE seen.filled]

\* Every matching row gets the later status and the larger fill of the event and
\* the one row that was read, and the exchange id of the event, though it be None.
Updated(row, seen, e) ==
  [row EXCEPT !.eid = e.eid,
              !.st = IF Rank[e.st] >= Rank[seen.st] THEN e.st ELSE seen.st,
              !.filled = IF e.filled > seen.filled THEN e.filled ELSE seen.filled]

Inserted(e) == Append(rows, [ord |-> e.ord, own |-> e.own, eid |-> e.eid,
                             st |-> e.st, filled |-> e.filled])

\* get_or_none reads whichever of the matching rows comes first.
CreateOrUpdate(e) ==
  IF Matching(e) = {} THEN rows' = Inserted(e)
  ELSE \E seen \in Matching(e) :
         rows' = [i \in DOMAIN rows |->
                    IF i \in Matching(e) THEN Updated(rows[i], rows[seen], e) ELSE rows[i]]

\* The handler's loop: one event at a time.
Handle ==
  /\ handlerUp /\ stream # <<>>
  /\ UNCHANGED echoed
  /\ LET e == Head(stream)
     IN /\ stream' = Tail(stream)
        /\ \/ e.kind = "exchange" /\ rows' = Inserted(e) /\ UNCHANGED trades
           \/ e.kind = "update" /\ CreateOrUpdate(e) /\ UNCHANGED trades
           \/ /\ e.kind = "trade"
              /\ trades' = [trades EXCEPT ![e.ord] = @ + e.filled]
              /\ UNCHANGED rows
  /\ UNCHANGED <<handlerUp, restarts, api, exchange, fills, lost>>

\* The handler dies with what it had not read, and is started again.
Crash ==
  /\ handlerUp /\ restarts < MaxRestarts
  /\ handlerUp' = FALSE
  /\ lost' = lost \cup {stream[i].ord : i \in DOMAIN stream}
  /\ stream' = <<>>
  /\ UNCHANGED <<database, restarts, api, exchange, fills>>

Restart ==
  /\ ~handlerUp
  /\ handlerUp' = TRUE /\ restarts' = restarts + 1
  /\ UNCHANGED <<database, stream, api, exchange, fills, lost>>

Next ==
  \/ \E o \in Orders : FireOrder(o) \/ Accept(o) \/ Fill(o) \/ Cancel(o) \/ Answer(o)
  \/ Handle \/ Crash \/ Restart

Spec == Init /\ [][Next]_vars

-----------------------------------------------------------------------------
RowsOf(o) == {i \in DOMAIN rows : rows[i].ord = o}

\* An order of an exchange that echoes the client's id has one row at most: the insert
\* of fire_order is handled before any report of the order, and each report finds the
\* row, also when the handler missed the insert. And with no event lost or in flight its
\* quantity filled is what its executions add up to, in whatever order the answer of
\* create_order, the reports and the fills came.
RowsReconcile ==
  \A o \in echoed :
    /\ \A i, j \in RowsOf(o) : i = j
    /\ o \notin lost /\ (\A k \in DOMAIN stream : stream[k].ord # o) =>
         \A i \in RowsOf(o) : rows[i].filled = trades[o]

\* A row that says the order is over never says otherwise again: an
\* acknowledgement handled after the fill or the cancel does not reopen it.
OverStaysOver ==
  [][\A i \in DOMAIN rows :
       /\ rows[i].ord \in echoed /\ rows[i].st \in FinalStatus
       => rows'[i].st \in FinalStatus]_rows
=============================================================================
