------------------------- MODULE SpreadTriggerLiqWait -------------------------
(***************************************************************************)
(* The trigger SpreadTriggerLiqWait: it rests a first order on one leg,    *)
(* chases the market with it, and when it is executed rests and chases a   *)
(* hedge on the other leg.  What it acts on is what the websockets of the  *)
(* two exchanges publish: order, position and trade events, each leg in    *)
(* its own order, all of them later than the exchange.                     *)
(*                                                                         *)
(* Prices are left out: whether the spread is wide enough, the market has  *)
(* moved past the resting order and update_sec has elapsed are choices.    *)
(***************************************************************************)
EXTENDS Integers, Sequences

CONSTANTS
  FirstLeg,      \* the leg on the exchange config.first_exch
  OrderQty,      \* config.order_qty
  Start,         \* the positions held when the trigger starts
  MaxOrders,     \* bound: order objects the trigger builds
  MaxTriggers    \* bound: long and short commands given to it

LiqWaitAssumption ==
  /\ FirstLeg \in {"left", "right"}
  /\ OrderQty \in Nat \ {0}
  /\ Start \in [{"left", "right"} -> Int]
  /\ MaxOrders \in Nat /\ MaxTriggers \in Nat

Leg == {"left", "right"}
Other == [left |-> "right", right |-> "left"]

VARIABLES
  legState,      \* leg_state: "none", "first" or "hedge"
  retry,         \* trigger_timestamp: "off", "on", or "over" once retry_seconds have passed
  firstOrder,    \* first_order and hedge_order: the index of an order, 0 for None
  hedgeOrder,
  orders,        \* the order objects built, as the exchange knows them
  held,          \* held[leg]: the position the leg's exchange holds
  heard,         \* the orders the trigger no longer has as NEW: it heard of them
  seen,          \* seen[leg]: the position of the leg in the trigger's memory
  acks,          \* the orders whose first report is on its way
  events,        \* events[leg]: the fills the leg's websocket has published
  cancels,       \* the orders whose cancel is on its way
  cancelAll,     \* the legs whose cancel_all is on its way
  triggers       \* how many long and short commands have been given

vars == <<legState, retry, firstOrder, hedgeOrder, orders, held, heard, seen, acks,
          events, cancels, cancelAll, triggers>>
chase == <<legState, retry, firstOrder, hedgeOrder>>
exchange == <<orders, held, acks, events, cancels, cancelAll>>

OrderObject == [leg: Leg, qty: Int, filled: Int, st: {"sent", "live", "ended"}]
LegEvent == [type: {"position", "trade"}, qty: Int]

TypeOK ==
  /\ legState \in {"none", "first", "hedge"}
  /\ retry \in {"off", "on", "over"}
  /\ firstOrder \in 0..Len(orders) /\ hedgeOrder \in 0..Len(orders)
  /\ orders \in Seq(OrderObject) /\ Len(orders) <= MaxOrders
  /\ heard \subseteq DOMAIN orders
  /\ held \in [Leg -> Int] /\ seen \in [Leg -> Int]
  /\ acks \subseteq DOMAIN orders
  /\ events \in [Leg -> Seq(LegEvent)]
  /\ cancels \subseteq 1..MaxOrders
  /\ cancelAll \subseteq Leg
  /\ triggers \in 0..MaxTriggers

Init ==
  /\ legState = "none" /\ retry = "off"
  /\ firstOrder = 0 /\ hedgeOrder = 0
  /\ orders = <<>> /\ heard = {}
  /\ held = Start /\ seen = Start
  /\ acks = {} /\ events = [leg \in Leg |-> <<>>]
  /\ cancels = {} /\ cancelAll = {}
  /\ triggers = 0

-----------------------------------------------------------------------------
Size(n) == IF n < 0 THEN -n ELSE n

\* copysign(n, s)
SignedLike(n, s) == IF s < 0 THEN -Size(n) ELSE Size(n)

\* curr_delta
Delta == Size(seen["left"]) - Size(seen["right"])

\* send_order: an order of no quantity, or while the exchange is not up, is not
\* sent, though the trigger keeps it as its first or hedge order; it is as good
\* as ended.
Place(leg, qty) ==
  /\ Len(orders) < MaxOrders
  /\ \E st \in IF qty = 0 THEN {"ended"} ELSE {"sent", "ended"} :
       orders' = Append(orders, [leg |-> leg, qty |-> qty, filled |-> 0, st |-> st])

\* A mutant of Built: an index past the order.
BuiltPast == Len(orders) + 2

\* The order Place adds.
Built == Len(orders) + 1

\* send_first_order: a buy on the left leg if its exchange is the first one, a
\* sell on the right leg otherwise; nothing when the spread is too small, which
\* is not looked at while a hedge is chased.
SendFirstOrder ==
  \/ /\ Place(FirstLeg, IF FirstLeg = "left" THEN OrderQty ELSE -OrderQty)
     /\ retry' = "off" /\ legState' = "first" /\ firstOrder' = Built
     /\ UNCHANGED hedgeOrder
  \/ /\ legState # "hedge"
     /\ retry' = "on"
     /\ UNCHANGED <<legState, firstOrder, hedgeOrder, orders>>

-----------------------------------------------------------------------------
\* on_trigger_event, actions long and short.
OnTriggerEvent ==
  /\ triggers < MaxTriggers
  /\ triggers' = triggers + 1
  /\ SendFirstOrder
  /\ UNCHANGED <<held, heard, seen, acks, events, cancels, cancelAll>>

\* on_trigger_event, action cancel.
OnTriggerCancel ==
  /\ retry' = "off" /\ legState' = "none"
  /\ cancelAll' = Leg
  /\ UNCHANGED <<firstOrder, hedgeOrder, orders, held, heard, seen, acks, events,
                 cancels, triggers>>

RetrySecondsPass ==
  /\ retry = "on"
  /\ retry' = "over"
  /\ UNCHANGED <<legState, firstOrder, hedgeOrder, exchange, heard, seen, triggers>>

Chased == IF legState = "first" THEN firstOrder ELSE hedgeOrder

\* update_order, the market having moved: the order is cancelled and another
\* sent at once, the hedge for the quantity the delta now asks for.
UpdateOrder ==
  /\ legState # "none"
  /\ Chased # 0
  /\ Chased \in heard
  /\ LET old == orders[Chased]
     IN Place(old.leg, IF legState = "hedge" THEN -Delta ELSE old.qty)
  /\ cancels' = cancels \cup {Chased}
  /\ IF legState = "first" THEN firstOrder' = Built /\ UNCHANGED hedgeOrder
                           ELSE hedgeOrder' = Built /\ UNCHANGED firstOrder
  /\ UNCHANGED <<legState, retry>>

\* on_order_book_event: the first order is retried, or the chased one updated.
OnOrderBookEvent ==
  /\ \/ retry = "on" /\ SendFirstOrder /\ UNCHANGED cancels
     \/ retry # "on" /\ UpdateOrder
  /\ UNCHANGED <<held, heard, seen, acks, events, cancelAll, triggers>>

Next1(leg) == Head(events[leg])
Consume(leg) == events' = [events EXCEPT ![leg] = Tail(@)]

\* on_order_event: only the first and the hedge order are followed.  The trigger
\* looks only at whether the status is still NEW, so the first report is the
\* one that counts; reports and fills are two streams of the websocket.
OnOrderEvent(i) ==
  /\ i \in acks
  /\ acks' = acks \ {i}
  /\ heard' = heard \cup ({i} \cap {firstOrder, hedgeOrder})
  /\ UNCHANGED <<chase, orders, held, seen, events, cancels, cancelAll, triggers>>

\* _on_position_event_callback
OnPositionEvent(leg) ==
  /\ events[leg] # <<>> /\ Next1(leg).type = "position"
  /\ Consume(leg)
  /\ seen' = [seen EXCEPT ![leg] = Next1(leg).qty]
  /\ UNCHANGED <<chase, orders, held, heard, acks, cancels, cancelAll, triggers>>

\* A mutant of SendHedgeOrder: the hedge goes to the leg of the trade.
SendHedgeOrderSameLeg(leg, qty) ==
  /\ Place(leg, SignedLike(Delta, -qty))
  /\ hedgeOrder' = Built

\* send_hedge_order, which sends nothing for a delta under order_qty; the leg
\* is the other one than that of the trade.
SendHedgeOrder(leg, qty) ==
  /\ Place(Other[leg], SignedLike(Delta, -qty))
  /\ hedgeOrder' = Built

\* on_trade_exec_event
OnTradeExecEvent(leg) ==
  /\ events[leg] # <<>> /\ Next1(leg).type = "trade"
  /\ Consume(leg)
  /\ cancelAll' = IF Size(Delta) >= OrderQty THEN cancelAll \cup {leg} ELSE cancelAll
  /\ \/ /\ Delta >= OrderQty
        /\ SendHedgeOrder(leg, Next1(leg).qty)
        /\ legState' = "hedge" /\ firstOrder' = 0
     \/ /\ Delta <= -OrderQty
        /\ hedgeOrder' = 0
        /\ UNCHANGED <<legState, firstOrder, orders>>
     \/ /\ Size(Delta) < OrderQty
        /\ legState' = "none"
        /\ UNCHANGED <<firstOrder, hedgeOrder, orders>>
  /\ UNCHANGED <<retry, held, heard, seen, acks, cancels, triggers>>

-----------------------------------------------------------------------------
(* The two exchanges                                                         *)

ExchangeAccepts(i) ==
  /\ orders[i].st = "sent"
  /\ orders' = [orders EXCEPT ![i].st = "live"]
  /\ acks' = acks \cup {i}
  /\ UNCHANGED <<chase, held, heard, seen, events, cancels, cancelAll, triggers>>

\* A reject stays with the API: no process is told.
ExchangeRejects(i) ==
  /\ orders[i].st = "sent"
  /\ orders' = [orders EXCEPT ![i].st = "ended"]
  /\ UNCHANGED <<chase, held, heard, seen, acks, events, cancels, cancelAll, triggers>>

\* A fill of one unit or of all that is left.
ExchangeFills(i) ==
  LET o == orders[i]
      left == o.qty - o.filled
  IN /\ o.st = "live"
     /\ \E qty \in {SignedLike(1, left), left} :
          /\ orders' = [orders EXCEPT ![i].filled = @ + qty,
                                      ![i].st = IF qty = left THEN "ended" ELSE @]
          /\ held' = [held EXCEPT ![o.leg] = @ + qty]
          /\ events' = [events EXCEPT ![o.leg] = @ \o
               << [type |-> "position", qty |-> held[o.leg] + qty],
                  [type |-> "trade", qty |-> qty] >>]
     /\ UNCHANGED <<chase, heard, seen, acks, cancels, cancelAll, triggers>>

\* A cancel takes effect if the order is still live.
ExchangeCancels(i) ==
  /\ i \in cancels
  /\ cancels' = cancels \ {i}
  /\ orders' = [orders EXCEPT ![i].st = IF @ = "live" THEN "ended" ELSE @]
  /\ UNCHANGED <<chase, held, heard, seen, acks, events, cancelAll, triggers>>

ExchangeCancelsAll(leg) ==
  /\ leg \in cancelAll
  /\ cancelAll' = cancelAll \ {leg}
  /\ orders' = [i \in DOMAIN orders |->
                  IF orders[i].leg = leg /\ orders[i].st = "live"
                    THEN [orders[i] EXCEPT !.st = "ended"] ELSE orders[i]]
  /\ UNCHANGED <<chase, held, heard, seen, acks, events, cancels, triggers>>

-----------------------------------------------------------------------------
TriggerNext ==
  \/ OnTriggerEvent \/ OnTriggerCancel \/ RetrySecondsPass \/ OnOrderBookEvent
  \/ \E i \in acks : OnOrderEvent(i)
  \/ \E leg \in Leg : OnPositionEvent(leg) \/ OnTradeExecEvent(leg)

ExchangeNext ==
  \/ \E i \in DOMAIN orders : \/ ExchangeAccepts(i) \/ ExchangeRejects(i)
                              \/ ExchangeFills(i) \/ ExchangeCancels(i)
  \/ \E leg \in Leg : ExchangeCancelsAll(leg)

Next == TriggerNext \/ ExchangeNext

Spec == Init /\ [][Next]_vars

-----------------------------------------------------------------------------
Delivered == \A leg \in Leg : events[leg] = <<>>

\* The docstring: the first order is waited for, then the hedge is placed on
\* the other side.  With everything delivered and order_qty executed on the
\* first leg, an order of the other leg has been built.
FirstIsHedged ==
  Delivered /\ Size(held[FirstLeg] - Start[FirstLeg]) >= OrderQty =>
    \E i \in DOMAIN orders : orders[i].leg = Other[FirstLeg]
=============================================================================
