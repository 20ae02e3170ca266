-------------------------------- MODULE MMDumb --------------------------------
(***************************************************************************)
(* The trigger that keeps one order at each level of a price grid          *)
(* (mm_dumb.py), with the redis hash its orders are stored in.  It looks   *)
(* for the orders it has in the cache of its orders manager, sends one to  *)
(* each empty level of the grid around the book, and never cancels.  A     *)
(* level that is left by the grid keeps its order.                         *)
(*                                                                         *)
(* Each order is published and then stored, one after the other; the       *)
(* websocket deletes an ended order from the hash and reports it.  The API *)
(* rejects silently, so a rejected order keeps its level.                  *)
(***************************************************************************)
EXTENDS Integers, Sequences, SequencesExt, FiniteSets

CONSTANTS
  Bids, Asks,     \* the prices the grid may take, in ticks
  NbOrders,       \* nb_orders of the config
  MaxDumbOrders,  \* bound: orders sent
  MaxDumbCrashes  \* bound: crashes of the trigger

MMDumbAssumption ==
  /\ Bids \subseteq Int /\ Asks \subseteq Int
  /\ NbOrders \in Nat /\ MaxDumbOrders \in Nat /\ MaxDumbCrashes \in Nat

VARIABLES
  running,    \* "down", "loaded" (orders read, not yet subscribed) or "up"
  known,      \* the orders in the cache of the trigger's orders manager
  hash,       \* the orders in the redis hash
  todo,       \* the orders of this update still to be fired
  owed,       \* the order that is published and not yet stored
  onWay,      \* the orders on their way to the exchange
  working,    \* the orders it works
  ended,      \* the ended orders the trigger has not yet heard of
  used,       \* ids given to orders
  dumbCrashes,
  unstored    \* history: orders a crash left out of the hash

exchange == <<onWay, working>>
vars == <<running, known, hash, todo, owed, exchange, ended, used, dumbCrashes, unstored>>

\* An order is told by its id; its level is its side and its price.
DumbOrder == [id: 1..MaxDumbOrders, side: {"buy", "sell"}, price: Int]
SameLevel(o, p) == o.side = p.side /\ o.price = p.price

TypeOK ==
  /\ running \in {"down", "loaded", "up"}
  /\ known \subseteq DumbOrder /\ hash \subseteq DumbOrder
  /\ todo \in Seq(DumbOrder)
  /\ owed \subseteq DumbOrder /\ Cardinality(owed) <= 1
  /\ onWay \subseteq DumbOrder /\ working \subseteq DumbOrder
  /\ ended \in Seq(DumbOrder)
  /\ used \in 0..MaxDumbOrders /\ dumbCrashes \in 0..MaxDumbCrashes
  /\ unstored \subseteq DumbOrder

Init ==
  /\ running = "up" /\ known = {} /\ hash = {} /\ todo = <<>> /\ owed = {}
  /\ onWay = {} /\ working = {} /\ ended = <<>>
  /\ used = 0 /\ dumbCrashes = 0 /\ unstored = {}

-----------------------------------------------------------------------------
\* _get_price_grid
PriceGrid(bid, ask) ==
  {<<"buy", bid - i>> : i \in 0..NbOrders - 1} \cup {<<"sell", ask + i>> : i \in 0..NbOrders - 1}

\* Mutant: the prices of the orders are not rounded, and meet none of the grid.
MissingInGridRaw(grid) == grid

\* _get_orders_grid: the levels without an order.
MissingInGrid(grid) == {l \in grid : ~\E o \in known : o.side = l[1] /\ o.price = l[2]}

\* update_state and build_orders, on a book, a trade or an execution: the skew
\* of the config may leave a side out.  What handles the event handles no other
\* until all orders are fired.
BuildOrders ==
  /\ running = "up" /\ todo = <<>> /\ owed = {}
  /\ \E bid \in Bids, ask \in Asks, sides \in SUBSET {"buy", "sell"} :
       LET missing == {l \in MissingInGrid(PriceGrid(bid, ask)) : l[1] \in sides}
           levels == SetToSeq(missing)
       IN /\ missing # {}
          /\ used + Len(levels) <= MaxDumbOrders
          /\ todo' = [i \in DOMAIN levels |->
                        [id |-> used + i, side |-> levels[i][1], price |-> levels[i][2]]]
          /\ used' = used + Len(levels)
  /\ UNCHANGED <<running, known, hash, owed, exchange, ended, dumbCrashes, unstored>>

\* fire_order: in the cache and published, though the exchange be down, ...
FireOrder ==
  /\ running = "up" /\ todo # <<>> /\ owed = {}
  /\ known' = known \cup {Head(todo)}
  /\ owed' = {Head(todo)}
  /\ todo' = Tail(todo)
  /\ onWay' = onWay \cup owed' \/ UNCHANGED onWay
  /\ UNCHANGED <<running, hash, working, ended, used, dumbCrashes, unstored>>

\* ... and stored.
StoreOrder ==
  /\ running = "up" /\ owed # {}
  /\ hash' = hash \cup owed
  /\ owed' = {}
  /\ UNCHANGED <<running, known, todo, exchange, ended, used, dumbCrashes, unstored>>

\* The exchange takes an order or refuses it, and tells no one.
Create(o) ==
  /\ o \in onWay
  /\ onWay' = onWay \ {o}
  /\ working' = working \cup {o} \/ UNCHANGED working
  /\ UNCHANGED <<running, known, hash, todo, owed, ended, used, dumbCrashes, unstored>>

\* An order is filled or canceled: the websocket's process takes it out of the
\* hash and publishes the end.
End(o) ==
  /\ o \in working
  /\ working' = working \ {o}
  /\ hash' = hash \ {o}
  /\ ended' = IF running = "up" THEN Append(ended, o) ELSE ended
  /\ UNCHANGED <<running, known, todo, owed, onWay, used, dumbCrashes, unstored>>

\* The final status of an order takes it out of the cache.
OnOrderEvent ==
  /\ running = "up" /\ todo = <<>> /\ owed = {} /\ ended # <<>>
  /\ known' = known \ {Head(ended)}
  /\ ended' = Tail(ended)
  /\ UNCHANGED <<running, hash, todo, owed, exchange, used, dumbCrashes, unstored>>

Crash ==
  /\ running # "down" /\ dumbCrashes < MaxDumbCrashes
  /\ dumbCrashes' = dumbCrashes + 1
  /\ running' = "down" /\ todo' = <<>> /\ owed' = {} /\ ended' = <<>> /\ known' = {}
  /\ unstored' = unstored \cup owed
  /\ UNCHANGED <<hash, exchange, used>>

\* The redis manager loads the orders of the hash, ...
LoadOrders ==
  /\ running = "down"
  /\ running' = "loaded" /\ known' = hash
  /\ UNCHANGED <<hash, todo, owed, exchange, ended, used, dumbCrashes, unstored>>

\* ... and then subscribes.
Subscribe ==
  /\ running = "loaded"
  /\ running' = "up"
  /\ UNCHANGED <<known, hash, todo, owed, exchange, ended, used, dumbCrashes, unstored>>

Next ==
  \/ BuildOrders \/ FireOrder \/ StoreOrder \/ OnOrderEvent
  \/ Crash \/ LoadOrders \/ Subscribe
  \/ \E o \in onWay \cup working : Create(o) \/ End(o)

Spec == Init /\ [][Next]_vars

-----------------------------------------------------------------------------
\* Two orders of one level never work or are on their way at a time, over
\* restarts too, unless a crash came between the publication and the hash.
OneOrderPerLevel ==
  \A o, p \in (onWay \cup working) \ unstored : SameLevel(o, p) => o = p
=============================================================================
