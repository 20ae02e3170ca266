------------------------------- MODULE Routing -------------------------------
(***************************************************************************)
(* Which process hears of what (redis_events, publish_event, the           *)
(* subscriptions of each kind of process).  A reader names its channels by *)
(* the ids of the objects it subscribes with, exchanges or instruments;    *)
(* the channel of a message is named by what its payload has: the id of an *)
(* instrument first, else that of an exchange, but for a few events.  Both *)
(* ids are database keys that start at one.  And what an API and the       *)
(* orders managers can do with what they hear.                             *)
(*                                                                         *)
(* Names of events stand for those of their channels.                      *)
(***************************************************************************)
EXTENDS Integers, FiniteSets

CONSTANTS
  Exchanges, Instruments,   \* by their ids
  ExchangeOf,
  Funded,                   \* the instruments with a funding (has_funding)
  Processes

RoutingAssumption ==
  /\ Exchanges \subseteq Nat \ {0} /\ Instruments \subseteq Nat \ {0}
  /\ ExchangeOf \in [Instruments -> Exchanges] /\ Funded \subseteq Instruments

VARIABLES
  role,      \* what a process is, "off" when it does not run
  given,     \* the instruments it was started with
  added,     \* those it added since
  managed,   \* those it has an orders manager for
  last       \* the last message: what it says, who heard it, and who could act on it

vars == <<role, given, added, managed, last>>

ExchangeDriven == {"exchange_status", "balance_update", "cancel_all_orders_echange",
                   "cancel_all_orders_instr", "cancel_order", "order_exchange", "exchange_api"}
InstrumentDriven == {"instr_status", "orderbook_update", "funding_rate_update", "position_update",
                     "order_update", "trade_exec"}
Plain == {"cancel_all_orders", "db_add_order"}
Events == ExchangeDriven \cup InstrumentDriven \cup Plain
Roles == {"api", "executor", "feed", "db"}
NoId == 0

Nothing == [event |-> "db_add_order", instr |-> NoId, exch |-> NoId, heard |-> {}, acted |-> {}]

TypeOK ==
  /\ \A p \in Processes :
       /\ role[p] \in Roles \cup {"off"}
       /\ given[p] \subseteq Instruments /\ added[p] \subseteq Instruments \ given[p]
       /\ managed[p] \subseteq given[p] \cup added[p]
  /\ last.event \in Events /\ last.heard \subseteq Processes /\ last.acted \subseteq last.heard

Init ==
  /\ role = [p \in Processes |-> "off"]
  /\ given = [p \in Processes |-> {}] /\ added = [p \in Processes |-> {}]
  /\ managed = [p \in Processes |-> {}]
  /\ last = Nothing

ExchangesOf(instrs) == {ExchangeOf[i] : i \in instrs}

-----------------------------------------------------------------------------
(* The channels                                                              *)

\* get_channels: of a list of objects, those the event filters; of none, the plain channel.
GetChannels(event, ids) == IF ids = {} THEN {<<event, NoId>>} ELSE {<<event, id>> : id \in ids}

\* FundingRateEvent._filter_objects
FilterObjects(event, instrs) == IF event = "funding_rate_update" THEN instrs \cap Funded ELSE instrs

\* The payloads that have an instr_id; those that only have an exchange_id; and
\* those that have neither: an Exchange and an Instrument have an id.
HasInstrId == {"instr_status", "orderbook_update", "funding_rate_update", "position_update",
               "order_update", "trade_exec", "order_exchange", "cancel_order", "db_add_order"}
HasExchangeId == {"exchange_status", "balance_update", "exchange_api"}

\* __publish_payload
PayloadKey(event, i, e) ==
  CASE event \in HasInstrId -> i
    [] event \in HasExchangeId -> e
    [] OTHER -> NoId

\* Mutant: the orders go by what the payload has.
PublishChannelByPayload(event, i, e) == <<event, PayloadKey(event, i, e)>>

\* publish_event
PublishChannel(event, i, e) ==
  CASE event \in {"order_exchange", "cancel_order", "cancel_all_orders_instr"} -> <<event, e>>
    [] event = "db_add_order" -> <<event, NoId>>
    [] OTHER -> <<event, PayloadKey(event, i, e)>>

\* The channels of a process; OrderEvent brings ExchangeApiEvent with the same objects.
Channels(p) ==
  LET instrs == given[p]
      exchs == ExchangesOf(instrs)
      of(events, ids) == UNION {GetChannels(event, ids) : event \in events}
  IN CASE role[p] = "api" ->
            of({"exchange_api", "balance_update", "order_exchange", "cancel_all_orders_echange",
                "cancel_all_orders_instr", "cancel_order"}, exchs)
              \cup of({"position_update"}, instrs) \cup of({"cancel_all_orders"}, {})
       [] role[p] = "executor" ->
            of({"exchange_status", "balance_update"}, exchs)
              \cup of({"instr_status", "position_update", "order_update", "trade_exec",
                       "orderbook_update", "exchange_api"}, instrs)
              \cup of({"funding_rate_update"}, FilterObjects("funding_rate_update", instrs))
       [] role[p] = "feed" ->
            of({"balance_update"}, exchs) \cup of({"position_update"}, instrs)
       [] OTHER -> {}

\* DBHandler.run: by a pattern, the name of the event and whatever follows
Patterns(p) ==
  IF role[p] = "db"
  THEN {"order_exchange", "trade_exec", "position_update", "balance_update", "order_update",
        "db_add_order"} ELSE {}

Hears(p, channel) == channel \in Channels(p) \/ channel[1] \in Patterns(p)

\* What a process can do with what it hears: the managers of the orders and the API know some
\* instruments only.  For an order of another one the wrapper raises, and the callbacks after
\* it are not called; the instrument of a cancel is None, which raises too.  The API takes an
\* order by a wrapper of its manager, and an instrument has no payload['instr_id'].
Acts(p, event, i) ==
  CASE event \in {"order_exchange", "order_update"} /\ role[p] # "db" -> i \in managed[p]
    [] event \in {"cancel_all_orders_instr", "cancel_order"} -> i \in given[p] \cup added[p]
    [] event = "cancel_all_orders" -> FALSE
    [] event \in {"instr_status", "orderbook_update", "funding_rate_update"} ->
         i \in given[p] \cup added[p]
    [] OTHER -> TRUE

Publish(event, i, e) ==
  LET heard == {p \in Processes : Hears(p, PublishChannel(event, i, e))}
  IN  /\ last' = [event |-> event, instr |-> i, exch |-> e, heard |-> heard,
                  acted |-> {p \in heard : Acts(p, event, i)}]
      /\ UNCHANGED <<role, given, added, managed>>

-----------------------------------------------------------------------------
(* The processes                                                             *)

\* A process is built for its instruments, with the managers of their orders.
Start(p, r, instrs) ==
  /\ role[p] = "off" /\ instrs # {}
  /\ r \in {"api", "feed"} => Cardinality(ExchangesOf(instrs)) = 1
  /\ role' = [role EXCEPT ![p] = r]
  /\ given' = [given EXCEPT ![p] = IF r = "db" THEN {} ELSE instrs]
  /\ managed' = [managed EXCEPT ![p] = IF r = "db" THEN {} ELSE instrs]
  /\ last' = Nothing
  /\ UNCHANGED added

Stop(p) ==
  /\ role[p] # "off" /\ role' = [role EXCEPT ![p] = "off"]
  /\ given' = [given EXCEPT ![p] = {}] /\ added' = [added EXCEPT ![p] = {}]
  /\ managed' = [managed EXCEPT ![p] = {}]
  /\ last' = Nothing

\* _add_new_instr, add_instrument: the channels it subscribes are those of the objects the
\* events were built with.
AddInstrument(p, i) ==
  /\ role[p] = "feed" /\ i \notin given[p] \cup added[p]
  /\ ExchangeOf[i] \in ExchangesOf(given[p])
  /\ added' = [added EXCEPT ![p] = @ \cup {i}]
  /\ managed' = [managed EXCEPT ![p] = @ \cup {i}]
  /\ last' = Nothing
  /\ UNCHANGED <<role, given>>

-----------------------------------------------------------------------------
(* What they publish                                                         *)

ByExecutor == {"order_exchange", "cancel_order", "cancel_all_orders_instr"}

\* fire_order, cancel_order, cancel_all_orders_instr
ExecutorPublishes(p, event, i) ==
  /\ role[p] = "executor" /\ i \in given[p] /\ event \in ByExecutor
  /\ Publish(event, i, ExchangeOf[i])

\* cancel_all_orders_exchange
CancelAllOrdersExchange(p, e) ==
  /\ role[p] = "executor" /\ e \in ExchangesOf(given[p])
  /\ Publish("cancel_all_orders_echange", NoId, e)

\* cancel_all_orders: redis refuses a message that is None.
CancelAllOrders(p) ==
  /\ role[p] = "executor"
  /\ last' = Nothing
  /\ UNCHANGED <<role, given, added, managed>>

ByFeed == {"order_update", "trade_exec", "position_update", "instr_status", "orderbook_update",
           "funding_rate_update"}
ByBoth == {"order_update", "position_update", "instr_status"}

\* received_order and the setters of InstrumentRedis
FeedPublishes(p, event, i) ==
  /\ role[p] = "feed" \/ (role[p] = "api" /\ event \in ByBoth)
  /\ i \in given[p] \cup added[p]
  /\ event \in ByFeed /\ (event = "funding_rate_update" => i \in Funded)
  /\ Publish(event, i, ExchangeOf[i])

\* The setters of ExchangeRedis, and _load_exchange_data, which asks to reload the orders
ApiPublishes(p, event) ==
  /\ role[p] = "api" /\ event \in HasExchangeId
  /\ \E e \in ExchangesOf(given[p]) : Publish(event, NoId, e)

SaveOrderDb(p, i) ==
  /\ role[p] = "api" /\ i \in given[p]
  /\ Publish("db_add_order", i, ExchangeOf[i])

Next ==
  \/ \E p \in Processes, r \in Roles, instrs \in SUBSET Instruments : Start(p, r, instrs)
  \/ \E p \in Processes : Stop(p) \/ CancelAllOrders(p)
  \/ \E p \in Processes, i \in Instruments :
       AddInstrument(p, i) \/ SaveOrderDb(p, i)
         \/ \E event \in Events : ExecutorPublishes(p, event, i) \/ FeedPublishes(p, event, i)
  \/ \E p \in Processes, e \in Exchanges : CancelAllOrdersExchange(p, e)
  \/ \E p \in Processes, event \in Events : ApiPublishes(p, event)

Spec == Init /\ [][Next]_vars

-----------------------------------------------------------------------------
Trades(p, i) == i \in given[p]
Serves(p, e) == e \in ExchangesOf(given[p])

\* Who is meant to hear of an event that is about instrument i of exchange e
Meant(p, event, i, e) ==
  CASE event \in {"order_exchange"} -> (role[p] = "api" /\ Serves(p, e)) \/ role[p] = "db"
    [] event \in {"cancel_order", "cancel_all_orders_instr"} -> role[p] = "api" /\ Serves(p, e)
    [] event = "order_update" -> (role[p] = "executor" /\ Trades(p, i)) \/ role[p] = "db"
    [] event = "trade_exec" -> (role[p] = "executor" /\ Trades(p, i)) \/ role[p] = "db"
    [] event \in {"instr_status", "orderbook_update", "funding_rate_update"} ->
         role[p] = "executor" /\ Trades(p, i)
    [] event = "position_update" -> role[p] = "db" \/ (role[p] # "off" /\ Trades(p, i))
    [] event = "balance_update" -> role[p] = "db" \/ (role[p] # "off" /\ Serves(p, e))
    [] event = "exchange_status" -> role[p] = "executor" /\ Serves(p, e)
    [] event = "db_add_order" -> role[p] = "db"
    [] OTHER -> FALSE

\* Whoever runs, was started for whatever and restarted, a message is heard by the processes
\* it is meant for and by no other, although both ends name its channel by themselves.  All
\* of them can act on it, but for an order or a cancel that reaches an API that does not have
\* the instrument: no one says so to who sent it.  Two events go astray.  A cancel of all the
\* orders of an exchange is heard by nobody; the request to reload the orders is heard by the
\* API itself, and by the executors of an instrument that has the id of the exchange, whose
\* orders it makes no difference to unless they trade there.
Routed ==
  LET e == last.exch
      i == last.instr
  IN  last # Nothing =>
        /\ last.event = "cancel_all_orders_echange" => last.heard = {}
        /\ last.event = "exchange_api" =>
             last.heard = {p \in Processes : \/ role[p] = "api" /\ Serves(p, e)
                                             \/ role[p] = "executor" /\ e \in given[p]}
        /\ last.event \notin {"exchange_api", "cancel_all_orders_echange"} =>
             /\ last.heard = {p \in Processes : Meant(p, last.event, i, e)}
             /\ \A p \in last.heard \ last.acted : role[p] = "api" /\ ~Trades(p, i)
=============================================================================
