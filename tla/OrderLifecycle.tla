---------------------------- MODULE OrderLifecycle ----------------------------
(***************************************************************************)
(* The life of an order across the processes that share it: the trigger    *)
(* that fires it (ExecutorBase), the exchange API that sends it            *)
(* (ExchangeAPI), the authenticated websocket that hears what became of it *)
(* (ExchangeAuthenticatedWebsocket), and the redis hash they all write.    *)
(* Each process has an OrdersManager, a cache filled from the hash when it *)
(* starts and then from the events it subscribes to; an order is first     *)
(* published and only then written to the hash, as two calls to redis.     *)
(*                                                                         *)
(* Pub/sub delivers to the current subscribers in order and keeps nothing. *)
(* Orders meet only in the API's reload, so a queue is kept per order.     *)
(***************************************************************************)
EXTENDS OrderMerge, Sequences, FiniteSets

CONSTANTS
  Orders,            \* the orders the trigger may fire, once each
  TradingModes,      \* what ACTIVATE_TRADING may be: send orders, or simulate them
  MaxLoads,          \* bound: loads of the exchange's data, that of the start or reloads
  MaxCancels,        \* bound: cancels the trigger asks for
  MaxRestarts,       \* bound: restarts of the trigger
  MaxLost            \* bound: reports lost while the websocket reconnects

ASSUME LifecycleAssumption ==
  /\ IsFiniteSet(Orders)
  /\ TradingModes \subseteq BOOLEAN
  /\ MaxLoads \in Nat /\ MaxCancels \in Nat /\ MaxRestarts \in Nat /\ MaxLost \in Nat
  /\ Absent \notin Order /\ Absent \notin [order: Orders, record: Order]

Process == {"trigger", "api", "ws"}

VARIABLES
  cache,       \* cache[p][o]: what process p's OrdersManager has under o
  hash,        \* hash[o]: the redis hash of orders
  owed,        \* owed[p]: the hash write p has published but not made yet
  fired,       \* the orders the trigger has fired
  trigger,     \* "up", or "loaded": restarted but not subscribed yet
  toApi,       \* order_exchange events on their way to the API
  cancels,     \* cancel_order events on their way to the API
  toTrigger,   \* toTrigger[o]: order_update events on their way to the trigger
  call,        \* call[o]: how far the API's create_order call is
  saved,       \* saved[o]: the record the API last sent to the database
  activateTrading, \* the environment the API was started in
  apiUp,       \* the API has announced its status UP
  load,        \* the API's reload: its step and the fetched orders left
  exch,        \* exch[o]: what the order is at the exchange
  wire,        \* wire[o]: the exchange's reports on their way to the websocket
  used,        \* how many of each bounded event have happened
  early,       \* history: the orders cancelled before their ack reached the trigger
  stale,       \* history: the orders the reload put back after they had ended
  dropped      \* history: the orders a load deleted from the hash, and that no
               \* write and no list of open orders has brought back since

redis == <<cache, hash, owed>>
triggerVars == <<fired, trigger>>
queues == <<toApi, cancels, toTrigger>>
apiVars == <<activateTrading, call, saved, apiUp, load>>
exchVars == <<exch, wire>>
history == <<early, stale, dropped>>
vars == <<redis, triggerVars, queues, apiVars, exchVars, history, used>>

Entry == Order \cup {Absent}

Outcome == {"filled", "canceled", "expired"}

TypeOK ==
  /\ cache \in [Process -> [Orders -> Entry]]
  /\ hash \in [Orders -> Entry]
  /\ owed \in [Process -> [order: Orders, record: Order] \cup {Absent}]
  /\ fired \subseteq Orders
  /\ trigger \in {"up", "loaded"}
  /\ toApi \subseteq fired
  /\ cancels \in Seq([order: Orders, record: Order])
  /\ toTrigger \in [Orders -> Seq(Order)]
  /\ call \in [Orders -> {"idle", "sent", "answered", "refused", "timedout", "simulated"}]
  /\ saved \in [Orders -> Entry]
  /\ activateTrading \in TradingModes
  /\ apiUp \in BOOLEAN
  /\ load \in [step: {"idle", "flush", "fetch", "receive"}, todo: [Orders -> Entry]]
  /\ exch \in [Orders -> {"none", "open", "partial"} \cup Outcome]
  /\ wire \in [Orders -> Seq(Order)]
  /\ used \in [loads: 0..MaxLoads, cancels: 0..MaxCancels,
               restarts: 0..MaxRestarts, lost: 0..MaxLost]
  /\ early \subseteq Orders /\ stale \subseteq Orders /\ dropped \subseteq Orders

-----------------------------------------------------------------------------
(* Records.  The trigger's clock stamps a fired order before any report; a   *)
(* report is created when the websocket receives it, a fetched order carries *)
(* the exchange's own timestamp.  One fill of 1 of 2 makes an order partial. *)

Rec(st, time, filled) ==
  [st |-> st, time |-> time, filled |-> filled,
   tRej |-> NoStamp, tCan |-> NoStamp, tFil |-> NoStamp, eoi |-> time > 0]

\* Order(...) as an executor builds it.
NewOrder == Rec("new", 0, 0)

\* A mutant of OrderInfo: the exchange's own word for a status is kept.
OrderInfoRaw(st) == [Rec("open", 2, 0) EXCEPT !.st = IF st = "filled" THEN "fill" ELSE st]

\* _extract_order_info
OrderInfo(st) ==
  CASE st = "open"     -> Rec(st, 2, 0)
    [] st = "partial"  -> [Rec(st, 2, 1) EXCEPT !.tFil = 1]
    [] st = "filled"   -> [Rec(st, 2, 2) EXCEPT !.tFil = 1]
    [] st = "canceled" -> [Rec(st, 2, 0) EXCEPT !.tCan = 1]
    [] st = "expired"  -> Rec(st, 2, 0)

\* parse_order: fetch_open_orders lists a partly filled order as open.
Fetched(o) == Rec("open", 1, IF exch[o] = "partial" THEN 1 ELSE 0)

Live(o) == exch[o] \in {"open", "partial"}

MarkStale(o) == IF Live(o) THEN stale ELSE stale \cup {o}

-----------------------------------------------------------------------------
\* The API has just started its load, or the load has ended.
Init ==
  /\ cache = [p \in Process |-> [o \in Orders |-> Absent]]
  /\ hash = [o \in Orders |-> Absent]
  /\ owed = [p \in Process |-> Absent]
  /\ fired = {} /\ toApi = {} /\ cancels = <<>>
  /\ trigger = "up"
  /\ toTrigger = [o \in Orders |-> <<>>]
  /\ call = [o \in Orders |-> "idle"]
  /\ saved = [o \in Orders |-> Absent]
  /\ activateTrading \in TradingModes
  /\ apiUp = FALSE
  /\ load \in [step: {"idle", "flush"}, todo: {[o \in Orders |-> Absent]}]
  /\ exch = [o \in Orders |-> "none"]
  /\ wire = [o \in Orders |-> <<>>]
  /\ used = [loads |-> IF load.step = "idle" THEN 0 ELSE 1,
             cancels |-> 0, restarts |-> 0, lost |-> 0]
  /\ used.loads <= MaxLoads
  /\ early = {} /\ stale = {} /\ dropped = {}

-----------------------------------------------------------------------------
(* OrdersManager                                                             *)

\* handler_order without an event: the cache of `p' alone follows.
HandleLocally(p, o, order) ==
  cache' = [cache EXCEPT ![p][o] = Stored(Kept(cache[p][o], order))]

\* handler_order with an event: the record kept is published by the caller of
\* this operator; the hash write is owed until StoreRedis.
HandleAndOwe(p, o, order) ==
  /\ owed[p] = Absent
  /\ HandleLocally(p, o, order)
  /\ owed' = [owed EXCEPT ![p] = [order |-> o, record |-> Kept(cache[p][o], order)]]

\* received_order publishes what was kept as an OrderEvent: the trigger gets
\* it if it is subscribed.
ReceivedOrder(p, o, order) ==
  /\ HandleAndOwe(p, o, order)
  /\ toTrigger' = IF trigger = "up"
                    THEN [toTrigger EXCEPT ![o] = Append(@, Kept(cache[p][o], order))]
                    ELSE toTrigger

\* A mutant of StoreRedis: final orders stay in the hash.
StoreRedisAlways(p) ==
  /\ owed[p] # Absent
  /\ hash' = [hash EXCEPT ![owed[p].order] = owed[p].record]
  /\ owed' = [owed EXCEPT ![p] = Absent]
  /\ stale' = IF p = "api" THEN MarkStale(owed[p].order) ELSE stale
  /\ dropped' = dropped \ {owed[p].order}
  /\ UNCHANGED <<cache, triggerVars, queues, apiVars, exchVars, early, used>>

\* _store_redis: the hset or hdel that follows the publication.
StoreRedis(p) ==
  /\ owed[p] # Absent
  /\ hash' = [hash EXCEPT ![owed[p].order] = Stored(owed[p].record)]
  /\ owed' = [owed EXCEPT ![p] = Absent]
  /\ stale' = IF p = "api" THEN MarkStale(owed[p].order) ELSE stale
  /\ dropped' = dropped \ {owed[p].order}
  /\ UNCHANGED <<cache, triggerVars, queues, apiVars, exchVars, early, used>>

-----------------------------------------------------------------------------
(* The trigger (ExecutorBase)                                                *)

\* send_order and fire_order, with the exchange's status checked.
FireOrder(o) ==
  /\ trigger = "up"
  /\ apiUp
  /\ o \notin fired
  /\ HandleAndOwe("trigger", o, NewOrder)
  /\ fired' = fired \cup {o}
  /\ toApi' = toApi \cup {o}
  /\ UNCHANGED <<hash, trigger, cancels, toTrigger, apiVars, exchVars, history,
                 used>>

\* _on_order_event_callback on an OrderEvent.
OnOrderEvent(o) ==
  /\ trigger = "up"
  /\ toTrigger[o] # <<>>
  /\ HandleLocally("trigger", o, Head(toTrigger[o]))
  /\ toTrigger' = [toTrigger EXCEPT ![o] = Tail(@)]
  /\ UNCHANGED <<hash, owed, triggerVars, toApi, cancels, apiVars, exchVars,
                 history, used>>

\* cancel_order: the cached order itself becomes CANCEL and is sent to the
\* API.  The thread that fires also cancels, so it owes no hash write then.
CancelOrder(o) ==
  /\ trigger = "up"
  /\ owed["trigger"] = Absent
  /\ cache["trigger"][o] # Absent
  /\ used.cancels < MaxCancels
  /\ cache' = [cache EXCEPT !["trigger"][o].st = "cancel"]
  /\ cancels' = Append(cancels, [order |-> o, record |-> cache'["trigger"][o]])
  /\ used' = [used EXCEPT !.cancels = @ + 1]
  /\ early' = IF cache["trigger"][o].eoi THEN early ELSE early \cup {o}
  /\ UNCHANGED <<hash, owed, triggerVars, toApi, toTrigger, apiVars, exchVars,
                 stale, dropped>>

\* A restart: the new OrdersManager loads the hash, then subscribes.  What is
\* published in between is lost, and so is a hash write it still owed.
Restart ==
  /\ used.restarts < MaxRestarts
  /\ cache' = [cache EXCEPT !["trigger"] = hash]
  /\ owed' = [owed EXCEPT !["trigger"] = Absent]
  /\ trigger' = "loaded"
  /\ toTrigger' = [o \in Orders |-> <<>>]
  /\ used' = [used EXCEPT !.restarts = @ + 1]
  /\ UNCHANGED <<hash, fired, toApi, cancels, apiVars, exchVars, history>>

Subscribe ==
  /\ trigger = "loaded"
  /\ trigger' = "up"
  /\ UNCHANGED <<redis, fired, queues, apiVars, exchVars, history, used>>

-----------------------------------------------------------------------------
(* The exchange API (ExchangeAPI)                                            *)

\* run: subscribe, then announce UP, whether or not the load has finished.
Run ==
  /\ ~apiUp
  /\ apiUp' = TRUE
  /\ UNCHANGED <<redis, triggerVars, queues, activateTrading, call, saved,
                 load, exchVars, history, used>>

\* The order object of the call is the one in the cache until a fetched record
\* replaces it: populating the object then changes the cache entry in place.
Populate(o, order) ==
  /\ saved' = [saved EXCEPT ![o] = order]
  /\ cache' = IF cache["api"][o] = NewOrder
                THEN [cache EXCEPT !["api"][o] = order] ELSE cache

\* An OrderExchangeEvent: cached, then sent to the exchange.
OnOrderExchangeEvent(o) ==
  /\ activateTrading
  /\ o \in toApi
  /\ toApi' = toApi \ {o}
  /\ HandleLocally("api", o, NewOrder)
  /\ call' = [call EXCEPT ![o] = "sent"]
  /\ UNCHANGED <<hash, owed, triggerVars, cancels, toTrigger, activateTrading,
                 saved, apiUp, load, exchVars, history, used>>

\* _get_order_status_simulate
SimulatedStatus(st) == IF st = "open" THEN "filled" ELSE st

\* The same event when trading is not activated: the outcome is made up by
\* _populate_order_fields_from_exchange_simulate, on the cached order itself,
\* and only the database is told.
OnOrderExchangeEventSimulated(o) ==
  /\ ~activateTrading
  /\ o \in toApi
  /\ toApi' = toApi \ {o}
  /\ LET order == [NewOrder EXCEPT !.st = SimulatedStatus(@), !.filled = 2, !.eoi = TRUE]
     IN /\ cache' = [cache EXCEPT !["api"][o] = order]
        /\ saved' = [saved EXCEPT ![o] = order]
  /\ call' = [call EXCEPT ![o] = "simulated"]
  /\ UNCHANGED <<hash, owed, triggerVars, cancels, toTrigger, activateTrading,
                 apiUp, load, exchVars, history, used>>

\* What the answer of create_order populates the order with: a status of the
\* order so far, the exchange's id alone when the status does not parse, or
\* nothing when the timestamp does not.
AnswerStatus(o) ==
  {"open"} \cup CASE exch[o] = "filled"               -> {"closed"}
                  [] exch[o] \in {"canceled", "expired"} -> {exch[o]}
                  [] OTHER                               -> {}

\* create_order returns.
CreateOrderAnswers(o) ==
  /\ call[o] = "sent"
  /\ exch[o] # "none"
  /\ \/ Populate(o, NewOrder)
     \/ Populate(o, [NewOrder EXCEPT !.eoi = TRUE])
     \/ \E st \in AnswerStatus(o) : Populate(o, [NewOrder EXCEPT !.eoi = TRUE, !.st = st])
  /\ call' = [call EXCEPT ![o] = "answered"]
  /\ UNCHANGED <<hash, owed, triggerVars, queues, activateTrading, apiUp, load,
                 exchVars, history, used>>

\* create_order raises: the exchange refused the order, or the request timed
\* out and may still reach it.  The order is REJECTED for the API and the
\* database alone; neither the trigger nor the hash is told.
CreateOrderFails(o) ==
  /\ call[o] = "sent"
  /\ LET order == [NewOrder EXCEPT !.st = "rejected", !.tRej = 1]
     IN /\ HandleLocally("api", o, order)
        /\ saved' = [saved EXCEPT ![o] = order]
  /\ \/ exch[o] = "none" /\ call' = [call EXCEPT ![o] = "refused"]
     \/ call' = [call EXCEPT ![o] = "timedout"]
  /\ UNCHANGED <<hash, owed, triggerVars, queues, activateTrading, apiUp, load,
                 exchVars, history, used>>

\* on_cancel_order_event, the exchange taking the request: it needs the
\* exchange's id of the order, and answers only that the request is queued.
CancelTaken ==
  /\ cancels # <<>>
  /\ Head(cancels).record.eoi
  /\ Live(Head(cancels).order)
  /\ cancels' = Tail(cancels)
  /\ UNCHANGED <<redis, triggerVars, toApi, toTrigger, apiVars, exchVars,
                 history, used>>

\* on_cancel_order_event, the exchange refusing it: CANCEL_REJECTED is kept by
\* the API alone.
CancelRefused ==
  /\ cancels # <<>>
  /\ LET c == Head(cancels)
     IN HandleLocally("api", c.order,
                      [c.record EXCEPT !.st = "cancel_rejected", !.tRej = 1])
  /\ cancels' = Tail(cancels)
  /\ UNCHANGED <<hash, owed, triggerVars, toApi, toTrigger, apiVars, exchVars,
                 history, used>>

\* _load_exchange_orders, first half: the hash is deleted.
LoadFlush ==
  /\ load.step = "flush"
  /\ hash' = [o \in Orders |-> Absent]
  /\ load' = [load EXCEPT !.step = "fetch"]
  /\ dropped' = dropped \cup {o \in Orders : hash[o] # Absent}
  /\ UNCHANGED <<cache, owed, triggerVars, queues, activateTrading, call,
                 saved, apiUp, exchVars, early, stale, used>>

\* load_markets raises before the hash is deleted, or fetch_open_orders after.
\* Nothing catches it: the task ends there, what it deleted stays deleted, and
\* the API goes on as if it had loaded.
LoadFails ==
  /\ load.step \in {"flush", "fetch"}
  /\ load' = [load EXCEPT !.step = "idle"]
  /\ UNCHANGED <<redis, triggerVars, queues, activateTrading, call, saved,
                 apiUp, exchVars, history, used>>

\* The exchange answers fetch_open_orders.
LoadFetch ==
  /\ load.step = "fetch"
  /\ load' = [step |-> "receive",
              todo |-> [o \in Orders |-> IF Live(o) THEN Fetched(o) ELSE Absent]]
  /\ dropped' = {}
  /\ UNCHANGED <<redis, triggerVars, queues, activateTrading, call, saved,
                 apiUp, exchVars, early, stale, used>>

\* Second half: every fetched order is received like a report.
LoadReceive(o) ==
  /\ load.step = "receive"
  /\ load.todo[o] # Absent
  /\ ReceivedOrder("api", o, load.todo[o])
  /\ load' = [load EXCEPT !.todo[o] = Absent]
  /\ stale' = MarkStale(o)
  /\ UNCHANGED <<hash, triggerVars, toApi, cancels, activateTrading, call,
                 saved, apiUp, exchVars, early, dropped, used>>

\* _load_exchange_data ends.  It publishes reload_all_orders on the channel of
\* the exchange, which no OrdersManager listens to: they subscribe to the
\* channels of their instruments.
LoadDone ==
  /\ load.step = "receive"
  /\ \A o \in Orders : load.todo[o] = Absent
  /\ owed["api"] = Absent
  /\ load' = [load EXCEPT !.step = "idle"]
  /\ UNCHANGED <<redis, triggerVars, queues, activateTrading, call, saved,
                 apiUp, exchVars, history, used>>

\* on_exchange_api_event with the action reload_data.
OnExchangeApiEvent ==
  /\ apiUp
  /\ load.step = "idle"
  /\ used.loads < MaxLoads
  /\ load' = [load EXCEPT !.step = "flush"]
  /\ used' = [used EXCEPT !.loads = @ + 1]
  /\ UNCHANGED <<redis, triggerVars, queues, activateTrading, call, saved,
                 apiUp, exchVars, history>>

-----------------------------------------------------------------------------
(* The exchange, and the websocket that hears it                             *)

\* The exchange moves the order on and reports it.
Report(o, from, to) ==
  /\ exch[o] \in from
  /\ exch' = [exch EXCEPT ![o] = to]
  /\ wire' = [wire EXCEPT ![o] = Append(@, OrderInfo(to))]
  /\ UNCHANGED <<redis, triggerVars, queues, apiVars, history, used>>

ExchangeAccepts(o) == call[o] \in {"sent", "timedout"} /\ Report(o, {"none"}, "open")
ExchangeFillsPart(o) == Report(o, {"open"}, "partial")
ExchangeEnds(o) == \E end \in Outcome : Report(o, {"open", "partial"}, end)

\* on_order_info_cb
OnOrderInfo(o) ==
  /\ wire[o] # <<>>
  /\ ReceivedOrder("ws", o, Head(wire[o]))
  /\ wire' = [wire EXCEPT ![o] = Tail(@)]
  /\ UNCHANGED <<hash, triggerVars, toApi, cancels, apiVars, exch, history,
                 used>>

\* The websocket was reconnecting when the report was sent.
LoseOrderInfo(o) ==
  /\ wire[o] # <<>>
  /\ used.lost < MaxLost
  /\ wire' = [wire EXCEPT ![o] = Tail(@)]
  /\ used' = [used EXCEPT !.lost = @ + 1]
  /\ UNCHANGED <<redis, triggerVars, queues, apiVars, exch, history>>

-----------------------------------------------------------------------------
TriggerNext == \/ \E o \in Orders : FireOrder(o) \/ OnOrderEvent(o) \/ CancelOrder(o)
               \/ Restart \/ Subscribe

ApiNext == \/ Run \/ CancelTaken \/ CancelRefused
           \/ \E o \in Orders : \/ OnOrderExchangeEvent(o)
                                \/ OnOrderExchangeEventSimulated(o)
                                \/ CreateOrderAnswers(o)
                                \/ CreateOrderFails(o)
           \/ LoadFlush \/ LoadFails \/ LoadFetch \/ LoadDone \/ OnExchangeApiEvent
           \/ \E o \in Orders : LoadReceive(o)

ExchangeNext == \E o \in Orders : ExchangeAccepts(o) \/ ExchangeFillsPart(o) \/ ExchangeEnds(o)

WsNext == \E o \in Orders : OnOrderInfo(o) \/ LoseOrderInfo(o)

Next == TriggerNext \/ ApiNext \/ ExchangeNext \/ WsNext \/ \E p \in Process : StoreRedis(p)

Spec == Init /\ [][Next]_vars

\* Every process keeps taking what reaches it and makes the writes it owes;
\* nothing obliges the trigger to fire or the exchange to end an order.
Fairness ==
  /\ \A p \in Process : WF_vars(StoreRedis(p))
  /\ \A o \in Orders : WF_vars(OnOrderEvent(o)) /\ WF_vars(OnOrderInfo(o))
  /\ WF_vars(Subscribe)

FairSpec == Spec /\ Fairness

-----------------------------------------------------------------------------
(* Properties                                                                *)

\* Nothing is on its way and no process owes a write: what the caches and the
\* hash say of an order is all they will ever say of it.
Quiet ==
  /\ trigger = "up" /\ toApi = {} /\ cancels = <<>> /\ load.step = "idle"
  /\ \A p \in Process : owed[p] = Absent
  /\ \A o \in Orders : toTrigger[o] = <<>> /\ wire[o] = <<>> /\ call[o] # "sent"

\* The exchange never had the order: the API got an error and told no one.
NeverLive(o) == exch[o] = "none" /\ call[o] \in {"refused", "timedout", "simulated"}

\* A record of an order that is not live is left behind for a known reason: the
\* API rejected the order, the order EXPIRED, which nothing deletes, or a
\* reload received it from a list fetched before it ended.
KnownLeftover(o) == NeverLive(o) \/ exch[o] = "expired" \/ o \in stale

\* Once everything is delivered, and unless a report was lost, a trigger that was
\* not restarted knows every order live at the exchange, and what else it
\* believes live is a known leftover.  A restarted one may have missed the last
\* news of an order.
TriggerAgrees ==
  Quiet /\ used.lost = 0 /\ used.restarts = 0 => \A o \in Orders :
    /\ Live(o) => cache["trigger"][o] # Absent
    /\ cache["trigger"][o] # Absent => Live(o) \/ KnownLeftover(o)

\* The same of the hash a restarted process loads, which may also keep the
\* NEW order whose write by the trigger came after the order had ended, and
\* misses the live orders that a load deleted before it failed, until the next
\* news of them is written or the next load lists them.
HashAgrees ==
  Quiet /\ used.lost = 0 => \A o \in Orders :
    /\ Live(o) => hash[o] # Absent \/ o \in dropped
    /\ hash[o] # Absent => Live(o) \/ KnownLeftover(o) \/ hash[o].st = "new"

\* Both: what the trigger and redis remember of the orders is what the exchange
\* has, but for what is known to be left behind or missed.
MemoriesAgree == TriggerAgrees /\ HashAgrees

\* A live order the trigger holds, and held when its ack came, can be cancelled:
\* its record carries the exchange's id, unless a report was lost or the trigger
\* already asked to before the ack; the merge then drops the ack, and its id.
AckedIsCancellable ==
  Quiet /\ used.lost = 0 /\ used.restarts = 0 => \A o \in Orders :
    Live(o) /\ cache["trigger"][o] # Absent => cache["trigger"][o].eoi \/ o \in early

\* The docstring of ExchangeAPI: balances, positions and orders are loaded,
\* THEN STATUS -> UP.
UpOnlyWhenLoaded == [][apiUp' # apiUp => load.step = "idle"]_vars

\* What the trigger sees of each order keeps to the life of an order: it never
\* moves back, except to the CANCEL the trigger itself writes, and once
\* forgotten it is not seen again, though nothing marks it as forgotten.
OrderSeen(o) == IF o \notin fired THEN "unborn"
                ELSE IF cache["trigger"][o] = Absent THEN "gone"
                ELSE cache["trigger"][o].st

View == INSTANCE OrderView WITH view <- [o \in Orders |-> OrderSeen(o)]

RefinesOrderView == View!Spec

\* An order that ended at the exchange, other than by expiring, is eventually
\* forgotten by the trigger for good, unless a report was lost.
EndedIsForgotten ==
  \A o \in Orders :
    exch[o] \in {"filled", "canceled"} ~> used.lost > 0 \/ [](cache["trigger"][o] = Absent)
=============================================================================
