------------------------- MODULE OrderLifecycleProofs -------------------------
(***************************************************************************)
(* The life of an order is well typed for any number of orders, loads,     *)
(* cancels, restarts and lost reports: whatever is merged, published,      *)
(* stored, mutated in place or fetched is a record of an order.            *)
(***************************************************************************)
EXTENDS OrderLifecycle, SequenceTheorems, TLAPS

\* What an OrdersManager keeps of an update is a record, and what it stores a
\* record or nothing.
LEMMA KeptTyped ==
  ASSUME NEW entry \in Entry, NEW update \in Order
  PROVE  Kept(entry, update) \in Order /\ Stored(Kept(entry, update)) \in Entry
  BY DEF Kept, Merge, Stored, Entry

LEMMA StoredTyped ==
  ASSUME NEW order \in Order
  PROVE  Stored(order) \in Entry
  BY DEF Stored, Entry

LEMMA RecTyped ==
  ASSUME NEW st \in Status, NEW time \in Nat, NEW filled \in Int
  PROVE  Rec(st, time, filled) \in Order
  BY DEF Rec, Order, NoStamp

LEMMA NewOrderTyped == NewOrder \in Order
  BY RecTyped DEF NewOrder, Status

LEMMA OrderInfoTyped ==
  ASSUME NEW st \in {"open", "partial"} \cup Outcome
  PROVE  OrderInfo(st) \in Order
<1>1. /\ Rec(st, 2, 0) \in Order /\ Rec(st, 2, 1) \in Order /\ Rec(st, 2, 2) \in Order
  BY RecTyped DEF Outcome, Status
<1>2. ASSUME NEW r \in Order
      PROVE  [r EXCEPT !.tFil = 1] \in Order /\ [r EXCEPT !.tCan = 1] \in Order
  BY DEF Order
<1>3. QED
  BY <1>1, <1>2 DEF OrderInfo, Outcome

LEMMA SettledTyped ==
  ASSUME NEW r \in Order, NEW st \in Status
  PROVE  [r EXCEPT !.st = st, !.filled = 2, !.eoi = TRUE] \in Order
<1>1. [r EXCEPT !.st = st] \in Order
  BY DEF Order
<1>2. ASSUME NEW q \in Order PROVE [q EXCEPT !.filled = 2] \in Order
  BY DEF Order
<1>3. ASSUME NEW q \in Order PROVE [q EXCEPT !.eoi = TRUE] \in Order
  BY DEF Order
<1>4. [[[r EXCEPT !.st = st] EXCEPT !.filled = 2] EXCEPT !.eoi = TRUE] \in Order
  BY <1>1, <1>2, <1>3
<1>5. QED
  BY <1>4

LEMMA FetchedTyped ==
  ASSUME NEW o
  PROVE  Fetched(o) \in Order
<1>1. Rec("open", 1, 0) \in Order /\ Rec("open", 1, 1) \in Order
  BY RecTyped DEF Status
<1>2. QED
  BY <1>1 DEF Fetched

-----------------------------------------------------------------------------
(* The conjuncts of TypeOK by the part of the state they are about, so that  *)
(* each action has only the parts it touches to answer for.                  *)

RedisTyped ==
  /\ cache \in [Process -> [Orders -> Entry]]
  /\ hash \in [Orders -> Entry]
  /\ owed \in [Process -> [order: Orders, record: Order] \cup {Absent}]

QueuesTyped ==
  /\ toApi \subseteq fired
  /\ cancels \in Seq([order: Orders, record: Order])
  /\ toTrigger \in [Orders -> Seq(Order)]

TriggerTyped == fired \subseteq Orders /\ trigger \in {"up", "loaded"}

ApiTyped ==
  /\ call \in [Orders -> {"idle", "sent", "answered", "refused", "timedout", "simulated"}]
  /\ saved \in [Orders -> Entry]
  /\ activateTrading \in TradingModes
  /\ apiUp \in BOOLEAN
  /\ load \in [step: {"idle", "flush", "fetch", "receive"}, todo: [Orders -> Entry]]

ExchangeTyped ==
  /\ exch \in [Orders -> {"none", "open", "partial"} \cup Outcome]
  /\ wire \in [Orders -> Seq(Order)]

BoundsTyped ==
  /\ used \in [loads: 0..MaxLoads, cancels: 0..MaxCancels,
               restarts: 0..MaxRestarts, lost: 0..MaxLost]
  /\ early \subseteq Orders /\ stale \subseteq Orders /\ dropped \subseteq Orders

LEMMA TypeParts ==
  TypeOK <=> /\ RedisTyped /\ QueuesTyped /\ TriggerTyped
             /\ ApiTyped /\ ExchangeTyped /\ BoundsTyped
  BY DEF TypeOK, RedisTyped, QueuesTyped, TriggerTyped, ApiTyped, ExchangeTyped,
         BoundsTyped

LEMMA TypePartsNext ==
  TypeOK' <=> /\ RedisTyped' /\ QueuesTyped' /\ TriggerTyped'
              /\ ApiTyped' /\ ExchangeTyped' /\ BoundsTyped'
  BY DEF TypeOK, RedisTyped, QueuesTyped, TriggerTyped, ApiTyped, ExchangeTyped,
         BoundsTyped

LEMMA PartsUnchanged ==
  /\ RedisTyped /\ UNCHANGED redis => RedisTyped'
  /\ QueuesTyped /\ UNCHANGED <<queues, fired>> => QueuesTyped'
  /\ TriggerTyped /\ UNCHANGED triggerVars => TriggerTyped'
  /\ ApiTyped /\ UNCHANGED apiVars => ApiTyped'
  /\ ExchangeTyped /\ UNCHANGED exchVars => ExchangeTyped'
  /\ BoundsTyped /\ UNCHANGED <<history, used>> => BoundsTyped'
  BY DEF RedisTyped, QueuesTyped, TriggerTyped, ApiTyped, ExchangeTyped, BoundsTyped,
         redis, queues, triggerVars, apiVars, exchVars, history

-----------------------------------------------------------------------------
LEMMA TypeInit == Init => TypeOK
<1> SUFFICES ASSUME Init PROVE TypeOK
  OBVIOUS
<1>1. <<>> \in Seq(Order) /\ <<>> \in Seq([order: Orders, record: Order])
  BY EmptySeq
<1>2. RedisTyped /\ TriggerTyped
  BY DEF Init, RedisTyped, TriggerTyped, Entry
<1>3. QueuesTyped
  BY <1>1 DEF Init, QueuesTyped
<1>4. ApiTyped
  BY DEF Init, ApiTyped, Entry
<1>5. ExchangeTyped
  BY <1>1 DEF Init, ExchangeTyped
<1>6. BoundsTyped
  BY LifecycleAssumption DEF Init, BoundsTyped
<1>7. QED
  BY <1>2, <1>3, <1>4, <1>5, <1>6, TypeParts

\* handler_order, without an event and with one.
LEMMA HandleTyped ==
  ASSUME RedisTyped, NEW p \in Process, NEW o \in Orders, NEW order \in Order
  PROVE  /\ HandleLocally(p, o, order) /\ UNCHANGED <<hash, owed>> => RedisTyped'
         /\ HandleAndOwe(p, o, order) /\ UNCHANGED hash => RedisTyped'
         /\ Kept(cache[p][o], order) \in Order
<1>1. cache[p][o] \in Entry
  BY DEF RedisTyped
<1>2. /\ Kept(cache[p][o], order) \in Order
      /\ Stored(Kept(cache[p][o], order)) \in Entry
  BY <1>1, KeptTyped
<1>3. HandleLocally(p, o, order) => cache' \in [Process -> [Orders -> Entry]]
  BY <1>2 DEF RedisTyped, HandleLocally
<1>4. HandleAndOwe(p, o, order) =>
        /\ HandleLocally(p, o, order)
        /\ owed' \in [Process -> [order: Orders, record: Order] \cup {Absent}]
  <2> DEFINE debt == [order |-> o, record |-> Kept(cache[p][o], order)]
  <2>1. debt \in [order: Orders, record: Order]
    BY <1>2
  <2>2. HandleAndOwe(p, o, order) => owed' = [owed EXCEPT ![p] = debt]
    BY DEF HandleAndOwe
  <2>3. HandleAndOwe(p, o, order) => HandleLocally(p, o, order)
    BY DEF HandleAndOwe
  <2> HIDE DEF debt
  <2>4. QED
    BY <2>1, <2>2, <2>3 DEF RedisTyped
<1>5. QED
  BY <1>2, <1>3, <1>4 DEF RedisTyped

LEMMA ReceivedTyped ==
  ASSUME RedisTyped, QueuesTyped, NEW p \in Process, NEW o \in Orders, NEW order \in Order,
         ReceivedOrder(p, o, order), UNCHANGED <<hash, fired, toApi, cancels>>
  PROVE  RedisTyped' /\ QueuesTyped'
<1>1. RedisTyped' /\ Kept(cache[p][o], order) \in Order
  BY HandleTyped DEF ReceivedOrder
<1>2. toTrigger[o] \in Seq(Order)
  BY DEF QueuesTyped
<1>3. Append(toTrigger[o], Kept(cache[p][o], order)) \in Seq(Order)
  BY <1>1, <1>2, AppendProperties
<1>4. toTrigger' \in [Orders -> Seq(Order)]
  BY <1>3 DEF ReceivedOrder, QueuesTyped
<1>5. QED
  BY <1>1, <1>4 DEF QueuesTyped

-----------------------------------------------------------------------------
(* One step per action.                                                      *)

LEMMA TriggerTypedNext ==
  ASSUME TypeOK, TriggerNext
  PROVE  TypeOK'
<1>0. /\ RedisTyped /\ QueuesTyped /\ TriggerTyped
      /\ ApiTyped /\ ExchangeTyped /\ BoundsTyped
  BY TypeParts
<1>1. ASSUME NEW o \in Orders, FireOrder(o) PROVE TypeOK'
  <2>1. RedisTyped'
    BY <1>0, <1>1, HandleTyped, NewOrderTyped DEF FireOrder, Process
  <2>2. QueuesTyped' /\ TriggerTyped'
    BY <1>0, <1>1 DEF FireOrder, QueuesTyped, TriggerTyped
  <2>3. ApiTyped' /\ ExchangeTyped' /\ BoundsTyped'
    BY <1>0, <1>1, PartsUnchanged DEF FireOrder
  <2>4. QED
    BY <2>1, <2>2, <2>3, TypePartsNext
<1>2. ASSUME NEW o \in Orders, OnOrderEvent(o) PROVE TypeOK'
  <2>1. Head(toTrigger[o]) \in Order /\ Tail(toTrigger[o]) \in Seq(Order)
    <3>1. toTrigger[o] \in Seq(Order) /\ toTrigger[o] # <<>>
      BY <1>0, <1>2 DEF QueuesTyped, OnOrderEvent
    <3>2. QED
      BY <3>1, HeadTailProperties
  <2>2. RedisTyped'
    BY <1>0, <1>2, <2>1, HandleTyped DEF OnOrderEvent, Process
  <2>3. QueuesTyped'
    BY <1>0, <1>2, <2>1 DEF OnOrderEvent, QueuesTyped, triggerVars
  <2>4. TriggerTyped' /\ ApiTyped' /\ ExchangeTyped' /\ BoundsTyped'
    BY <1>0, <1>2, PartsUnchanged DEF OnOrderEvent
  <2>5. QED
    BY <2>2, <2>3, <2>4, TypePartsNext
<1>3. ASSUME NEW o \in Orders, CancelOrder(o) PROVE TypeOK'
  <2>1. cache["trigger"][o] \in Order
    BY <1>0, <1>3 DEF RedisTyped, Entry, CancelOrder, Process
  <2>2. [cache["trigger"][o] EXCEPT !.st = "cancel"] \in Order
    BY <2>1 DEF Order, Status
  <2>3. /\ cache' \in [Process -> [Orders -> Entry]]
        /\ cache'["trigger"][o] \in Order
    BY <1>0, <1>3, <2>2 DEF CancelOrder, RedisTyped, Entry, Process
  <2>4. [order |-> o, record |-> cache'["trigger"][o]] \in [order: Orders, record: Order]
    BY <2>3
  <2>5. cancels' \in Seq([order: Orders, record: Order])
    <3> DEFINE asked == [order |-> o, record |-> cache'["trigger"][o]]
    <3>1. asked \in [order: Orders, record: Order]
      BY <2>4
    <3>2. cancels \in Seq([order: Orders, record: Order]) /\ cancels' = Append(cancels, asked)
      BY <1>0, <1>3 DEF CancelOrder, QueuesTyped
    <3> HIDE DEF asked
    <3>3. QED
      BY <3>1, <3>2, AppendProperties
  <2>6. RedisTyped' /\ QueuesTyped'
    BY <1>0, <1>3, <2>3, <2>5 DEF CancelOrder, RedisTyped, QueuesTyped, triggerVars
  <2>7. BoundsTyped'
    <3>1. used' \in [loads: 0..MaxLoads, cancels: 0..MaxCancels,
                     restarts: 0..MaxRestarts, lost: 0..MaxLost]
      <4>1. /\ used \in [loads: 0..MaxLoads, cancels: 0..MaxCancels,
                         restarts: 0..MaxRestarts, lost: 0..MaxLost]
            /\ used.cancels < MaxCancels
            /\ used' = [used EXCEPT !.cancels = @ + 1]
        BY <1>0, <1>3 DEF CancelOrder, BoundsTyped
      <4>2. used.cancels + 1 \in 0..MaxCancels
        BY <4>1, LifecycleAssumption
      <4>3. QED
        BY <4>1, <4>2
    <3>2. early' \subseteq Orders /\ stale' \subseteq Orders /\ dropped' \subseteq Orders
      <4>1. early' \subseteq early \cup {o} /\ stale' = stale /\ dropped' = dropped
        BY <1>3 DEF CancelOrder
      <4>2. QED
        BY <1>0, <4>1 DEF BoundsTyped
    <3>3. QED
      BY <3>1, <3>2 DEF BoundsTyped
  <2>8. TriggerTyped' /\ ApiTyped' /\ ExchangeTyped'
    BY <1>0, <1>3, PartsUnchanged DEF CancelOrder
  <2>9. QED
    BY <2>6, <2>7, <2>8, TypePartsNext
<1>4. CASE Restart
  <2>1. RedisTyped'
    BY <1>0, <1>4 DEF Restart, RedisTyped, Process
  <2>2. QueuesTyped' /\ TriggerTyped'
    BY <1>0, <1>4, EmptySeq DEF Restart, QueuesTyped, TriggerTyped
  <2>3. BoundsTyped'
    BY <1>0, <1>4, LifecycleAssumption DEF Restart, BoundsTyped, history
  <2>4. ApiTyped' /\ ExchangeTyped'
    BY <1>0, <1>4, PartsUnchanged DEF Restart
  <2>5. QED
    BY <2>1, <2>2, <2>3, <2>4, TypePartsNext
<1>5. CASE Subscribe
  <2>1. TriggerTyped'
    BY <1>0, <1>5 DEF Subscribe, TriggerTyped
  <2>2. RedisTyped' /\ QueuesTyped' /\ ApiTyped' /\ ExchangeTyped' /\ BoundsTyped'
    BY <1>0, <1>5, PartsUnchanged DEF Subscribe
  <2>3. QED
    BY <2>1, <2>2, TypePartsNext
<1>6. QED
  BY <1>1, <1>2, <1>3, <1>4, <1>5 DEF TriggerNext

LEMMA ApiTypedNext ==
  ASSUME TypeOK, ApiNext
  PROVE  TypeOK'
<1>0. /\ RedisTyped /\ QueuesTyped /\ TriggerTyped
      /\ ApiTyped /\ ExchangeTyped /\ BoundsTyped
  BY TypeParts
<1>1. CASE Run
  <2>1. ApiTyped'
    BY <1>0, <1>1 DEF Run, ApiTyped
  <2>2. QED
    BY <1>0, <1>1, <2>1, PartsUnchanged, TypePartsNext DEF Run, queues, triggerVars
<1>2. CASE CancelTaken \/ CancelRefused
  <2>1. /\ Head(cancels) \in [order: Orders, record: Order]
        /\ Tail(cancels) \in Seq([order: Orders, record: Order])
    <3>1. cancels # <<>> /\ cancels \in Seq([order: Orders, record: Order])
      BY <1>0, <1>2 DEF CancelTaken, CancelRefused, QueuesTyped
    <3>2. QED
      BY <3>1, HeadTailProperties
  <2>2. QueuesTyped'
    BY <1>0, <1>2, <2>1 DEF CancelTaken, CancelRefused, QueuesTyped, triggerVars
  <2>3. RedisTyped'
    <3>1. CASE CancelTaken
      BY <1>0, <3>1, PartsUnchanged DEF CancelTaken
    <3>2. CASE CancelRefused
      <4> DEFINE order == [Head(cancels).record EXCEPT !.st = "cancel_rejected", !.tRej = 1]
      <4>1. Head(cancels).record \in Order /\ Head(cancels).order \in Orders
        BY <2>1
      <4>2. order \in Order
        BY <4>1 DEF Order, Status
      <4>3. HandleLocally("api", Head(cancels).order, order) /\ UNCHANGED <<hash, owed>>
        BY <3>2 DEF CancelRefused
      <4> HIDE DEF order
      <4>4. QED
        BY <1>0, <4>1, <4>2, <4>3, HandleTyped DEF Process
    <3>3. QED
      BY <1>2, <3>1, <3>2
  <2>4. TriggerTyped' /\ ApiTyped' /\ ExchangeTyped' /\ BoundsTyped'
    BY <1>0, <1>2, PartsUnchanged DEF CancelTaken, CancelRefused
  <2>5. QED
    BY <2>2, <2>3, <2>4, TypePartsNext
<1>3. ASSUME NEW o \in Orders, OnOrderExchangeEvent(o) PROVE TypeOK'
  <2>1. RedisTyped'
    BY <1>0, <1>3, HandleTyped, NewOrderTyped DEF OnOrderExchangeEvent, Process
  <2>2. QueuesTyped'
    BY <1>0, <1>3 DEF OnOrderExchangeEvent, QueuesTyped, triggerVars
  <2>3. ApiTyped'
    BY <1>0, <1>3 DEF OnOrderExchangeEvent, ApiTyped
  <2>4. TriggerTyped' /\ ExchangeTyped' /\ BoundsTyped'
    BY <1>0, <1>3, PartsUnchanged DEF OnOrderExchangeEvent
  <2>5. QED
    BY <2>1, <2>2, <2>3, <2>4, TypePartsNext
<1>4. ASSUME NEW o \in Orders, OnOrderExchangeEventSimulated(o) PROVE TypeOK'
  <2> DEFINE order == [NewOrder EXCEPT !.st = SimulatedStatus(@), !.filled = 2, !.eoi = TRUE]
  <2>1. order \in Order
    <3>1. SimulatedStatus(NewOrder.st) \in Status /\ NewOrder \in Order
      BY NewOrderTyped DEF SimulatedStatus, Order, Status
    <3>2. QED
      BY <3>1, SettledTyped
  <2>2. /\ cache' = [cache EXCEPT !["api"][o] = order] /\ UNCHANGED <<hash, owed>>
        /\ saved' = [saved EXCEPT ![o] = order]
        /\ call' = [call EXCEPT ![o] = "simulated"]
        /\ UNCHANGED <<activateTrading, apiUp, load>>
    BY <1>4 DEF OnOrderExchangeEventSimulated
  <2>3. order \in Entry
    BY <2>1 DEF Entry
  <2> HIDE DEF order
  <2>4. RedisTyped' /\ ApiTyped'
    BY <1>0, <2>2, <2>3 DEF RedisTyped, ApiTyped
  <2>5. QueuesTyped'
    BY <1>0, <1>4 DEF OnOrderExchangeEventSimulated, QueuesTyped, triggerVars
  <2>6. TriggerTyped' /\ ExchangeTyped' /\ BoundsTyped'
    BY <1>0, <1>4, PartsUnchanged DEF OnOrderExchangeEventSimulated
  <2>7. QED
    BY <2>4, <2>5, <2>6, TypePartsNext
<1>5. ASSUME NEW o \in Orders, CreateOrderAnswers(o) PROVE TypeOK'
  <2>1. \E order \in Order : Populate(o, order)
    <3>1. /\ [NewOrder EXCEPT !.eoi = TRUE] \in Order
          /\ \A st \in Status : [NewOrder EXCEPT !.eoi = TRUE, !.st = st] \in Order
      BY NewOrderTyped DEF Order
    <3>2. AnswerStatus(o) \subseteq Status
      BY <1>0 DEF AnswerStatus, Status, ExchangeTyped, Outcome
    <3>3. QED
      BY <1>5, <3>1, <3>2, NewOrderTyped DEF CreateOrderAnswers
  <2>2. PICK order \in Order : Populate(o, order)
    BY <2>1
  <2>3. cache' \in [Process -> [Orders -> Entry]] /\ saved' \in [Orders -> Entry]
    BY <1>0, <2>2 DEF Populate, RedisTyped, ApiTyped, Entry
  <2>4. RedisTyped' /\ ApiTyped'
    BY <1>0, <1>5, <2>3 DEF CreateOrderAnswers, RedisTyped, ApiTyped
  <2>5. QueuesTyped' /\ TriggerTyped' /\ ExchangeTyped' /\ BoundsTyped'
    BY <1>0, <1>5, PartsUnchanged DEF CreateOrderAnswers, triggerVars
  <2>6. QED
    BY <2>4, <2>5, TypePartsNext
<1>6. ASSUME NEW o \in Orders, CreateOrderFails(o) PROVE TypeOK'
  <2> DEFINE order == [NewOrder EXCEPT !.st = "rejected", !.tRej = 1]
  <2>1. order \in Order
    BY NewOrderTyped DEF Order, Status
  <2>2. /\ HandleLocally("api", o, order) /\ UNCHANGED <<hash, owed>>
        /\ saved' = [saved EXCEPT ![o] = order]
    BY <1>6 DEF CreateOrderFails
  <2> HIDE DEF order
  <2>3. RedisTyped'
    BY <1>0, <2>1, <2>2, HandleTyped DEF Process
  <2>4. ApiTyped'
    BY <1>0, <1>6, <2>1, <2>2 DEF CreateOrderFails, ApiTyped, Entry
  <2>5. QueuesTyped' /\ TriggerTyped' /\ ExchangeTyped' /\ BoundsTyped'
    BY <1>0, <1>6, PartsUnchanged DEF CreateOrderFails, triggerVars
  <2>6. QED
    BY <2>3, <2>4, <2>5, TypePartsNext
<1>7. CASE LoadFlush
  <2>1. RedisTyped' /\ ApiTyped'
    BY <1>0, <1>7 DEF LoadFlush, RedisTyped, ApiTyped, Entry
  <2>2. BoundsTyped'
    BY <1>0, <1>7 DEF LoadFlush, BoundsTyped
  <2>3. QED
    BY <1>0, <1>7, <2>1, <2>2, PartsUnchanged, TypePartsNext DEF LoadFlush, triggerVars
<1>8. CASE LoadFetch
  <2>1. [o \in Orders |-> IF Live(o) THEN Fetched(o) ELSE Absent] \in [Orders -> Entry]
    BY FetchedTyped DEF Entry
  <2>2. ApiTyped'
    BY <1>0, <1>8, <2>1 DEF LoadFetch, ApiTyped
  <2>3. BoundsTyped'
    BY <1>0, <1>8 DEF LoadFetch, BoundsTyped
  <2>4. QED
    BY <1>0, <1>8, <2>2, <2>3, PartsUnchanged, TypePartsNext DEF LoadFetch, triggerVars
<1>9. CASE LoadDone \/ LoadFails
  <2>1. ApiTyped'
    BY <1>0, <1>9 DEF LoadDone, LoadFails, ApiTyped
  <2>2. QED
    BY <1>0, <1>9, <2>1, PartsUnchanged, TypePartsNext DEF LoadDone, LoadFails, triggerVars
<1>10. CASE OnExchangeApiEvent
  <2>1. ApiTyped'
    BY <1>0, <1>10 DEF OnExchangeApiEvent, ApiTyped
  <2>2. BoundsTyped'
    BY <1>0, <1>10, LifecycleAssumption DEF OnExchangeApiEvent, BoundsTyped, history
  <2>3. QED
    BY <1>0, <1>10, <2>1, <2>2, PartsUnchanged, TypePartsNext DEF OnExchangeApiEvent, triggerVars
<1>11. ASSUME NEW o \in Orders, LoadReceive(o) PROVE TypeOK'
  <2>1. load.todo[o] \in Order
    BY <1>0, <1>11 DEF LoadReceive, ApiTyped, Entry
  <2>2. RedisTyped' /\ QueuesTyped'
    BY <1>0, <1>11, <2>1, ReceivedTyped DEF LoadReceive, Process, triggerVars
  <2>3. ApiTyped'
    BY <1>0, <1>11 DEF LoadReceive, ApiTyped, Entry
  <2>4. BoundsTyped'
    BY <1>0, <1>11 DEF LoadReceive, BoundsTyped, MarkStale
  <2>5. TriggerTyped' /\ ExchangeTyped'
    BY <1>0, <1>11, PartsUnchanged DEF LoadReceive
  <2>6. QED
    BY <2>2, <2>3, <2>4, <2>5, TypePartsNext
<1>12. QED
  BY <1>1, <1>2, <1>3, <1>4, <1>5, <1>6, <1>7, <1>8, <1>9, <1>10, <1>11 DEF ApiNext

LEMMA ExchangeTypedNext ==
  ASSUME TypeOK, ExchangeNext
  PROVE  TypeOK'
<1>0. /\ RedisTyped /\ QueuesTyped /\ TriggerTyped
      /\ ApiTyped /\ ExchangeTyped /\ BoundsTyped
  BY TypeParts
<1>1. ASSUME NEW o \in Orders, NEW from, NEW to \in {"open", "partial"} \cup Outcome,
             Report(o, from, to)
      PROVE  TypeOK'
  <2>1. wire[o] \in Seq(Order) /\ OrderInfo(to) \in Order
    BY <1>0, OrderInfoTyped DEF ExchangeTyped
  <2>2. Append(wire[o], OrderInfo(to)) \in Seq(Order)
    BY <2>1, AppendProperties
  <2>3. ExchangeTyped'
    BY <1>0, <1>1, <2>2 DEF Report, ExchangeTyped
  <2>4. QED
    BY <1>0, <1>1, <2>3, PartsUnchanged, TypePartsNext DEF Report, triggerVars
<1>2. QED
  BY <1>1 DEF ExchangeNext, ExchangeAccepts, ExchangeFillsPart, ExchangeEnds

LEMMA WsTypedNext ==
  ASSUME TypeOK, WsNext
  PROVE  TypeOK'
<1>0. /\ RedisTyped /\ QueuesTyped /\ TriggerTyped
      /\ ApiTyped /\ ExchangeTyped /\ BoundsTyped
  BY TypeParts
<1>1. ASSUME NEW o \in Orders, wire[o] # <<>>
      PROVE  Head(wire[o]) \in Order /\ Tail(wire[o]) \in Seq(Order)
  <2>1. wire[o] \in Seq(Order)
    BY <1>0 DEF ExchangeTyped
  <2>2. QED
    BY <1>1, <2>1, HeadTailProperties
<1>2. ASSUME NEW o \in Orders, OnOrderInfo(o) PROVE TypeOK'
  <2>1. Head(wire[o]) \in Order /\ Tail(wire[o]) \in Seq(Order)
    BY <1>1, <1>2 DEF OnOrderInfo
  <2>2. RedisTyped' /\ QueuesTyped'
    BY <1>0, <1>2, <2>1, ReceivedTyped DEF OnOrderInfo, Process, triggerVars
  <2>3. ExchangeTyped'
    BY <1>0, <1>2, <2>1 DEF OnOrderInfo, ExchangeTyped
  <2>4. TriggerTyped' /\ ApiTyped' /\ BoundsTyped'
    BY <1>0, <1>2, PartsUnchanged DEF OnOrderInfo
  <2>5. QED
    BY <2>2, <2>3, <2>4, TypePartsNext
<1>3. ASSUME NEW o \in Orders, LoseOrderInfo(o) PROVE TypeOK'
  <2>1. Tail(wire[o]) \in Seq(Order)
    BY <1>1, <1>3 DEF LoseOrderInfo
  <2>2. ExchangeTyped'
    BY <1>0, <1>3, <2>1 DEF LoseOrderInfo, ExchangeTyped
  <2>3. BoundsTyped'
    BY <1>0, <1>3, LifecycleAssumption DEF LoseOrderInfo, BoundsTyped, history
  <2>4. RedisTyped' /\ QueuesTyped' /\ TriggerTyped' /\ ApiTyped'
    BY <1>0, <1>3, PartsUnchanged DEF LoseOrderInfo, triggerVars
  <2>5. QED
    BY <2>2, <2>3, <2>4, TypePartsNext
<1>4. QED
  BY <1>2, <1>3 DEF WsNext

LEMMA StoreRedisTyped ==
  ASSUME TypeOK, NEW p \in Process, StoreRedis(p)
  PROVE  TypeOK'
<1>0. /\ RedisTyped /\ QueuesTyped /\ TriggerTyped
      /\ ApiTyped /\ ExchangeTyped /\ BoundsTyped
  BY TypeParts
<1>1. owed[p] \in [order: Orders, record: Order]
  BY <1>0 DEF StoreRedis, RedisTyped
<1>2. owed[p].order \in Orders /\ Stored(owed[p].record) \in Entry
  BY <1>1, StoredTyped
<1>3. RedisTyped'
  BY <1>0, <1>2 DEF StoreRedis, RedisTyped
<1>4. BoundsTyped'
  BY <1>0, <1>2 DEF StoreRedis, BoundsTyped, MarkStale
<1>5. QueuesTyped' /\ TriggerTyped' /\ ApiTyped' /\ ExchangeTyped'
  BY <1>0, PartsUnchanged DEF StoreRedis, triggerVars
<1>6. QED
  BY <1>3, <1>4, <1>5, TypePartsNext

-----------------------------------------------------------------------------
LEMMA TypeNext == TypeOK /\ [Next]_vars => TypeOK'
<1> SUFFICES ASSUME TypeOK, [Next]_vars PROVE TypeOK'
  OBVIOUS
<1>1. CASE UNCHANGED vars
  <2>1. /\ RedisTyped /\ QueuesTyped /\ TriggerTyped
        /\ ApiTyped /\ ExchangeTyped /\ BoundsTyped
    BY TypeParts
  <2>2. QED
    BY <1>1, <2>1, PartsUnchanged, TypePartsNext DEF vars, triggerVars
<1>2. QED
  BY <1>1, TriggerTypedNext, ApiTypedNext, ExchangeTypedNext, WsTypedNext,
     StoreRedisTyped DEF Next

\* Every cache, the hash, every queue and every write owed holds records of
\* orders only, however reports, cancels, loads and restarts interleave.
THEOREM LifecycleTyped == Spec => []TypeOK
<1>1. Init => TypeOK
  BY TypeInit
<1>2. QED
  BY <1>1, TypeNext, PTL DEF Spec

-----------------------------------------------------------------------------
(* What the merge decides here: what is kept is one of the two, is final as  *)
(* soon as one of them is, and any report or fetched record beats a NEW one. *)

LEMMA KeptOneOf ==
  ASSUME NEW entry \in Entry, NEW update \in Order
  PROVE  /\ Kept(entry, update) \in {entry, update}
         /\ Kept(entry, update) \in Order
         /\ entry = Absent => Kept(entry, update) = update
  BY LifecycleAssumption DEF Kept, Merge, Entry

LEMMA KeptFinal ==
  ASSUME NEW entry \in Entry, NEW update \in Order
  PROVE  IsFinal(Kept(entry, update)) <=>
           IsFinal(update) \/ (entry # Absent /\ IsFinal(entry))
  BY DEF Kept, Merge, KeepsSelf, Entry

LEMMA KeptNews ==
  ASSUME NEW entry \in Entry, NEW update \in Order, entry # Absent,
         entry.st = "new", update.st # "new"
  PROVE  Kept(entry, update) = update
<1>1. ~IsFinal(entry)
  BY DEF IsFinal, FinalStatus
<1>2. Rank[update.st] > Rank[entry.st]
  BY DEF Rank, Order, Status
<1>3. QED
  BY <1>1, <1>2 DEF Kept, Merge, KeepsSelf, LaterStatus, IsFinal

LEMMA StoredIs ==
  ASSUME NEW order \in Order
  PROVE  /\ IsFinal(order) => Stored(order) = Absent
         /\ ~IsFinal(order) => Stored(order) = order /\ Stored(order) # Absent
  BY LifecycleAssumption DEF Stored

-----------------------------------------------------------------------------
(* The invariant, order by order.                                            *)

\* The order is over and the exchange reported it with a final status.
Ended(o) == exch[o] \in {"filled", "canceled"}

Owes(p, o) == owed[p] # Absent /\ owed[p].order = o

\* A published record carries the exchange's id, unless its cancel was asked early.
Message(o, r) == r.st # "new" /\ (r.eoi \/ o \in early)
Known(o, r) == r.st = "new" \/ r.eoi \/ o \in early

\* Nobody has heard of an order that was not fired.
Unfired(o) ==
  o \notin fired =>
    /\ cache["trigger"][o] = Absent /\ hash[o] = Absent
    /\ \A p \in Process : ~Owes(p, o)
    /\ toTrigger[o] = <<>> /\ wire[o] = <<>> /\ load.todo[o] = Absent
    /\ exch[o] = "none" /\ call[o] = "idle"

\* The API calls for an order once, and only a call brings it to the exchange.
CalledOnce(o) ==
  /\ o \in toApi => call[o] = "idle"
  /\ o \in fired /\ call[o] = "idle" => o \in toApi
  /\ call[o] \in {"idle", "refused", "simulated"} => exch[o] = "none"
  /\ call[o] = "answered" \/ wire[o] # <<>> => exch[o] # "none"
  /\ load.todo[o] # Absent =>
       /\ exch[o] # "none" /\ load.step = "receive"
       /\ load.todo[o].st = "open" /\ load.todo[o].eoi

\* Of the caches only the API's may keep a final record, which an answer wrote
\* in place; and a record without the exchange's id is NEW or of an early cancel.
Remembered(o) ==
  /\ \A p \in {"trigger", "ws"} : cache[p][o] # Absent => ~IsFinal(cache[p][o])
  /\ hash[o] # Absent => ~IsFinal(hash[o]) /\ Known(o, hash[o])
  /\ cache["trigger"][o] # Absent => Known(o, cache["trigger"][o])
  /\ cache["ws"][o] # Absent => Message(o, cache["ws"][o])
  /\ cache["api"][o] # Absent =>
       /\ Known(o, cache["api"][o])
       /\ IsFinal(cache["api"][o]) => Ended(o) \/ call[o] = "simulated"

\* What is on its way is final only if the order ended; of the exchange's
\* reports, the last is.
OnWay(o) ==
  /\ Owes("trigger", o) => owed["trigger"].record.st = "new"
  /\ \A p \in {"ws", "api"} : Owes(p, o) =>
       Message(o, owed[p].record) /\ (IsFinal(owed[p].record) => Ended(o))
  /\ \A i \in 1..Len(toTrigger[o]) :
       Message(o, toTrigger[o][i]) /\ (IsFinal(toTrigger[o][i]) => Ended(o))
  /\ \A i \in 1..Len(wire[o]) :
       /\ wire[o][i].st # "new" /\ wire[o][i].eoi
       /\ IsFinal(wire[o][i]) <=> (i = Len(wire[o]) /\ Ended(o))

\* A trigger that was not restarted has every order it fired until it ended; and
\* unless a report was lost the end, and before it the first ack, is in its cache
\* or on the way to it.
TriggerTold(o) ==
  used.restarts = 0 =>
    /\ trigger = "up"
    /\ o \in fired /\ ~Ended(o) => cache["trigger"][o] # Absent
    /\ used.lost = 0 /\ Ended(o) /\ o \notin stale =>
         \/ wire[o] # <<>>
         \/ toTrigger[o] # <<>> /\ IsFinal(toTrigger[o][Len(toTrigger[o])])
         \/ toTrigger[o] = <<>> /\ cache["trigger"][o] = Absent
    /\ used.lost = 0 /\ Live(o) =>
         \/ wire[o] # <<>> \/ toTrigger[o] # <<>>
         \/ cache["trigger"][o] # Absent /\ cache["trigger"][o].st # "new"

\* The hash has a live order, or it is to be written, or a load deleted it; and of
\* an order that ended it has nothing, or the NEW of its start, or the end is
\* still to be written.
HashTold(o) ==
  used.lost = 0 =>
    /\ Live(o) => \/ hash[o] # Absent \/ wire[o] # <<>>
                  \/ Owes("ws", o) \/ Owes("api", o)
                  \/ load.todo[o] # Absent \/ o \in dropped
    /\ Ended(o) /\ o \notin stale =>
         wire[o] # <<>> \/ IF Owes("ws", o) THEN IsFinal(owed["ws"].record)
                           ELSE hash[o] = Absent \/ hash[o].st = "new"

\* Unless a reload put it back, nothing follows the final record of an order.
LastWord(o) ==
  used.restarts = 0 /\ o \notin stale =>
    /\ \A i \in 1..Len(toTrigger[o]) : IsFinal(toTrigger[o][i]) =>
         i = Len(toTrigger[o]) /\ wire[o] = <<>>
    /\ o \in fired /\ cache["trigger"][o] = Absent =>
         toTrigger[o] = <<>> /\ wire[o] = <<>> /\ Ended(o)

OrderInv(o) ==
  /\ Unfired(o) /\ CalledOnce(o) /\ Remembered(o) /\ OnWay(o)
  /\ TriggerTold(o) /\ HashTold(o) /\ LastWord(o)

\* A cancel carries the exchange's id, or was asked early.
CancelsKnown ==
  \A i \in 1..Len(cancels) : cancels[i].record.eoi \/ cancels[i].order \in early

LifecycleInv == TypeOK /\ CancelsKnown /\ \A o \in Orders : OrderInv(o)

-----------------------------------------------------------------------------
(* A step that leaves what concerns an order alone keeps its invariant.      *)

SameOrder(o) ==
  /\ \A p \in Process : /\ cache'[p][o] = cache[p][o]
                        /\ Owes(p, o)' <=> Owes(p, o)
                        /\ Owes(p, o) => owed'[p] = owed[p]
  /\ hash'[o] = hash[o] /\ toTrigger'[o] = toTrigger[o] /\ wire'[o] = wire[o]
  /\ exch'[o] = exch[o] /\ call'[o] = call[o]
  /\ load'.todo[o] = load.todo[o] /\ load'.step = load.step
  /\ o \in toApi' <=> o \in toApi
  /\ o \in fired' <=> o \in fired
  /\ o \in early => o \in early'
  /\ o \in stale => o \in stale'
  /\ o \in dropped => o \in dropped'
  /\ used'.restarts = 0 => used.restarts = 0 /\ trigger' = trigger
  /\ used'.lost = 0 => used.lost = 0

LEMMA SameOrderKeeps ==
  ASSUME NEW o \in Orders, OrderInv(o), SameOrder(o)
  PROVE  OrderInv(o)'
<1> USE DEF SameOrder, OrderInv, Process
<1>0. Ended(o)' <=> Ended(o)
  BY DEF Ended
<1>1. Unfired(o)'
  BY DEF Unfired
<1>2. CalledOnce(o)'
  BY DEF CalledOnce
<1>3. Remembered(o)'
  BY <1>0 DEF Remembered, Known, Message
<1>4. OnWay(o)'
  BY <1>0 DEF OnWay, Message
<1>5. TriggerTold(o)'
  BY <1>0 DEF TriggerTold, Live
<1>6. HashTold(o)'
  BY <1>0 DEF HashTold, Live
<1>7. LastWord(o)'
  BY <1>0 DEF LastWord
<1>8. QED
  BY <1>1, <1>2, <1>3, <1>4, <1>5, <1>6, <1>7
LEMMA NoLength ==
  ASSUME NEW s \in Seq(Order), Len(s) = 0
  PROVE  s = <<>>
  BY EmptySeq

LEMMA Appended ==
  ASSUME NEW s \in Seq(Order), NEW k \in Order
  PROVE  /\ Append(s, k) # <<>> /\ Len(s) \in Nat /\ Len(Append(s, k)) = Len(s) + 1
         /\ Append(s, k)[Len(Append(s, k))] = k
         /\ \A i \in 1..Len(Append(s, k)) :
              \/ i = Len(Append(s, k)) /\ Append(s, k)[i] = k
              \/ i \in 1..Len(s) /\ i < Len(Append(s, k)) /\ Append(s, k)[i] = s[i]
<1>1. /\ Append(s, k) # <<>> /\ Len(s) \in Nat /\ Len(Append(s, k)) = Len(s) + 1
      /\ \A i \in 1..Len(s) : Append(s, k)[i] = s[i]
      /\ Append(s, k)[Len(s) + 1] = k
  BY AppendProperties
<1>2. QED
  BY <1>1

-----------------------------------------------------------------------------
(* What one handler does to the entries of the caches, and what is owed.     *)

LEMMA HandledEntry ==
  ASSUME TypeOK, NEW p \in Process, NEW o \in Orders, NEW order \in Order,
         HandleLocally(p, o, order)
  PROVE  /\ cache'[p][o] = Stored(Kept(cache[p][o], order))
         /\ \A x \in Orders, r \in Process : x # o \/ r # p => cache'[r][x] = cache[r][x]
  BY DEF HandleLocally, TypeOK

LEMMA OwedEntry ==
  ASSUME TypeOK, NEW p \in Process, NEW o \in Orders, NEW order \in Order,
         HandleAndOwe(p, o, order)
  PROVE  /\ owed[p] = Absent
         /\ Owes(p, o)' /\ owed'[p].record = Kept(cache[p][o], order)
         /\ \A x \in Orders : x # o => ~Owes(p, x)'
         /\ \A r \in Process : r # p => owed'[r] = owed[r]
<1> DEFINE debt == [order |-> o, record |-> Kept(cache[p][o], order)]
<1>1. Kept(cache[p][o], order) \in Order
  BY KeptOneOf DEF TypeOK
<1>2. owed[p] = Absent /\ owed' = [owed EXCEPT ![p] = debt] /\ HandleLocally(p, o, order)
  BY DEF HandleAndOwe
<1>3. debt # Absent /\ debt.order = o /\ debt.record = Kept(cache[p][o], order)
  <2>1. debt \in [order: Orders, record: Order]
    BY <1>1
  <2>2. QED
    BY <2>1, LifecycleAssumption
<1> HIDE DEF debt
<1>4. QED
  BY <1>2, <1>3 DEF TypeOK, Owes
-----------------------------------------------------------------------------
(* One lemma per action: whatever order it is about, the invariant of every  *)
(* order holds after it.                                                     *)

LEMMA FireOrderKeeps ==
  ASSUME LifecycleInv, NEW q \in Orders, FireOrder(q), NEW o \in Orders
  PROVE  OrderInv(o)'
<1>0. TypeOK /\ OrderInv(o)
  BY DEF LifecycleInv
<1>1. /\ cache'["trigger"][q] = Stored(Kept(cache["trigger"][q], NewOrder))
      /\ \A x \in Orders, r \in Process : x # q \/ r # "trigger" => cache'[r][x] = cache[r][x]
  BY <1>0, HandledEntry, NewOrderTyped DEF FireOrder, HandleAndOwe, Process
<1>2. /\ owed["trigger"] = Absent
      /\ Owes("trigger", q)' /\ owed'["trigger"].record = Kept(cache["trigger"][q], NewOrder)
      /\ \A x \in Orders : x # q => ~Owes("trigger", x)'
      /\ \A r \in Process : r # "trigger" => owed'[r] = owed[r]
  BY <1>0, OwedEntry, NewOrderTyped DEF FireOrder, Process
<1>3. /\ trigger = "up" /\ q \notin fired /\ fired' = fired \cup {q} /\ toApi' = toApi \cup {q}
      /\ UNCHANGED <<hash, trigger, cancels, toTrigger, call, load, exch, wire, early, stale, dropped, used>>
  BY DEF FireOrder, apiVars, exchVars, history
<1>4. CASE o # q
  <2>1. SameOrder(o)
    BY <1>1, <1>2, <1>3, <1>4 DEF SameOrder, Owes, Process
  <2>2. QED
    BY <1>0, <2>1, SameOrderKeeps
<1>5. CASE o = q
  <2>1. /\ cache'["trigger"][o] = NewOrder /\ owed'["trigger"].record = NewOrder
        /\ NewOrder # Absent /\ NewOrder.st = "new" /\ ~IsFinal(NewOrder)
    <3>1. cache["trigger"][o] = Absent
      BY <1>0, <1>3, <1>5 DEF OrderInv, Unfired
    <3>2. Kept(cache["trigger"][o], NewOrder) = NewOrder
      BY <3>1, NewOrderTyped, KeptOneOf DEF Entry
    <3>3. NewOrder.st = "new" /\ ~IsFinal(NewOrder)
      BY DEF NewOrder, Rec, IsFinal, FinalStatus
    <3>4. QED
      BY <1>1, <1>2, <1>5, <3>2, <3>3, NewOrderTyped, StoredIs
  <2>2. Unfired(o) /\ Unfired(o)'
    BY <1>0, <1>3, <1>5 DEF OrderInv, Unfired
  <2>3. /\ exch[o] = "none" /\ call[o] = "idle" /\ wire[o] = <<>> /\ toTrigger[o] = <<>>
        /\ hash[o] = Absent /\ load.todo[o] = Absent
        /\ \A r \in Process : ~Owes(r, o)
    BY <1>3, <1>5, <2>2 DEF Unfired
  <2>4. CalledOnce(o)'
    BY <1>3, <1>5, <2>3 DEF CalledOnce
  <2>5. Remembered(o)'
    BY <1>0, <1>1, <1>3, <1>5, <2>1, <2>3 DEF OrderInv, Remembered, Known, Message, Ended, Process
  <2>6. OnWay(o)'
    BY <1>2, <1>3, <1>5, <2>1, <2>3 DEF OnWay, Owes, Process
  <2>7. TriggerTold(o)' /\ LastWord(o)'
    BY <1>3, <2>1, <2>3 DEF TriggerTold, LastWord, Live, Ended
  <2>8. HashTold(o)'
    BY <1>3, <2>3 DEF HashTold, Live, Ended
  <2>9. QED
    BY <2>2, <2>4, <2>5, <2>6, <2>7, <2>8 DEF OrderInv
<1>6. QED
  BY <1>4, <1>5

LEMMA OnOrderEventKeeps ==
  ASSUME LifecycleInv, NEW q \in Orders, OnOrderEvent(q), NEW o \in Orders
  PROVE  OrderInv(o)'
<1>0. TypeOK /\ OrderInv(o) /\ OrderInv(q)
  BY DEF LifecycleInv
<1>1. /\ toTrigger[q] \in Seq(Order) /\ toTrigger[q] # <<>>
      /\ Head(toTrigger[q]) \in Order /\ Head(toTrigger[q]) = toTrigger[q][1]
  BY <1>0 DEF OnOrderEvent, TypeOK
<1>2. /\ cache'["trigger"][q] = Stored(Kept(cache["trigger"][q], Head(toTrigger[q])))
      /\ \A x \in Orders, r \in Process : x # q \/ r # "trigger" => cache'[r][x] = cache[r][x]
  BY <1>0, <1>1, HandledEntry DEF OnOrderEvent, Process
<1>3. /\ trigger = "up" /\ toTrigger' = [toTrigger EXCEPT ![q] = Tail(toTrigger[q])]
      /\ UNCHANGED <<hash, owed, fired, trigger, toApi, cancels, call, load, exch, wire,
                     early, stale, dropped, used>>
  BY DEF OnOrderEvent, triggerVars, apiVars, exchVars, history
<1>4. CASE o # q
  <2>1. SameOrder(o)
    BY <1>0, <1>2, <1>3, <1>4 DEF SameOrder, Owes, Process, TypeOK
  <2>2. QED
    BY <1>0, <2>1, SameOrderKeeps
<1>5. CASE o = q
  <2> DEFINE m == Head(toTrigger[o])
             n == Len(toTrigger[o])
  <2>1. /\ cache["trigger"][o] \in Entry /\ cache'["trigger"][o] = Stored(Kept(cache["trigger"][o], m))
        /\ m \in Order /\ m = toTrigger[o][1] /\ n \in Nat /\ n >= 1
        /\ toTrigger'[o] = Tail(toTrigger[o]) /\ Len(toTrigger'[o]) = n - 1
        /\ \A i \in 1..(n - 1) : toTrigger'[o][i] = toTrigger[o][i + 1]
        /\ toTrigger'[o] \in Seq(Order)
    BY <1>0, <1>1, <1>2, <1>3, <1>5 DEF TypeOK, Process
  <2>2. /\ o \in fired
        /\ Message(o, m) /\ (IsFinal(m) => Ended(o))
        /\ cache["trigger"][o] # Absent => ~IsFinal(cache["trigger"][o]) /\ Known(o, cache["trigger"][o])
    BY <1>0, <1>1, <1>5, <2>1 DEF OrderInv, Unfired, OnWay, Remembered
  <2>3. /\ IsFinal(m) => cache'["trigger"][o] = Absent
        /\ ~IsFinal(m) => /\ cache'["trigger"][o] # Absent /\ ~IsFinal(cache'["trigger"][o])
                          /\ cache'["trigger"][o] \in {m, cache["trigger"][o]}
                          /\ cache["trigger"][o] = Absent => cache'["trigger"][o] = m
                          /\ cache["trigger"][o] # Absent /\ cache["trigger"][o].st = "new" =>
                               cache'["trigger"][o] = m
    <3> DEFINE k == Kept(cache["trigger"][o], m)
    <3>1. /\ k \in {cache["trigger"][o], m} /\ k \in Order
          /\ cache["trigger"][o] = Absent => k = m
          /\ IsFinal(k) <=> IsFinal(m) \/ (cache["trigger"][o] # Absent /\ IsFinal(cache["trigger"][o]))
          /\ cache["trigger"][o] # Absent /\ cache["trigger"][o].st = "new" => k = m
      BY <2>1, <2>2, KeptOneOf, KeptFinal, KeptNews DEF Message
    <3> HIDE DEF k
    <3>2. /\ IsFinal(k) => cache'["trigger"][o] = Absent
          /\ ~IsFinal(k) => cache'["trigger"][o] = k /\ cache'["trigger"][o] # Absent
      BY <2>1, <3>1, StoredIs DEF k
    <3>3. QED
      BY <2>2, <3>1, <3>2
  <2> HIDE DEF m, n
  <2>4. Unfired(o)'
    BY <1>3, <2>2 DEF Unfired
  <2>5. CalledOnce(o)'
    BY <1>0, <1>3, <1>5 DEF OrderInv, CalledOnce
  <2>6. Remembered(o)'
    BY <1>0, <1>2, <1>3, <1>5, <2>2, <2>3 DEF OrderInv, Remembered, Known, Message, Ended, Process
  <2>7. OnWay(o)'
    <3>1. \A i \in 1..Len(toTrigger'[o]) :
            Message(o, toTrigger'[o][i]) /\ (IsFinal(toTrigger'[o][i]) => Ended(o))
      BY <1>0, <2>1 DEF OrderInv, OnWay, n
    <3>2. QED
      BY <1>0, <1>3, <3>1 DEF OrderInv, OnWay, Message, Owes, Ended
  <2>8. TriggerTold(o)'
    <3>1. CASE n = 1
      <4>1. toTrigger'[o] = <<>>
        <5>1. Len(toTrigger'[o]) = 0 /\ toTrigger'[o] \in Seq(Order)
          BY <2>1, <3>1
        <5>2. QED
          BY <5>1, NoLength
      <4>2. QED
        BY <1>0, <1>3, <2>1, <2>2, <2>3, <3>1, <4>1 DEF OrderInv, TriggerTold, Live, Ended, Message, n
    <3>2. CASE n > 1
      <4>1. toTrigger'[o] # <<>> /\ toTrigger'[o][n - 1] = toTrigger[o][n]
        BY <2>1, <3>2, EmptySeq
      <4>2. QED
        BY <1>0, <1>3, <2>1, <2>2, <2>3, <4>1 DEF OrderInv, TriggerTold, Live, Ended, n
    <3>3. QED
      BY <2>1, <3>1, <3>2
  <2>9. HashTold(o)'
    BY <1>0, <1>3 DEF OrderInv, HashTold, Live, Ended, Owes
  <2>10. LastWord(o)'
    <3> SUFFICES ASSUME used.restarts = 0, o \notin stale
                 PROVE  LastWord(o)'
      BY <1>3 DEF LastWord
    <3>1. \A i \in 1..n : IsFinal(toTrigger[o][i]) => i = n /\ wire[o] = <<>>
      BY <1>0 DEF OrderInv, LastWord, n
    <3>2. \A i \in 1..(n - 1) : IsFinal(toTrigger'[o][i]) => i = n - 1 /\ wire[o] = <<>>
      BY <2>1, <3>1
    <3>3. IsFinal(m) => n = 1 /\ wire[o] = <<>> /\ Ended(o)
      BY <2>1, <2>2, <3>1
    <3>4. n = 1 => toTrigger'[o] = <<>>
      <4>1. n = 1 => Len(toTrigger'[o]) = 0 /\ toTrigger'[o] \in Seq(Order)
        BY <2>1
      <4>2. QED
        BY <4>1, NoLength
    <3>5. QED
      BY <1>3, <2>1, <2>3, <3>2, <3>3, <3>4 DEF LastWord, Ended
  <2>11. QED
    BY <2>4, <2>5, <2>6, <2>7, <2>8, <2>9, <2>10 DEF OrderInv
<1>6. QED
  BY <1>4, <1>5
LEMMA CancelOrderKeeps ==
  ASSUME LifecycleInv, NEW q \in Orders, CancelOrder(q), NEW o \in Orders
  PROVE  OrderInv(o)'
<1>0. TypeOK /\ OrderInv(o)
  BY DEF LifecycleInv
<1> DEFINE entry == cache["trigger"][q]
<1>1. /\ entry \in Order /\ cache'["trigger"][q] = [entry EXCEPT !.st = "cancel"]
      /\ \A x \in Orders, r \in Process : x # q \/ r # "trigger" => cache'[r][x] = cache[r][x]
  BY <1>0 DEF CancelOrder, TypeOK, Entry, Process
<1>2. /\ cache'["trigger"][q] # Absent /\ cache'["trigger"][q].st = "cancel"
      /\ cache'["trigger"][q].eoi = entry.eoi
  BY <1>1, LifecycleAssumption DEF Order, Status
<1>3. /\ trigger = "up" /\ entry # Absent
      /\ early \subseteq early' /\ (~entry.eoi => q \in early')
      /\ UNCHANGED <<hash, owed, fired, trigger, toApi, toTrigger, call, load, exch, wire, stale, dropped>>
      /\ used'.restarts = used.restarts /\ used'.lost = used.lost
  BY <1>0 DEF CancelOrder, triggerVars, apiVars, exchVars, TypeOK
<1> HIDE DEF entry
<1>4. CASE o # q
  <2>1. SameOrder(o)
    BY <1>1, <1>3, <1>4 DEF SameOrder, Owes, Process
  <2>2. QED
    BY <1>0, <2>1, SameOrderKeeps
<1>5. CASE o = q
  <2>1. o \in fired
    BY <1>0, <1>3, <1>5 DEF OrderInv, Unfired, entry
  <2>2. Unfired(o)' /\ CalledOnce(o)'
    BY <1>0, <1>3, <2>1 DEF OrderInv, Unfired, CalledOnce
  <2>3. Remembered(o)'
    BY <1>0, <1>1, <1>2, <1>3, <1>5
    DEF OrderInv, Remembered, Known, Message, Ended, Process, IsFinal, FinalStatus
  <2>4. OnWay(o)'
    BY <1>0, <1>3 DEF OrderInv, OnWay, Owes, Message, Ended
  <2>5. TriggerTold(o)' /\ LastWord(o)'
    BY <1>0, <1>2, <1>3, <1>5, <2>1
    DEF OrderInv, TriggerTold, LastWord, Live, Ended, entry, IsFinal, FinalStatus
  <2>6. HashTold(o)'
    BY <1>0, <1>3 DEF OrderInv, HashTold, Live, Ended, Owes
  <2>7. QED
    BY <2>2, <2>3, <2>4, <2>5, <2>6 DEF OrderInv
<1>6. QED
  BY <1>4, <1>5

LEMMA RestartKeeps ==
  ASSUME LifecycleInv, Restart, NEW o \in Orders
  PROVE  OrderInv(o)'
<1>0. TypeOK /\ OrderInv(o)
  BY DEF LifecycleInv
<1>1. /\ cache'["trigger"] = hash
      /\ \A r \in {"api", "ws"} : cache'[r] = cache[r] /\ owed'[r] = owed[r]
      /\ owed'["trigger"] = Absent /\ toTrigger'[o] = <<>>
      /\ used'.restarts # 0 /\ used'.lost = used.lost
      /\ UNCHANGED <<hash, fired, toApi, call, load, exch, wire, early, stale, dropped>>
  BY <1>0, LifecycleAssumption DEF Restart, TypeOK, Process, apiVars, exchVars, history
<1>2. Unfired(o)' /\ CalledOnce(o)'
  BY <1>0, <1>1 DEF OrderInv, Unfired, CalledOnce, Owes, Process
<1>3. Remembered(o)'
  BY <1>0, <1>1 DEF OrderInv, Remembered, Known, Message, Ended
<1>4. OnWay(o)'
  BY <1>0, <1>1 DEF OrderInv, OnWay, Owes, Message, Ended
<1>5. TriggerTold(o)' /\ LastWord(o)'
  BY <1>1 DEF TriggerTold, LastWord
<1>6. HashTold(o)'
  BY <1>0, <1>1 DEF OrderInv, HashTold, Live, Ended, Owes
<1>7. QED
  BY <1>2, <1>3, <1>4, <1>5, <1>6 DEF OrderInv

\* The subscription, the API's announcement and a cancel taken: no order changes.
LEMMA AsideKeeps ==
  ASSUME LifecycleInv, Subscribe \/ Run \/ CancelTaken \/ UNCHANGED vars, NEW o \in Orders
  PROVE  OrderInv(o)'
<1>0. TypeOK /\ OrderInv(o)
  BY DEF LifecycleInv
<1>1. /\ UNCHANGED <<cache, hash, owed, fired, toApi, toTrigger, call, load, exch, wire,
                     early, stale, dropped, used>>
      /\ trigger' = trigger \/ trigger = "loaded"
  BY DEF Subscribe, Run, CancelTaken, vars, redis, triggerVars, queues, apiVars, exchVars, history
<1>2. used.restarts = 0 => trigger' = trigger
  BY <1>0, <1>1 DEF OrderInv, TriggerTold
<1>3. SameOrder(o)
  BY <1>1, <1>2 DEF SameOrder, Owes
<1>4. QED
  BY <1>0, <1>3, SameOrderKeeps

-----------------------------------------------------------------------------
(* The API's own steps touch its cache and its call of one order only.       *)

ApiOnly(q) ==
  /\ \A x \in Orders, r \in Process : x # q \/ r # "api" => cache'[r][x] = cache[r][x]
  /\ \A x \in Orders : x # q => call'[x] = call[x] /\ (x \in toApi' <=> x \in toApi)
  /\ q \in fired \/ call'[q] = call[q]
  /\ UNCHANGED <<hash, owed, fired, trigger, toTrigger, load, exch, wire, early, stale, dropped, used>>

ApiEntry(o) ==
  cache["api"][o] # Absent =>
    /\ Known(o, cache["api"][o])
    /\ IsFinal(cache["api"][o]) => Ended(o) \/ call[o] = "simulated"

LEMMA ApiOnlyKeeps ==
  ASSUME LifecycleInv, NEW q \in Orders, ApiOnly(q), CalledOnce(q)', ApiEntry(q)',
         NEW o \in Orders
  PROVE  OrderInv(o)'
<1>0. TypeOK /\ OrderInv(o)
  BY DEF LifecycleInv
<1>1. CASE o # q
  <2>1. SameOrder(o)
    BY <1>1 DEF ApiOnly, SameOrder, Owes, Process
  <2>2. QED
    BY <1>0, <2>1, SameOrderKeeps
<1>2. CASE o = q
  <2>1. Unfired(o)'
    BY <1>0, <1>2 DEF ApiOnly, OrderInv, Unfired, Owes, Process
  <2>2. Remembered(o)'
    BY <1>0, <1>2 DEF ApiOnly, ApiEntry, OrderInv, Remembered, Known, Message, Process
  <2>3. OnWay(o)'
    BY <1>0 DEF ApiOnly, OrderInv, OnWay, Owes, Message, Ended
  <2>4. TriggerTold(o)' /\ LastWord(o)'
    BY <1>0, <1>2 DEF ApiOnly, OrderInv, TriggerTold, LastWord, Live, Ended, Process
  <2>5. HashTold(o)'
    BY <1>0 DEF ApiOnly, OrderInv, HashTold, Live, Ended, Owes
  <2>6. QED
    BY <1>2, <2>1, <2>2, <2>3, <2>4, <2>5 DEF OrderInv
<1>3. QED
  BY <1>1, <1>2

LEMMA CancelRefusedKeeps ==
  ASSUME LifecycleInv, CancelRefused, NEW o \in Orders
  PROVE  OrderInv(o)'
<1>0. TypeOK
  BY DEF LifecycleInv
<1>1. \E q \in Orders, refusal \in Order :
        HandleLocally("api", q, refusal) /\ ~IsFinal(refusal) /\ Known(q, refusal)
  <2> DEFINE c == Head(cancels)
             r == [c.record EXCEPT !.st = "cancel_rejected", !.tRej = 1]
  <2>1. cancels \in Seq([order: Orders, record: Order]) /\ cancels # <<>>
    BY <1>0 DEF CancelRefused, TypeOK
  <2>2. c \in [order: Orders, record: Order] /\ c = cancels[1] /\ 1 \in 1..Len(cancels)
    <3>1. Len(cancels) \in Nat \ {0}
      BY <2>1, EmptySeq
    <3>2. c = cancels[1]
      BY DEF Head
    <3>3. c \in [order: Orders, record: Order]
      BY <2>1, HeadTailProperties
    <3>4. QED
      BY <3>1, <3>2, <3>3
  <2>3. c.record.eoi \/ c.order \in early
    BY <2>2 DEF LifecycleInv, CancelsKnown
  <2>4. /\ c.order \in Orders /\ r \in Order
        /\ r.st = "cancel_rejected" /\ r.eoi = c.record.eoi
    BY <2>2 DEF Order, Status
  <2>5. HandleLocally("api", c.order, r)
    BY DEF CancelRefused
  <2> HIDE DEF c, r
  <2>6. ~IsFinal(r) /\ Known(c.order, r)
    BY <2>3, <2>4 DEF Known, IsFinal, FinalStatus
  <2>7. QED
    BY <2>4, <2>5, <2>6
<1>2. PICK q \in Orders, refusal \in Order :
        HandleLocally("api", q, refusal) /\ ~IsFinal(refusal) /\ Known(q, refusal)
  BY <1>1
<1>3. UNCHANGED <<hash, owed, fired, trigger, toApi, toTrigger, call, load, exch, wire,
                  early, stale, dropped, used>>
  BY DEF CancelRefused, triggerVars, apiVars, exchVars, history
<1>4. /\ cache'["api"][q] = Stored(Kept(cache["api"][q], refusal))
      /\ \A x \in Orders, r \in Process : x # q \/ r # "api" => cache'[r][x] = cache[r][x]
  BY <1>0, <1>2, HandledEntry DEF Process
<1>5. ApiOnly(q)
  BY <1>3, <1>4 DEF ApiOnly
<1>6. OrderInv(q) /\ cache["api"][q] \in Entry
  BY <1>0, <1>2 DEF LifecycleInv, TypeOK, Process
<1>7. ApiEntry(q)'
  <2> DEFINE k == Kept(cache["api"][q], refusal)
  <2>1. k \in Order /\ (cache["api"][q] # Absent \/ k = refusal) /\ k \in {cache["api"][q], refusal}
    BY <1>2, <1>6, KeptOneOf
  <2> HIDE DEF k
  <2>2. cache'["api"][q] # Absent => cache'["api"][q] = k /\ ~IsFinal(k)
    BY <1>4, <2>1, StoredIs DEF k
  <2>3. Known(q, k)
    BY <1>2, <1>6, <2>1 DEF OrderInv, Remembered
  <2>4. QED
    BY <1>3, <2>2, <2>3 DEF ApiEntry, Known
<1>8. CalledOnce(q)'
  BY <1>3, <1>6 DEF OrderInv, CalledOnce
<1>9. QED
  BY <1>2, <1>5, <1>7, <1>8, ApiOnlyKeeps

LEMMA ExchangeEventKeeps ==
  ASSUME LifecycleInv, NEW q \in Orders, NEW o \in Orders,
         OnOrderExchangeEvent(q) \/ OnOrderExchangeEventSimulated(q)
  PROVE  OrderInv(o)'
<1>0. TypeOK /\ OrderInv(q)
  BY DEF LifecycleInv
<1>1. /\ q \in toApi /\ q \in fired /\ toApi' = toApi \ {q}
      /\ call' = [call EXCEPT ![q] = IF activateTrading THEN "sent" ELSE "simulated"]
      /\ UNCHANGED <<hash, owed, fired, trigger, toTrigger, load, exch, wire, early, stale, dropped, used>>
  BY <1>0 DEF OnOrderExchangeEvent, OnOrderExchangeEventSimulated, TypeOK, triggerVars, exchVars,
              history
<1>2. call[q] = "idle" /\ exch[q] = "none"
  BY <1>0, <1>1 DEF OrderInv, CalledOnce
<1>3. call'[q] = (IF activateTrading THEN "sent" ELSE "simulated")
  BY <1>0, <1>1 DEF TypeOK
<1>4. CalledOnce(q)'
  BY <1>0, <1>1, <1>2, <1>3 DEF OrderInv, CalledOnce
<1>5. CASE activateTrading
  <2>1. /\ cache'["api"][q] = Stored(Kept(cache["api"][q], NewOrder))
        /\ \A x \in Orders, r \in Process : x # q \/ r # "api" => cache'[r][x] = cache[r][x]
    <3>1. HandleLocally("api", q, NewOrder)
      BY <1>5 DEF OnOrderExchangeEvent, OnOrderExchangeEventSimulated
    <3>2. QED
      BY <1>0, <3>1, HandledEntry, NewOrderTyped DEF Process
  <2>2. ApiEntry(q)'
    <3> DEFINE k == Kept(cache["api"][q], NewOrder)
    <3>1. /\ k \in Order /\ (cache["api"][q] # Absent \/ k = NewOrder)
          /\ k \in {cache["api"][q], NewOrder}
      BY <1>0, NewOrderTyped, KeptOneOf DEF TypeOK, Process
    <3> HIDE DEF k
    <3>2. cache'["api"][q] # Absent => cache'["api"][q] = k /\ ~IsFinal(k)
      BY <2>1, <3>1, StoredIs DEF k
    <3>3. Known(q, k)
      BY <1>0, <3>1 DEF OrderInv, Remembered, Known, NewOrder, Rec
    <3>4. QED
      BY <1>1, <3>2, <3>3 DEF ApiEntry, Known
  <2>3. ApiOnly(q)
    BY <1>0, <1>1, <2>1 DEF ApiOnly, TypeOK
  <2>4. QED
    BY <1>4, <2>2, <2>3, ApiOnlyKeeps
<1>6. CASE ~activateTrading
  <2> DEFINE order == [NewOrder EXCEPT !.st = SimulatedStatus(@), !.filled = 2, !.eoi = TRUE]
  <2>1. cache' = [cache EXCEPT !["api"][q] = order] /\ order.eoi
    BY <1>6 DEF OnOrderExchangeEvent, OnOrderExchangeEventSimulated, NewOrder, Rec
  <2> HIDE DEF order
  <2>2. /\ cache'["api"][q] = order
        /\ \A x \in Orders, r \in Process : x # q \/ r # "api" => cache'[r][x] = cache[r][x]
    BY <1>0, <2>1 DEF TypeOK, Process
  <2>3. ApiEntry(q)'
    BY <1>3, <1>6, <2>1, <2>2 DEF ApiEntry, Known
  <2>4. ApiOnly(q)
    BY <1>0, <1>1, <2>2 DEF ApiOnly, TypeOK
  <2>5. QED
    BY <1>4, <2>3, <2>4, ApiOnlyKeeps
<1>7. QED
  BY <1>5, <1>6

LEMMA CreateOrderFailsKeeps ==
  ASSUME LifecycleInv, NEW q \in Orders, NEW o \in Orders, CreateOrderFails(q)
  PROVE  OrderInv(o)'
<1>0. TypeOK /\ OrderInv(q)
  BY DEF LifecycleInv
<1> DEFINE order == [NewOrder EXCEPT !.st = "rejected", !.tRej = 1]
<1>1. order \in Order /\ IsFinal(order)
  BY NewOrderTyped DEF Order, Status, IsFinal, FinalStatus
<1>2. /\ HandleLocally("api", q, order) /\ call[q] = "sent"
      /\ \/ exch[q] = "none" /\ call' = [call EXCEPT ![q] = "refused"]
         \/ call' = [call EXCEPT ![q] = "timedout"]
      /\ UNCHANGED <<hash, owed, fired, trigger, toApi, toTrigger, load, exch, wire, early, stale,
                     dropped, used>>
  BY DEF CreateOrderFails, triggerVars, queues, exchVars, history
<1> HIDE DEF order
<1>3. /\ cache'["api"][q] = Stored(Kept(cache["api"][q], order))
      /\ \A x \in Orders, r \in Process : x # q \/ r # "api" => cache'[r][x] = cache[r][x]
  BY <1>0, <1>1, <1>2, HandledEntry DEF Process
<1>4. cache'["api"][q] = Absent
  <2>1. cache["api"][q] \in Entry
    BY <1>0 DEF TypeOK, Process
  <2>2. Kept(cache["api"][q], order) \in Order /\ IsFinal(Kept(cache["api"][q], order))
    BY <1>1, <2>1, KeptOneOf, KeptFinal
  <2>3. QED
    BY <1>3, <2>2, StoredIs
<1>5. ApiEntry(q)'
  BY <1>4 DEF ApiEntry
<1>6. q \in fired
  BY <1>0, <1>2 DEF OrderInv, Unfired
<1>7. CalledOnce(q)'
  BY <1>0, <1>2 DEF OrderInv, CalledOnce, TypeOK
<1>8. ApiOnly(q)
  BY <1>0, <1>2, <1>3, <1>6 DEF ApiOnly, TypeOK
<1>9. QED
  BY <1>5, <1>7, <1>8, ApiOnlyKeeps

LEMMA CreateOrderAnswersKeeps ==
  ASSUME LifecycleInv, NEW q \in Orders, NEW o \in Orders, CreateOrderAnswers(q)
  PROVE  OrderInv(o)'
<1>0. TypeOK /\ OrderInv(q)
  BY DEF LifecycleInv
<1>1. /\ call[q] = "sent" /\ exch[q] # "none" /\ call' = [call EXCEPT ![q] = "answered"]
      /\ UNCHANGED <<hash, owed, fired, trigger, toApi, toTrigger, load, exch, wire, early, stale,
                     dropped, used>>
  BY DEF CreateOrderAnswers, triggerVars, queues, exchVars, history
<1>2. \E order : /\ Populate(q, order) /\ Known(q, order)
                 /\ IsFinal(order) => Ended(q)
  <2>1. /\ NewOrder.st = "new" /\ [NewOrder EXCEPT !.eoi = TRUE].st = "new"
        /\ ~IsFinal(NewOrder) /\ ~IsFinal([NewOrder EXCEPT !.eoi = TRUE])
    BY DEF NewOrder, Rec, IsFinal, FinalStatus
  <2>2. ASSUME NEW st \in AnswerStatus(q)
        PROVE  /\ [NewOrder EXCEPT !.eoi = TRUE, !.st = st].eoi
               /\ IsFinal([NewOrder EXCEPT !.eoi = TRUE, !.st = st]) => Ended(q)
    BY DEF NewOrder, Rec, IsFinal, FinalStatus, AnswerStatus, Ended
  <2>3. QED
    BY <2>1, <2>2 DEF CreateOrderAnswers, Known
<1>3. PICK order : Populate(q, order) /\ Known(q, order) /\ (IsFinal(order) => Ended(q))
  BY <1>2
<1>4. /\ cache'["api"][q] \in {order, cache["api"][q]}
      /\ \A x \in Orders, r \in Process : x # q \/ r # "api" => cache'[r][x] = cache[r][x]
  BY <1>0, <1>3 DEF Populate, TypeOK, Process
<1>5. ApiEntry(q)'
  BY <1>0, <1>1, <1>3, <1>4 DEF ApiEntry, OrderInv, Remembered, Known, Ended
<1>6. q \in fired
  BY <1>0, <1>1 DEF OrderInv, Unfired
<1>7. CalledOnce(q)'
  BY <1>0, <1>1 DEF OrderInv, CalledOnce, TypeOK
<1>8. ApiOnly(q)
  BY <1>0, <1>1, <1>4, <1>6 DEF ApiOnly, TypeOK
<1>9. QED
  BY <1>5, <1>7, <1>8, ApiOnlyKeeps
-----------------------------------------------------------------------------
(* The API's load.                                                           *)

LEMMA LoadStepKeeps ==
  ASSUME LifecycleInv, LoadFlush \/ LoadFails \/ LoadFetch \/ LoadDone \/ OnExchangeApiEvent,
         NEW o \in Orders
  PROVE  OrderInv(o)'
<1>0. TypeOK /\ OrderInv(o)
  BY DEF LifecycleInv
<1>1. /\ UNCHANGED <<cache, owed, fired, trigger, toApi, toTrigger, call, exch, wire, early, stale>>
      /\ used'.restarts = used.restarts /\ used'.lost = used.lost
  BY <1>0 DEF LoadFlush, LoadFails, LoadFetch, LoadDone, OnExchangeApiEvent, redis, triggerVars, queues,
              exchVars, history, TypeOK
<1>2. \/ /\ load.step = "flush" /\ load'.step = "fetch" /\ load'.todo = load.todo
         /\ hash'[o] = Absent
         /\ o \in dropped' <=> (o \in dropped \/ hash[o] # Absent)
      \/ /\ load.step \in {"flush", "fetch"} /\ load'.step = "idle" /\ load'.todo = load.todo
         /\ hash' = hash /\ dropped' = dropped
      \/ /\ load.step = "fetch" /\ load'.step = "receive"
         /\ load'.todo[o] = IF Live(o) THEN Fetched(o) ELSE Absent
         /\ hash' = hash
      \/ /\ load.step = "receive" /\ load'.step = "idle" /\ load'.todo = load.todo
         /\ load.todo[o] = Absent /\ hash' = hash /\ dropped' = dropped
      \/ /\ load.step = "idle" /\ load'.step = "flush" /\ load'.todo = load.todo
         /\ hash' = hash /\ dropped' = dropped
  BY <1>0 DEF LoadFlush, LoadFails, LoadFetch, LoadDone, OnExchangeApiEvent, redis, history, TypeOK
<1>3. Fetched(o).st = "open" /\ Fetched(o).eoi /\ Fetched(o) # Absent
  <2>1. Fetched(o) \in Order
    BY FetchedTyped
  <2>2. Fetched(o).st = "open" /\ Fetched(o).eoi
    <3>1. (1 > 0) = TRUE
      OBVIOUS
    <3>2. ASSUME NEW filled PROVE Rec("open", 1, filled).st = "open" /\ Rec("open", 1, filled).eoi
      BY <3>1, Zenon DEF Rec
    <3>3. QED
      BY <3>2 DEF Fetched
  <2>3. QED
    BY <2>1, <2>2, LifecycleAssumption
<1>4. Unfired(o)' /\ CalledOnce(o)'
  BY <1>0, <1>1, <1>2, <1>3 DEF OrderInv, Unfired, CalledOnce, Owes, Live
<1>5. Remembered(o)'
  BY <1>0, <1>1, <1>2 DEF OrderInv, Remembered, Known, Message, Ended
<1>6. OnWay(o)'
  BY <1>0, <1>1 DEF OrderInv, OnWay, Owes, Message, Ended
<1>7. TriggerTold(o)' /\ LastWord(o)'
  BY <1>0, <1>1 DEF OrderInv, TriggerTold, LastWord, Live, Ended
<1>8. HashTold(o)'
  BY <1>0, <1>1, <1>2, <1>3 DEF OrderInv, HashTold, CalledOnce, Live, Ended, Owes
<1>9. QED
  BY <1>4, <1>5, <1>6, <1>7, <1>8 DEF OrderInv

\* What is received is published as a message of the order, which is final only
\* if the order ended, and kept unless it is.
LEMMA ReceivedEntry ==
  ASSUME LifecycleInv, NEW p \in {"ws", "api"}, NEW q \in Orders, NEW order \in Order,
         ReceivedOrder(p, q, order), exch[q] # "none",
         order.st # "new", order.eoi, IsFinal(order) => Ended(q)
  PROVE  \E k \in Order :
           /\ Message(q, k) /\ (IsFinal(k) => Ended(q))
           /\ IsFinal(order) => IsFinal(k)
           /\ p = "ws" /\ IsFinal(k) => IsFinal(order)
           /\ IsFinal(k) => cache'[p][q] = Absent
           /\ ~IsFinal(k) => cache'[p][q] = k
           /\ \A x \in Orders, r \in Process : x # q \/ r # p => cache'[r][x] = cache[r][x]
           /\ owed[p] = Absent /\ Owes(p, q)' /\ owed'[p].record = k
           /\ \A x \in Orders : x # q => ~Owes(p, x)'
           /\ \A r \in Process : r # p => owed'[r] = owed[r]
           /\ \A x \in Orders : x # q => toTrigger'[x] = toTrigger[x]
           /\ toTrigger'[q] = IF trigger = "up" THEN Append(toTrigger[q], k) ELSE toTrigger[q]
<1> DEFINE entry == cache[p][q]
           k == Kept(entry, order)
<1>0. TypeOK /\ OrderInv(q) /\ p \in Process /\ entry \in Entry
  BY DEF LifecycleInv, TypeOK, Process
<1>1. /\ entry # Absent => Known(q, entry) /\ (IsFinal(entry) => Ended(q))
      /\ p = "ws" /\ entry # Absent => ~IsFinal(entry)
  BY <1>0 DEF OrderInv, Remembered, Known, Message, CalledOnce
<1>2. /\ k \in Order /\ k \in {entry, order} /\ (entry = Absent => k = order)
      /\ IsFinal(k) <=> IsFinal(order) \/ (entry # Absent /\ IsFinal(entry))
      /\ entry # Absent /\ entry.st = "new" => k = order
  BY <1>0, KeptOneOf, KeptFinal, KeptNews
<1>3. Message(q, k)
  BY <1>1, <1>2 DEF Message, Known
<1>4. /\ cache'[p][q] = Stored(k)
      /\ \A x \in Orders, r \in Process : x # q \/ r # p => cache'[r][x] = cache[r][x]
  BY <1>0, HandledEntry DEF ReceivedOrder, HandleAndOwe
<1>5. /\ owed[p] = Absent /\ Owes(p, q)' /\ owed'[p].record = k
      /\ \A x \in Orders : x # q => ~Owes(p, x)'
      /\ \A r \in Process : r # p => owed'[r] = owed[r]
  BY <1>0, OwedEntry DEF ReceivedOrder
<1>6. /\ \A x \in Orders : x # q => toTrigger'[x] = toTrigger[x]
      /\ toTrigger'[q] = IF trigger = "up" THEN Append(toTrigger[q], k) ELSE toTrigger[q]
  BY <1>0 DEF ReceivedOrder, TypeOK
<1> HIDE DEF entry, k
<1>7. /\ IsFinal(k) => cache'[p][q] = Absent
      /\ ~IsFinal(k) => cache'[p][q] = k
  BY <1>2, <1>4, StoredIs
<1>8. QED
  BY <1>1, <1>2, <1>3, <1>4, <1>5, <1>6, <1>7

LEMMA LoadReceiveKeeps ==
  ASSUME LifecycleInv, NEW q \in Orders, LoadReceive(q), NEW o \in Orders
  PROVE  OrderInv(o)'
<1>0. TypeOK /\ OrderInv(o) /\ OrderInv(q)
  BY DEF LifecycleInv
<1>1. /\ load.todo[q] \in Order /\ load.todo[q] # Absent /\ ReceivedOrder("api", q, load.todo[q])
      /\ load' = [load EXCEPT !.todo[q] = Absent]
      /\ stale' = IF Live(q) THEN stale ELSE stale \cup {q}
      /\ UNCHANGED <<hash, fired, trigger, toApi, call, exch, wire, early, dropped, used>>
  BY <1>0 DEF LoadReceive, MarkStale, TypeOK, Entry, triggerVars, exchVars
<1>2. /\ exch[q] # "none" /\ ~IsFinal(load.todo[q])
      /\ load.todo[q].st # "new" /\ load.todo[q].eoi
  BY <1>0, <1>1 DEF OrderInv, CalledOnce, IsFinal, FinalStatus
<1>3. PICK k \in Order :
        /\ Message(q, k) /\ (IsFinal(k) => Ended(q))
        /\ IsFinal(k) => cache'["api"][q] = Absent
        /\ ~IsFinal(k) => cache'["api"][q] = k
        /\ \A x \in Orders, r \in Process : x # q \/ r # "api" => cache'[r][x] = cache[r][x]
        /\ owed["api"] = Absent /\ Owes("api", q)' /\ owed'["api"].record = k
        /\ \A x \in Orders : x # q => ~Owes("api", x)'
        /\ \A r \in Process : r # "api" => owed'[r] = owed[r]
        /\ \A x \in Orders : x # q => toTrigger'[x] = toTrigger[x]
        /\ toTrigger'[q] = IF trigger = "up" THEN Append(toTrigger[q], k) ELSE toTrigger[q]
  BY <1>1, <1>2, ReceivedEntry
<1>4. load'.todo[q] = Absent /\ load'.step = load.step /\ \A x \in Orders \ {q} : load'.todo[x] = load.todo[x]
  BY <1>0, <1>1 DEF TypeOK
<1>5. CASE o # q
  <2>1. SameOrder(o)
    BY <1>1, <1>3, <1>4, <1>5 DEF SameOrder, Owes, Process
  <2>2. QED
    BY <1>0, <2>1, SameOrderKeeps
<1>6. CASE o = q
  <2>1. o \in fired
    BY <1>0, <1>1, <1>6 DEF OrderInv, Unfired
  <2>2. Unfired(o)' /\ CalledOnce(o)'
    BY <1>0, <1>1, <1>4, <1>6, <2>1 DEF OrderInv, Unfired, CalledOnce
  <2>3. Remembered(o)'
    BY <1>0, <1>1, <1>3, <1>6 DEF OrderInv, Remembered, Known, Message, Ended, Process
  <2>4. /\ toTrigger[o] \in Seq(Order)
        /\ \A i \in 1..Len(toTrigger'[o]) :
             toTrigger'[o][i] = k \/ (i \in 1..Len(toTrigger[o]) /\ toTrigger'[o][i] = toTrigger[o][i])
        /\ trigger = "up" => toTrigger'[o] # <<>>
    <3>1. toTrigger[o] \in Seq(Order)
      BY <1>0 DEF TypeOK
    <3>2. toTrigger'[o] = IF trigger = "up" THEN Append(toTrigger[o], k) ELSE toTrigger[o]
      BY <1>3, <1>6
    <3>3. QED
      BY <3>1, <3>2, Appended
  <2>5. OnWay(o)'
    <3>1. \A i \in 1..Len(toTrigger'[o]) :
            Message(o, toTrigger'[o][i]) /\ (IsFinal(toTrigger'[o][i]) => Ended(o))
      BY <1>0, <1>3, <1>6, <2>4 DEF OrderInv, OnWay
    <3>2. QED
      BY <1>0, <1>1, <1>3, <1>6, <3>1 DEF OrderInv, OnWay, Message, Owes, Ended, Process
  <2>6. TriggerTold(o)'
    <3>1. CASE Live(o)
      BY <1>0, <1>1, <1>3, <1>6, <2>4, <3>1 DEF OrderInv, TriggerTold, Live, Ended, Process
    <3>2. CASE ~Live(o)
      BY <1>0, <1>1, <1>3, <1>6, <3>2 DEF OrderInv, TriggerTold, Live, Ended, Process
    <3>3. QED
      BY <3>1, <3>2
  <2>7. HashTold(o)'
    BY <1>1, <1>3, <1>6 DEF HashTold, Live, Ended
  <2>8. LastWord(o)'
    <3>1. CASE ~Live(o)
      BY <1>1, <1>6, <3>1 DEF LastWord
    <3>2. CASE Live(o)
      <4>1. ~Ended(o) /\ ~Ended(o)'
        BY <1>1, <3>2 DEF Live, Ended
      <4>2. \A i \in 1..Len(toTrigger'[o]) : ~IsFinal(toTrigger'[o][i])
        BY <2>5, <4>1 DEF OnWay
      <4>3. used.restarts = 0 => cache'["trigger"][o] # Absent
        BY <1>0, <1>1, <1>3, <1>6, <2>1, <4>1 DEF OrderInv, TriggerTold, Process
      <4>4. QED
        BY <1>1, <4>2, <4>3 DEF LastWord
    <3>3. QED
      BY <3>1, <3>2
  <2>9. QED
    BY <2>2, <2>3, <2>5, <2>6, <2>7, <2>8 DEF OrderInv
<1>7. QED
  BY <1>5, <1>6
-----------------------------------------------------------------------------
(* The exchange, the websocket, and the write that follows a publication.    *)

LEMMA OrderInfoFinal ==
  ASSUME NEW st \in {"open", "partial"} \cup Outcome
  PROVE  /\ OrderInfo(st).st # "new" /\ OrderInfo(st).eoi
         /\ IsFinal(OrderInfo(st)) <=> st \in {"filled", "canceled"}
<1>1. (2 > 0) = TRUE
  OBVIOUS
<1>2. ASSUME NEW filled
      PROVE  /\ Rec(st, 2, filled).st = st /\ Rec(st, 2, filled).eoi
             /\ [Rec(st, 2, filled) EXCEPT !.tFil = 1].st = st
             /\ [Rec(st, 2, filled) EXCEPT !.tFil = 1].eoi
             /\ [Rec(st, 2, filled) EXCEPT !.tCan = 1].st = st
             /\ [Rec(st, 2, filled) EXCEPT !.tCan = 1].eoi
  BY <1>1, Zenon DEF Rec
<1>3. OrderInfo(st).st = st /\ OrderInfo(st).eoi
  BY <1>2 DEF OrderInfo, Outcome
<1>4. QED
  BY <1>3 DEF IsFinal, FinalStatus, Outcome

LEMMA ReportKeeps ==
  ASSUME LifecycleInv, NEW q \in Orders, NEW from \in SUBSET {"none", "open", "partial"},
         NEW to \in {"open", "partial"} \cup Outcome, Report(q, from, to),
         exch[q] # "none" \/ call[q] \in {"sent", "timedout"}, NEW o \in Orders
  PROVE  OrderInv(o)'
<1>0. TypeOK /\ OrderInv(o) /\ OrderInv(q)
  BY DEF LifecycleInv
<1>1. /\ exch[q] \in {"none", "open", "partial"} /\ exch' = [exch EXCEPT ![q] = to]
      /\ wire' = [wire EXCEPT ![q] = Append(wire[q], OrderInfo(to))]
      /\ UNCHANGED <<cache, hash, owed, fired, trigger, toApi, toTrigger, call, load, early, stale,
                     dropped, used>>
  BY DEF Report, redis, triggerVars, queues, apiVars, history
<1>2. CASE o # q
  <2>1. SameOrder(o)
    BY <1>0, <1>1, <1>2 DEF SameOrder, Owes, TypeOK
  <2>2. QED
    BY <1>0, <2>1, SameOrderKeeps
<1>3. CASE o = q
  <2>1. /\ exch'[o] = to /\ ~Ended(o) /\ (Ended(o)' <=> to \in {"filled", "canceled"})
        /\ wire[o] \in Seq(Order) /\ wire'[o] = Append(wire[o], OrderInfo(to))
    BY <1>0, <1>1, <1>3 DEF TypeOK, Ended
  <2>2. /\ wire'[o] # <<>>
        /\ \A i \in 1..Len(wire'[o]) :
             \/ i = Len(wire'[o]) /\ wire'[o][i] = OrderInfo(to)
             \/ i \in 1..Len(wire[o]) /\ i < Len(wire'[o]) /\ wire'[o][i] = wire[o][i]
    BY <2>1, OrderInfoTyped, Appended
  <2>3. o \in fired /\ call[o] \notin {"idle", "refused", "simulated"}
    BY <1>0, <1>3 DEF OrderInv, Unfired, CalledOnce
  <2>4. Unfired(o)' /\ CalledOnce(o)'
    BY <1>0, <1>1, <2>1, <2>3 DEF OrderInv, Unfired, CalledOnce, Outcome
  <2>5. Remembered(o)'
    BY <1>0, <1>1, <2>1, <2>3 DEF OrderInv, Remembered, Known, Message
  <2>6. OnWay(o)'
    <3>1. \A i \in 1..Len(wire'[o]) :
            /\ wire'[o][i].st # "new" /\ wire'[o][i].eoi
            /\ IsFinal(wire'[o][i]) <=> (i = Len(wire'[o]) /\ Ended(o)')
      <4> SUFFICES ASSUME NEW i \in 1..Len(wire'[o])
                   PROVE  /\ wire'[o][i].st # "new" /\ wire'[o][i].eoi
                          /\ IsFinal(wire'[o][i]) <=> (i = Len(wire'[o]) /\ Ended(o)')
        OBVIOUS
      <4>1. CASE i = Len(wire'[o]) /\ wire'[o][i] = OrderInfo(to)
        BY <2>1, <4>1, OrderInfoFinal
      <4>2. CASE i \in 1..Len(wire[o]) /\ i < Len(wire'[o]) /\ wire'[o][i] = wire[o][i]
        BY <1>0, <2>1, <4>2 DEF OrderInv, OnWay
      <4>3. QED
        BY <2>2, <4>1, <4>2
    <3>2. QED
      BY <1>0, <1>1, <2>1, <3>1 DEF OrderInv, OnWay, Message, Owes
  <2>7. TriggerTold(o)' /\ HashTold(o)'
    BY <1>0, <1>1, <2>1, <2>2 DEF OrderInv, TriggerTold, HashTold
  <2>8. LastWord(o)'
    BY <1>0, <1>1, <2>1, <2>3 DEF OrderInv, LastWord, OnWay
  <2>9. QED
    BY <2>4, <2>5, <2>6, <2>7, <2>8 DEF OrderInv
<1>4. QED
  BY <1>2, <1>3

LEMMA WireTail ==
  ASSUME TypeOK, NEW o \in Orders, OnWay(o), wire[o] # <<>>, wire'[o] = Tail(wire[o])
  PROVE  /\ Head(wire[o]) \in Order
         /\ Head(wire[o]).st # "new" /\ Head(wire[o]).eoi
         /\ IsFinal(Head(wire[o])) => Ended(o)
         /\ IsFinal(Head(wire[o])) => wire'[o] = <<>>
         /\ wire'[o] = <<>> /\ Ended(o) => IsFinal(Head(wire[o]))
         /\ \A i \in 1..Len(wire'[o]) :
              /\ wire'[o][i].st # "new" /\ wire'[o][i].eoi
              /\ IsFinal(wire'[o][i]) <=> (i = Len(wire'[o]) /\ Ended(o))
<1>1. wire[o] \in Seq(Order) /\ Len(wire[o]) \in Nat \ {0}
  BY EmptySeq DEF TypeOK
<1>2. /\ Head(wire[o]) \in Order /\ wire'[o] \in Seq(Order)
      /\ Len(wire'[o]) = Len(wire[o]) - 1
      /\ \A i \in 1..Len(wire'[o]) : wire'[o][i] = wire[o][i + 1]
  BY <1>1, HeadTailProperties
<1>3. Head(wire[o]) = wire[o][1] /\ 1 \in 1..Len(wire[o])
  BY <1>1 DEF Head
<1>4. /\ Head(wire[o]).st # "new" /\ Head(wire[o]).eoi
      /\ IsFinal(Head(wire[o])) <=> (1 = Len(wire[o]) /\ Ended(o))
  BY <1>3 DEF OnWay
<1>5. wire'[o] = <<>> <=> 1 = Len(wire[o])
  <2>1. Len(wire'[o]) = 0 => wire'[o] = <<>>
    BY <1>2, NoLength
  <2>2. wire'[o] = <<>> => Len(wire'[o]) = 0
    BY EmptySeq
  <2>3. QED
    BY <1>1, <1>2, <2>1, <2>2
<1>6. \A i \in 1..Len(wire'[o]) :
        /\ wire'[o][i].st # "new" /\ wire'[o][i].eoi
        /\ IsFinal(wire'[o][i]) <=> (i = Len(wire'[o]) /\ Ended(o))
  <2> SUFFICES ASSUME NEW i \in 1..Len(wire'[o])
               PROVE  /\ wire'[o][i].st # "new" /\ wire'[o][i].eoi
                      /\ IsFinal(wire'[o][i]) <=> (i = Len(wire'[o]) /\ Ended(o))
    OBVIOUS
  <2>1. i + 1 \in 1..Len(wire[o]) /\ (i + 1 = Len(wire[o]) <=> i = Len(wire'[o]))
    BY <1>1, <1>2
  <2>2. QED
    BY <1>2, <2>1 DEF OnWay
<1>7. QED
  BY <1>2, <1>4, <1>5, <1>6

LEMMA LoseOrderInfoKeeps ==
  ASSUME LifecycleInv, NEW q \in Orders, LoseOrderInfo(q), NEW o \in Orders
  PROVE  OrderInv(o)'
<1>0. TypeOK /\ OrderInv(o)
  BY DEF LifecycleInv
<1>1. /\ wire[q] # <<>> /\ wire' = [wire EXCEPT ![q] = Tail(wire[q])]
      /\ used'.lost # 0 /\ used'.restarts = used.restarts
      /\ UNCHANGED <<cache, hash, owed, fired, trigger, toApi, toTrigger, call, load, exch, early,
                     stale, dropped>>
  BY <1>0, LifecycleAssumption
  DEF LoseOrderInfo, redis, triggerVars, queues, apiVars, history, TypeOK
<1>2. CASE o # q
  <2>1. SameOrder(o)
    BY <1>0, <1>1, <1>2 DEF SameOrder, Owes, TypeOK
  <2>2. QED
    BY <1>0, <2>1, SameOrderKeeps
<1>3. CASE o = q
  <2>1. \A i \in 1..Len(wire'[o]) :
          /\ wire'[o][i].st # "new" /\ wire'[o][i].eoi
          /\ IsFinal(wire'[o][i]) <=> (i = Len(wire'[o]) /\ Ended(o))
    <3>1. wire'[o] = Tail(wire[o])
      BY <1>0, <1>1, <1>3 DEF TypeOK
    <3>2. QED
      BY <1>0, <1>1, <1>3, <3>1, WireTail DEF OrderInv
  <2>2. o \in fired
    BY <1>0, <1>1, <1>3 DEF OrderInv, Unfired
  <2>3. Unfired(o)' /\ CalledOnce(o)'
    BY <1>0, <1>1, <2>2 DEF OrderInv, Unfired, CalledOnce
  <2>4. Remembered(o)' /\ OnWay(o)'
    BY <1>0, <1>1, <2>1 DEF OrderInv, Remembered, OnWay, Known, Message, Ended, Owes
  <2>5. TriggerTold(o)' /\ HashTold(o)'
    BY <1>0, <1>1 DEF OrderInv, TriggerTold, HashTold, Ended
  <2>6. LastWord(o)'
    BY <1>0, <1>1, <1>3 DEF OrderInv, LastWord, Ended
  <2>7. QED
    BY <2>3, <2>4, <2>5, <2>6 DEF OrderInv
<1>4. QED
  BY <1>2, <1>3

LEMMA OnOrderInfoKeeps ==
  ASSUME LifecycleInv, NEW q \in Orders, OnOrderInfo(q), NEW o \in Orders
  PROVE  OrderInv(o)'
<1>0. TypeOK /\ OrderInv(o) /\ OrderInv(q)
  BY DEF LifecycleInv
<1>1. /\ wire[q] # <<>> /\ ReceivedOrder("ws", q, Head(wire[q]))
      /\ wire' = [wire EXCEPT ![q] = Tail(wire[q])]
      /\ UNCHANGED <<hash, fired, trigger, toApi, call, load, exch, early, stale, dropped, used>>
  BY DEF OnOrderInfo, triggerVars, apiVars, history
<1>2. wire'[q] = Tail(wire[q])
  BY <1>0, <1>1 DEF TypeOK
<1>3. /\ Head(wire[q]) \in Order
      /\ Head(wire[q]).st # "new" /\ Head(wire[q]).eoi
      /\ IsFinal(Head(wire[q])) => Ended(q)
      /\ IsFinal(Head(wire[q])) => wire'[q] = <<>>
      /\ wire'[q] = <<>> /\ Ended(q) => IsFinal(Head(wire[q]))
      /\ \A i \in 1..Len(wire'[q]) :
           /\ wire'[q][i].st # "new" /\ wire'[q][i].eoi
           /\ IsFinal(wire'[q][i]) <=> (i = Len(wire'[q]) /\ Ended(q))
  BY <1>0, <1>1, <1>2, WireTail DEF OrderInv
<1>4. exch[q] # "none" /\ q \in fired
  BY <1>0, <1>1 DEF OrderInv, Unfired, CalledOnce
<1>5. PICK k \in Order :
        /\ Message(q, k) /\ (IsFinal(k) => Ended(q))
        /\ IsFinal(k) <=> IsFinal(Head(wire[q]))
        /\ IsFinal(k) => cache'["ws"][q] = Absent
        /\ ~IsFinal(k) => cache'["ws"][q] = k
        /\ \A x \in Orders, r \in Process : x # q \/ r # "ws" => cache'[r][x] = cache[r][x]
        /\ owed["ws"] = Absent /\ Owes("ws", q)' /\ owed'["ws"].record = k
        /\ \A x \in Orders : x # q => ~Owes("ws", x)'
        /\ \A r \in Process : r # "ws" => owed'[r] = owed[r]
        /\ \A x \in Orders : x # q => toTrigger'[x] = toTrigger[x]
        /\ toTrigger'[q] = IF trigger = "up" THEN Append(toTrigger[q], k) ELSE toTrigger[q]
  BY <1>1, <1>3, <1>4, ReceivedEntry
<1>6. CASE o # q
  <2>1. SameOrder(o)
    BY <1>0, <1>1, <1>5, <1>6 DEF SameOrder, Owes, Process, TypeOK
  <2>2. QED
    BY <1>0, <2>1, SameOrderKeeps
<1>7. CASE o = q
  <2>1. Unfired(o)' /\ CalledOnce(o)'
    BY <1>0, <1>1, <1>4, <1>7 DEF OrderInv, Unfired, CalledOnce
  <2>2. Remembered(o)'
    BY <1>0, <1>1, <1>5, <1>7 DEF OrderInv, Remembered, Known, Message, Ended, Process
  <2>3. /\ trigger # "up" => toTrigger'[o] = toTrigger[o]
        /\ trigger = "up" =>
             /\ toTrigger'[o] # <<>> /\ toTrigger'[o][Len(toTrigger'[o])] = k
             /\ \A i \in 1..Len(toTrigger'[o]) :
                  \/ i = Len(toTrigger'[o]) /\ toTrigger'[o][i] = k
                  \/ i \in 1..Len(toTrigger[o]) /\ toTrigger'[o][i] = toTrigger[o][i]
    <3>1. toTrigger[o] \in Seq(Order)
      BY <1>0 DEF TypeOK
    <3>2. toTrigger'[o] = IF trigger = "up" THEN Append(toTrigger[o], k) ELSE toTrigger[o]
      BY <1>5, <1>7
    <3>3. QED
      BY <3>1, <3>2, Appended
  <2>4. OnWay(o)'
    <3>1. \A i \in 1..Len(toTrigger'[o]) :
            Message(o, toTrigger'[o][i]) /\ (IsFinal(toTrigger'[o][i]) => Ended(o))
      BY <1>0, <1>5, <1>7, <2>3 DEF OrderInv, OnWay
    <3>2. QED
      BY <1>0, <1>1, <1>3, <1>5, <1>7, <3>1 DEF OrderInv, OnWay, Message, Owes, Ended, Process
  <2>5. TriggerTold(o)'
    BY <1>0, <1>1, <1>3, <1>5, <1>7, <2>3 DEF OrderInv, TriggerTold, Live, Ended, Process
  <2>6. HashTold(o)'
    BY <1>1, <1>3, <1>5, <1>7 DEF HashTold, Live, Ended
  <2>7. LastWord(o)'
    BY <1>0, <1>1, <1>3, <1>4, <1>5, <1>7, <2>3 DEF OrderInv, LastWord, TriggerTold, Ended, Process
  <2>8. QED
    BY <2>1, <2>2, <2>4, <2>5, <2>6, <2>7 DEF OrderInv
<1>8. QED
  BY <1>6, <1>7

LEMMA StoreRedisKeeps ==
  ASSUME LifecycleInv, NEW p \in Process, StoreRedis(p), NEW o \in Orders
  PROVE  OrderInv(o)'
<1>0. TypeOK /\ OrderInv(o)
  BY DEF LifecycleInv
<1>1. \E q \in Orders, r \in Order : owed[p] # Absent /\ owed[p].order = q /\ owed[p].record = r
  BY <1>0 DEF StoreRedis, TypeOK
<1>2. PICK q \in Orders, r \in Order :
        owed[p] # Absent /\ owed[p].order = q /\ owed[p].record = r
  BY <1>1
<1>3. /\ hash' = [hash EXCEPT ![q] = Stored(r)]
      /\ owed'[p] = Absent /\ \A x \in Process : x # p => owed'[x] = owed[x]
      /\ stale' = IF p = "api" /\ ~Live(q) THEN stale \cup {q} ELSE stale
      /\ dropped' = dropped \ {q}
      /\ UNCHANGED <<cache, fired, trigger, toApi, toTrigger, call, load, exch, wire, early, used>>
  BY <1>0, <1>2 DEF StoreRedis, MarkStale, triggerVars, queues, apiVars, exchVars, TypeOK
<1>4. CASE o # q
  <2>1. SameOrder(o)
    BY <1>0, <1>2, <1>3, <1>4 DEF SameOrder, Owes, TypeOK
  <2>2. QED
    BY <1>0, <2>1, SameOrderKeeps
<1>5. CASE o = q
  <2>1. Owes(p, o) /\ hash'[o] = Stored(r)
    BY <1>0, <1>2, <1>3, <1>5 DEF Owes, TypeOK
  <2>2. /\ IsFinal(r) => hash'[o] = Absent
        /\ ~IsFinal(r) => hash'[o] = r /\ hash'[o] # Absent
    BY <2>1, StoredIs
  <2>3. /\ p = "trigger" => r.st = "new" /\ ~IsFinal(r)
        /\ p # "trigger" => Message(o, r) /\ (IsFinal(r) => Ended(o))
    BY <1>0, <1>2, <2>1 DEF OrderInv, OnWay, Process, IsFinal, FinalStatus
  <2>4. o \in fired
    BY <1>0, <2>1 DEF OrderInv, Unfired
  <2>5. Unfired(o)' /\ CalledOnce(o)'
    BY <1>0, <1>3, <2>4 DEF OrderInv, Unfired, CalledOnce
  <2>6. Remembered(o)'
    BY <1>0, <1>3, <2>2, <2>3 DEF OrderInv, Remembered, Known, Message, Ended
  <2>7. OnWay(o)'
    BY <1>0, <1>3 DEF OrderInv, OnWay, Message, Owes, Ended, Process
  <2>8. TriggerTold(o)' /\ LastWord(o)'
    BY <1>0, <1>3 DEF OrderInv, TriggerTold, LastWord, Live, Ended
  <2>9. HashTold(o)'
    <3>1. Live(o) => hash'[o] # Absent
      BY <2>2, <2>3 DEF Live, Ended
    <3>2. ASSUME used.lost = 0, Ended(o), o \notin stale', wire[o] = <<>>
          PROVE  IF Owes("ws", o)' THEN IsFinal(owed'["ws"].record)
                 ELSE hash'[o] = Absent \/ hash'[o].st = "new"
      <4>1. p # "api"
        BY <1>3, <1>5, <3>2 DEF Live, Ended
      <4>2. o \notin stale
        BY <1>3, <3>2
      <4>3. CASE p = "trigger"
        BY <1>0, <1>3, <2>2, <2>3, <3>2, <4>2, <4>3 DEF OrderInv, HashTold, Owes, Process
      <4>4. CASE p = "ws"
        BY <1>0, <1>2, <1>3, <2>1, <2>2, <3>2, <4>2, <4>4 DEF OrderInv, HashTold, Owes, Process
      <4>5. QED
        BY <4>1, <4>3, <4>4 DEF Process
    <3>3. QED
      BY <1>3, <3>1, <3>2 DEF HashTold, Live, Ended
  <2>10. QED
    BY <2>5, <2>6, <2>7, <2>8, <2>9 DEF OrderInv
<1>6. QED
  BY <1>4, <1>5
-----------------------------------------------------------------------------
LEMMA CancelsKnownNext ==
  ASSUME LifecycleInv, [Next]_vars
  PROVE  CancelsKnown'
<1>0. TypeOK /\ CancelsKnown
  BY DEF LifecycleInv
<1>1. ASSUME UNCHANGED cancels, early \subseteq early'
      PROVE  CancelsKnown'
  BY <1>0, <1>1 DEF CancelsKnown
<1>2. ASSUME NEW q \in Orders, CancelOrder(q)
      PROVE  CancelsKnown'
  <2> DEFINE entry == cache["trigger"][q]
             asked == [order |-> q, record |-> cache'["trigger"][q]]
  <2>1. /\ cancels \in Seq([order: Orders, record: Order])
        /\ entry \in Order /\ cache'["trigger"][q] = [entry EXCEPT !.st = "cancel"]
        /\ early \subseteq early' /\ (~entry.eoi => q \in early')
        /\ cancels' = Append(cancels, asked)
    <3>1. /\ entry \in Entry /\ cancels \in Seq([order: Orders, record: Order])
          /\ "trigger" \in Process
          /\ cache \in [Process -> [Orders -> Entry]]
      BY <1>0 DEF TypeOK, Process
    <3>2. /\ entry # Absent
          /\ cache' = [cache EXCEPT !["trigger"][q].st = "cancel"]
          /\ cancels' = Append(cancels, asked)
          /\ early' = IF entry.eoi THEN early ELSE early \cup {q}
      BY <1>2 DEF CancelOrder
    <3>3. cache'["trigger"][q] = [entry EXCEPT !.st = "cancel"]
      BY <3>1, <3>2
    <3> HIDE DEF entry, asked
    <3>4. QED
      BY <3>1, <3>2, <3>3 DEF Entry
  <2>2. asked.record.eoi = entry.eoi /\ asked.order = q
    BY <2>1 DEF Order
  <2>3. asked.record.eoi \/ asked.order \in early'
    BY <2>1, <2>2
  <2>4. asked \in [order: Orders, record: Order]
    BY <2>1 DEF Order, Status
  <2> HIDE DEF entry, asked
  <2>5. \A i \in 1..Len(cancels') :
          cancels'[i] = asked \/ (i \in 1..Len(cancels) /\ cancels'[i] = cancels[i])
    <3>1. /\ Len(cancels') = Len(cancels) + 1 /\ Len(cancels) \in Nat
          /\ \A i \in 1..Len(cancels) : cancels'[i] = cancels[i]
          /\ cancels'[Len(cancels) + 1] = asked
      BY <2>1, <2>4, AppendProperties
    <3>2. QED
      BY <3>1
  <2>6. QED
    BY <1>0, <2>1, <2>3, <2>5 DEF CancelsKnown
<1>3. CASE CancelTaken \/ CancelRefused
  <2>1. cancels \in Seq([order: Orders, record: Order]) /\ cancels # <<>> /\ cancels' = Tail(cancels)
    BY <1>0, <1>3 DEF CancelTaken, CancelRefused, TypeOK
  <2>2. /\ Len(cancels') = Len(cancels) - 1 /\ Len(cancels) \in Nat
        /\ \A i \in 1..Len(cancels') : cancels'[i] = cancels[i + 1]
    BY <2>1, HeadTailProperties
  <2>3. early' = early
    BY <1>3 DEF CancelTaken, CancelRefused, history
  <2>4. QED
    BY <1>0, <2>2, <2>3 DEF CancelsKnown
<1>4. \/ UNCHANGED cancels /\ early \subseteq early'
      \/ CancelTaken \/ CancelRefused
      \/ \E q \in Orders : CancelOrder(q)
  <2>1. CASE TriggerNext
    BY <2>1 DEF TriggerNext, FireOrder, OnOrderEvent, Restart, Subscribe, queues, history
  <2>2. CASE ApiNext
    BY <2>2 DEF ApiNext, Run, OnOrderExchangeEvent, OnOrderExchangeEventSimulated,
       CreateOrderAnswers, CreateOrderFails, LoadFlush, LoadFails, LoadFetch, LoadDone, OnExchangeApiEvent,
       LoadReceive, queues, history
  <2>3. CASE ExchangeNext
    BY <2>3 DEF ExchangeNext, ExchangeAccepts, ExchangeFillsPart, ExchangeEnds, Report, queues,
       history
  <2>4. CASE WsNext
    BY <2>4 DEF WsNext, OnOrderInfo, LoseOrderInfo, queues, history
  <2>5. CASE \E p \in Process : StoreRedis(p)
    BY <2>5 DEF StoreRedis, queues
  <2>6. CASE UNCHANGED vars
    BY <2>6 DEF vars, queues, history
  <2>7. QED
    BY <2>1, <2>2, <2>3, <2>4, <2>5, <2>6 DEF Next
<1>5. QED
  BY <1>1, <1>2, <1>3, <1>4

LEMMA ExchangeKeeps ==
  ASSUME LifecycleInv, NEW q \in Orders, NEW o \in Orders,
         ExchangeAccepts(q) \/ ExchangeFillsPart(q) \/ ExchangeEnds(q)
  PROVE  OrderInv(o)'
<1>1. CASE ExchangeAccepts(q)
  BY <1>1, ReportKeeps DEF ExchangeAccepts
<1>2. CASE ExchangeFillsPart(q)
  <2>1. exch[q] # "none"
    BY <1>2 DEF ExchangeFillsPart, Report
  <2>2. QED
    BY <1>2, <2>1, ReportKeeps DEF ExchangeFillsPart
<1>3. CASE ExchangeEnds(q)
  <2>1. PICK end \in Outcome : Report(q, {"open", "partial"}, end)
    BY <1>3 DEF ExchangeEnds
  <2>2. exch[q] # "none"
    BY <2>1 DEF Report
  <2>3. QED
    BY <2>1, <2>2, ReportKeeps
<1>4. QED
  BY <1>1, <1>2, <1>3

LEMMA LifecycleInit == Init => LifecycleInv
<1> SUFFICES ASSUME Init PROVE LifecycleInv
  OBVIOUS
<1>1. TypeOK
  BY TypeInit
<1>2. CancelsKnown
  BY DEF Init, CancelsKnown
<1>3. ASSUME NEW o \in Orders PROVE OrderInv(o)
  BY LifecycleAssumption
  DEF Init, OrderInv, Unfired, CalledOnce, Remembered, OnWay, TriggerTold, HashTold, LastWord,
      Owes, Live, Ended, Process
<1>4. QED
  BY <1>1, <1>2, <1>3 DEF LifecycleInv

LEMMA LifecycleNext == LifecycleInv /\ [Next]_vars => LifecycleInv'
<1> SUFFICES ASSUME LifecycleInv, [Next]_vars PROVE LifecycleInv'
  OBVIOUS
<1>1. TypeOK'
  BY TypeNext DEF LifecycleInv
<1>2. CancelsKnown'
  BY CancelsKnownNext
<1>3. ASSUME NEW o \in Orders PROVE OrderInv(o)'
  <2>1. CASE TriggerNext
    BY <2>1, FireOrderKeeps, OnOrderEventKeeps, CancelOrderKeeps, RestartKeeps, AsideKeeps
    DEF TriggerNext
  <2>2. CASE ApiNext
    BY <2>2, AsideKeeps, CancelRefusedKeeps, ExchangeEventKeeps, CreateOrderAnswersKeeps,
       CreateOrderFailsKeeps, LoadStepKeeps, LoadReceiveKeeps DEF ApiNext
  <2>3. CASE ExchangeNext
    BY <2>3, ExchangeKeeps DEF ExchangeNext
  <2>4. CASE WsNext
    BY <2>4, OnOrderInfoKeeps, LoseOrderInfoKeeps DEF WsNext
  <2>5. CASE \E p \in Process : StoreRedis(p)
    BY <2>5, StoreRedisKeeps
  <2>6. CASE UNCHANGED vars
    BY <2>6, AsideKeeps
  <2>7. QED
    BY <2>1, <2>2, <2>3, <2>4, <2>5, <2>6 DEF Next
<1>4. QED
  BY <1>1, <1>2, <1>3 DEF LifecycleInv

LEMMA LifecycleInvariant == Spec => []LifecycleInv
  BY LifecycleInit, LifecycleNext, PTL DEF Spec

\* What the trigger and the hash remember of the orders is what the exchange has,
\* but for the known leftovers and, in the hash, the orders a failed load deleted,
\* however many orders, loads that end or fail, cancels and restarts interleave,
\* unless a report was lost.
THEOREM MemoriesAlwaysAgree == Spec => []MemoriesAgree
<1>1. LifecycleInv => MemoriesAgree
  <2> SUFFICES ASSUME LifecycleInv, Quiet, used.lost = 0, NEW o \in Orders
               PROVE  /\ used.restarts = 0 =>
                           /\ Live(o) => cache["trigger"][o] # Absent
                           /\ cache["trigger"][o] # Absent => Live(o) \/ KnownLeftover(o)
                      /\ Live(o) => hash[o] # Absent \/ o \in dropped
                      /\ hash[o] # Absent => Live(o) \/ KnownLeftover(o) \/ hash[o].st = "new"
    BY DEF MemoriesAgree, TriggerAgrees, HashAgrees
  <2>1. /\ toApi = {} /\ load.step = "idle" /\ toTrigger[o] = <<>> /\ wire[o] = <<>>
        /\ call[o] # "sent" /\ \A p \in Process : ~Owes(p, o)
    BY DEF Quiet, Owes
  <2>2. TypeOK /\ OrderInv(o)
    BY DEF LifecycleInv
  <2>3. o \in fired /\ exch[o] = "none" => NeverLive(o)
    BY <2>1, <2>2 DEF OrderInv, CalledOnce, NeverLive, TypeOK
  <2>4. Live(o) \/ exch[o] = "none" \/ Ended(o) \/ exch[o] = "expired"
    BY <2>2 DEF TypeOK, Live, Ended, Outcome
  <2>5. o \notin fired => /\ ~Live(o) /\ hash[o] = Absent /\ cache["trigger"][o] = Absent
    BY <2>2 DEF OrderInv, Unfired, Live
  <2>6. used.restarts = 0 => /\ Live(o) => cache["trigger"][o] # Absent
                             /\ Ended(o) /\ o \notin stale => cache["trigger"][o] = Absent
    BY <2>1, <2>2, <2>5 DEF OrderInv, TriggerTold, Live, Ended
  <2>7. /\ Live(o) => hash[o] # Absent \/ o \in dropped
        /\ Ended(o) /\ o \notin stale => hash[o] = Absent \/ hash[o].st = "new"
    BY <2>1, <2>2 DEF OrderInv, HashTold, CalledOnce, Process
  <2>8. QED
    BY <2>3, <2>4, <2>5, <2>6, <2>7 DEF KnownLeftover
<1>2. QED
  BY <1>1, LifecycleInvariant, PTL

\* A live order the trigger holds carries the exchange's id once all is delivered,
\* so its cancel can be sent, unless it was asked for before the ack.
THEOREM AckedAlwaysCancellable == Spec => []AckedIsCancellable
<1>1. LifecycleInv => AckedIsCancellable
  <2> SUFFICES ASSUME LifecycleInv, Quiet, used.lost = 0, used.restarts = 0, NEW o \in Orders,
                      Live(o), cache["trigger"][o] # Absent
               PROVE  cache["trigger"][o].eoi \/ o \in early
    BY DEF AckedIsCancellable
  <2>1. TypeOK /\ OrderInv(o)
    BY DEF LifecycleInv
  <2>2. toTrigger[o] = <<>> /\ wire[o] = <<>>
    BY DEF Quiet
  <2>3. cache["trigger"][o].st # "new"
    BY <2>1, <2>2 DEF OrderInv, TriggerTold
  <2>4. QED
    BY <2>1, <2>3 DEF OrderInv, Remembered, Known
<1>2. QED
  BY <1>1, LifecycleInvariant, PTL
-----------------------------------------------------------------------------
(* The refinement: what the trigger sees of its orders moves as OrderView    *)
(* says.  A restart reloads the hash and a stale reload brings back an order *)
(* that had ended, so the theorem is about behaviours with neither.          *)

\* The statuses the view speaks of are those of the merge.
LEMMA ViewStatuses ==
  /\ View!OM!Status = Status /\ View!OM!FinalStatus = FinalStatus /\ View!OM!Rank = Rank
  BY DEF View!OM!Status, Status, View!OM!FinalStatus, FinalStatus, View!OM!Rank, Rank

\* What is seen changes at one order only.
LEMMA SeenAtOne ==
  ASSUME NEW q \in Orders, \A o \in Orders \ {q} : OrderSeen(o)' = OrderSeen(o)
  PROVE  [o \in Orders |-> OrderSeen(o)'] =
           [[o \in Orders |-> OrderSeen(o)] EXCEPT ![q] = OrderSeen(q)']
  OBVIOUS

LEMMA FireOrderSeen ==
  ASSUME LifecycleInv, NEW q \in Orders, FireOrder(q)
  PROVE  View!Appear(q)
<1>1. TypeOK /\ Unfired(q) /\ q \notin fired /\ fired' = fired \cup {q}
  BY DEF LifecycleInv, OrderInv, FireOrder
<1>2. /\ cache'["trigger"][q] = Stored(Kept(cache["trigger"][q], NewOrder))
      /\ \A o \in Orders \ {q} : cache'["trigger"][o] = cache["trigger"][o]
  BY <1>1 DEF FireOrder, HandleAndOwe, HandleLocally, TypeOK, Process
<1>3. Kept(cache["trigger"][q], NewOrder) = NewOrder /\ ~IsFinal(NewOrder)
  BY <1>1 DEF Unfired, Kept, IsFinal, FinalStatus, NewOrder, Rec
<1>4. cache'["trigger"][q] # Absent /\ cache'["trigger"][q].st = "new"
  BY <1>2, <1>3, NewOrderTyped, StoredIs DEF NewOrder, Rec
<1>5. OrderSeen(q) = "unborn" /\ OrderSeen(q)' = "new"
  BY <1>1, <1>4 DEF OrderSeen
<1>6. \A o \in Orders \ {q} : OrderSeen(o)' = OrderSeen(o)
  BY <1>1, <1>2 DEF OrderSeen
<1>7. QED
  BY <1>5, <1>6, SeenAtOne DEF View!Appear

\* An order the trigger has been told to be over is forgotten, any other update
\* that is kept moves its status forward, and no update comes to an order that
\* is forgotten already.
LEMMA OnOrderEventSeen ==
  ASSUME LifecycleInv, NEW q \in Orders, OnOrderEvent(q), used.restarts = 0, stale = {}
  PROVE  \/ View!Finish(q)
         \/ \E st \in View!OM!Status \ View!OM!FinalStatus : View!Advance(q, st)
         \/ [o \in Orders |-> OrderSeen(o)'] = [o \in Orders |-> OrderSeen(o)]
<1> DEFINE entry == cache["trigger"][q]
           m == Head(toTrigger[q])
           k == Kept(entry, m)
<1>0. TypeOK /\ OrderInv(q)
  BY DEF LifecycleInv
<1>1. toTrigger[q] # <<>> /\ m \in Order
  BY <1>0 DEF OnOrderEvent, TypeOK
<1>2. /\ q \in fired /\ entry # Absent /\ entry \in Order /\ ~IsFinal(entry)
  BY <1>0, <1>1 DEF OrderInv, Unfired, LastWord, Remembered, TypeOK, Entry, Process
<1>3. /\ cache'["trigger"][q] = Stored(k) /\ fired' = fired
      /\ \A o \in Orders \ {q} : cache'["trigger"][o] = cache["trigger"][o]
  BY <1>0 DEF OnOrderEvent, HandleLocally, TypeOK, Process, triggerVars
<1>4. \A o \in Orders \ {q} : OrderSeen(o)' = OrderSeen(o)
  BY <1>3 DEF OrderSeen
<1>5. OrderSeen(q) = entry.st /\ entry.st \in Status \ FinalStatus
  BY <1>2 DEF OrderSeen, IsFinal, Order
<1>6. k \in {entry, m} /\ (IsFinal(k) <=> IsFinal(m)) /\ entry \in Entry
  BY <1>1, <1>2, KeptOneOf, KeptFinal DEF Entry
<1>7. CASE IsFinal(m)
  <2>1. OrderSeen(q)' = "gone"
    BY <1>1, <1>2, <1>3, <1>6, <1>7, StoredIs DEF OrderSeen
  <2>2. QED
    BY <1>4, <1>5, <2>1, SeenAtOne, ViewStatuses DEF View!Finish
<1>8. CASE ~IsFinal(m)
  <2>1. OrderSeen(q)' = k.st
    BY <1>1, <1>2, <1>3, <1>6, <1>8, StoredIs DEF OrderSeen
  <2>2. CASE k.st = entry.st
    BY <1>4, <1>5, <2>1, <2>2
  <2>3. CASE k.st # entry.st
    <3>1. k = m /\ LaterStatus(m, entry)
      BY <1>2, <1>6, <1>8, <2>3 DEF Kept, Merge, KeepsSelf
    <3>2. Rank[k.st] > Rank[entry.st] /\ k.st \in Status \ FinalStatus
      BY <1>1, <1>8, <2>3, <3>1 DEF LaterStatus, IsFinal, Order
    <3>3. View!Advance(q, k.st)
      BY <1>4, <1>5, <2>1, <3>2, SeenAtOne, ViewStatuses DEF View!Advance
    <3>4. QED
      BY <3>2, <3>3, ViewStatuses
  <2>4. QED
    BY <2>2, <2>3
<1>9. QED
  BY <1>7, <1>8

LEMMA CancelOrderSeen ==
  ASSUME LifecycleInv, NEW q \in Orders, CancelOrder(q)
  PROVE  View!AskCancel(q)
<1> DEFINE entry == cache["trigger"][q]
<1>0. TypeOK /\ OrderInv(q)
  BY DEF LifecycleInv
<1>1. /\ entry # Absent /\ fired' = fired
      /\ cache' = [cache EXCEPT !["trigger"][q].st = "cancel"]
  BY DEF CancelOrder, triggerVars
<1>2. q \in fired /\ entry \in Order /\ ~IsFinal(entry)
  BY <1>0, <1>1 DEF OrderInv, Unfired, Remembered, TypeOK, Entry, Process
<1>3. /\ cache'["trigger"][q] = [entry EXCEPT !.st = "cancel"]
      /\ \A o \in Orders \ {q} : cache'["trigger"][o] = cache["trigger"][o]
  BY <1>0, <1>1 DEF TypeOK, Process
<1>4. cache'["trigger"][q] # Absent /\ cache'["trigger"][q].st = "cancel"
  BY <1>2, <1>3, LifecycleAssumption DEF Order, Status
<1>5. OrderSeen(q) = entry.st /\ entry.st \in Status \ FinalStatus /\ OrderSeen(q)' = "cancel"
  BY <1>1, <1>2, <1>4 DEF OrderSeen, IsFinal, Order
<1>6. \A o \in Orders \ {q} : OrderSeen(o)' = OrderSeen(o)
  BY <1>1, <1>3 DEF OrderSeen
<1>7. QED
  BY <1>5, <1>6, SeenAtOne, ViewStatuses DEF View!AskCancel

\* No other step touches what the trigger remembers.
LEMMA OthersSeen ==
  ASSUME TypeOK, [Next]_vars
  PROVE  \/ \E q \in Orders : FireOrder(q) \/ OnOrderEvent(q) \/ CancelOrder(q)
         \/ Restart
         \/ fired' = fired /\ \A o \in Orders : cache'["trigger"][o] = cache["trigger"][o]
<1>1. CASE TriggerNext
  BY <1>1 DEF TriggerNext, Subscribe, redis
<1>2. CASE ApiNext
  <2>1. ASSUME NEW o \in Orders,
               \/ OnOrderExchangeEvent(o) \/ OnOrderExchangeEventSimulated(o)
               \/ CreateOrderAnswers(o) \/ CreateOrderFails(o)
        PROVE  fired' = fired /\ (cache' = cache \/ \E r : cache' = [cache EXCEPT !["api"][o] = r])
    BY <2>1 DEF OnOrderExchangeEvent, OnOrderExchangeEventSimulated, CreateOrderAnswers,
       CreateOrderFails, HandleLocally, Populate, triggerVars
  <2>2. ASSUME NEW o \in Orders, LoadReceive(o)
        PROVE  fired' = fired /\ \E r : cache' = [cache EXCEPT !["api"][o] = r]
    BY <2>2 DEF LoadReceive, ReceivedOrder, HandleAndOwe, HandleLocally, triggerVars
  <2>3. CASE CancelRefused
    BY <2>3 DEF CancelRefused, HandleLocally, triggerVars, TypeOK, Process
  <2>4. CASE \/ Run \/ CancelTaken
             \/ LoadFlush \/ LoadFails \/ LoadFetch \/ LoadDone \/ OnExchangeApiEvent
    BY <2>4 DEF Run, CancelTaken, LoadFlush, LoadFails, LoadFetch, LoadDone, OnExchangeApiEvent,
       redis, triggerVars
  <2>5. ASSUME NEW o, NEW r, cache' = [cache EXCEPT !["api"][o] = r]
        PROVE  \A x \in Orders : cache'["trigger"][x] = cache["trigger"][x]
    BY <2>5 DEF TypeOK, Process
  <2>6. QED
    BY <1>2, <2>1, <2>2, <2>3, <2>4, <2>5 DEF ApiNext
<1>3. CASE ExchangeNext
  BY <1>3 DEF ExchangeNext, ExchangeAccepts, ExchangeFillsPart, ExchangeEnds, Report, redis,
     triggerVars
<1>4. CASE WsNext
  BY <1>4 DEF WsNext, OnOrderInfo, LoseOrderInfo, ReceivedOrder, HandleAndOwe, HandleLocally,
     TypeOK, Process, redis, triggerVars
<1>5. CASE \E p \in Process : StoreRedis(p)
  BY <1>5 DEF StoreRedis, triggerVars
<1>6. CASE UNCHANGED vars
  BY <1>6 DEF vars, redis, triggerVars
<1>7. QED
  BY <1>1, <1>2, <1>3, <1>4, <1>5, <1>6 DEF Next

\* While the trigger is not restarted and no reload is stale, what it sees of its
\* orders only moves as OrderView allows: never back, and never again once gone,
\* whatever reports are lost and however events and cancels interleave.
THEOREM TriggerImplementsView ==
  Spec /\ [](used.restarts = 0 /\ stale = {}) => RefinesOrderView
<1> DEFINE seen == [o \in Orders |-> OrderSeen(o)]
<1>1. Init => View!Init
  BY DEF Init, View!Init, OrderSeen
<1>2. LifecycleInv /\ used.restarts = 0 /\ stale = {} /\ (used.restarts = 0)' /\ [Next]_vars
        => [View!Next]_seen
  <2> SUFFICES ASSUME LifecycleInv, used.restarts = 0, stale = {}, used'.restarts = 0, [Next]_vars
               PROVE  [View!Next]_seen
    OBVIOUS
  <2>0. TypeOK
    BY DEF LifecycleInv
  <2>1. ASSUME NEW q \in Orders, FireOrder(q) \/ OnOrderEvent(q) \/ CancelOrder(q)
        PROVE  [View!Next]_seen
    BY <2>1, FireOrderSeen, OnOrderEventSeen, CancelOrderSeen DEF View!Next
  <2>2. ~Restart
    BY <2>0 DEF Restart, TypeOK
  <2>3. ASSUME fired' = fired, \A o \in Orders : cache'["trigger"][o] = cache["trigger"][o]
        PROVE  seen' = seen
    BY <2>3 DEF OrderSeen
  <2>4. QED
    BY <2>0, <2>1, <2>2, <2>3, OthersSeen
<1>3. QED
  BY <1>1, <1>2, LifecycleInvariant, PTL DEF Spec, RefinesOrderView, View!Spec
=============================================================================
