---------------------------- MODULE ServicesProofs ----------------------------
(***************************************************************************)
(* What the modules of MCServices keep, for any number of orders, codes,   *)
(* callbacks, hours, crashes and restarts: first the orders in the         *)
(* database (OrdersDb) on their own, then the dispatch of messages, the    *)
(* loads of the codes, the rows of the markets, the seeker of targets, the *)
(* daemons and the targets of the hour, in the composition; at the end,    *)
(* with the invariants of ValuesProofs, that all services are typed.       *)
(***************************************************************************)
EXTENDS ValuesProofs, FiniteSetTheorems, FunctionTheorems, SequenceTheorems, WellFoundedInduction, TLAPS

TradesIn(s, o) == {k \in DOMAIN s : s[k].kind = "trade" /\ s[k].ord = o}

\* What an exchange or an answer says of an order
Sayable == {"new", "open", "partial", "filled", "canceled", "rejected"}

Filling ==
  \A o \in Orders :
    /\ api[o] = "idle" => exchange[o] = "none"
    /\ exchange[o] = "none" => fills[o] = 0
    /\ exchange[o] = "open" => fills[o] < Size

\* No event and no row says more than was filled.
EventTrue(e, n) ==
  /\ e.ord \in echoed => e.own
  /\ e.st \in Sayable
  /\ e.kind # "trade" => e.filled <= n
  /\ e.kind = "trade" => e.filled = 1

EventsTrue == \A k \in DOMAIN stream : EventTrue(stream[k], fills[stream[k].ord])

RowsTrue ==
  \A i \in DOMAIN rows :
    /\ rows[i].ord \in echoed => rows[i].own
    /\ rows[i].filled <= fills[rows[i].ord]

\* Of an order that was not sent there is nothing.
Silent ==
  \A o \in Orders : api[o] = "idle" =>
    /\ \A i \in DOMAIN rows : rows[i].ord # o
    /\ \A k \in DOMAIN stream : stream[k].ord # o

\* The insert of fire_order comes once, and before everything else of its order.
InsertFirst ==
  \A k \in DOMAIN stream : stream[k].kind = "exchange" =>
    /\ \A i \in DOMAIN rows : rows[i].ord # stream[k].ord
    /\ \A j \in DOMAIN stream : j < k => stream[j].ord # stream[k].ord
    /\ \A j \in DOMAIN stream : j > k /\ stream[j].kind = "exchange"
                                  => stream[j].ord # stream[k].ord

OneRow == \A i, j \in DOMAIN rows : rows[i].ord = rows[j].ord /\ rows[i].ord \in echoed => i = j

\* Every fill is in the table or on its way to it, ...
Counted ==
  \A o \in Orders \ lost : trades[o] + Cardinality(TradesIn(stream, o)) = fills[o]

\* ... and so is the report of the last one.
Told ==
  \A o \in echoed \ lost :
    \/ fills[o] = 0
    \/ \E k \in DOMAIN stream : /\ stream[k].kind = "update" /\ stream[k].ord = o
                                /\ stream[k].filled = fills[o]
    \/ \E i \in DOMAIN rows : rows[i].ord = o /\ rows[i].filled = fills[o]

\* The handler crashes only while it may be started again.
MayRestart == ~handlerUp => restarts < MaxRestarts

IInv ==
  /\ MayRestart
  /\ TypeOK /\ Filling /\ EventsTrue /\ RowsTrue /\ Silent /\ InsertFirst
  /\ OneRow /\ Counted /\ Told

-----------------------------------------------------------------------------
LEMMA TradesFinite ==
  ASSUME NEW S, NEW s \in Seq(S), NEW o
  PROVE  IsFiniteSet(TradesIn(s, o)) /\ Cardinality(TradesIn(s, o)) \in Nat
<1>1. Len(s) \in Nat /\ DOMAIN s = 1..Len(s)
  BY LenProperties
<1>2. IsFiniteSet(1..Len(s))
  BY <1>1, FS_Interval
<1>3. TradesIn(s, o) \in SUBSET (1..Len(s))
  BY <1>1 DEF TradesIn
<1>4. IsFiniteSet(TradesIn(s, o))
  BY <1>2, <1>3, FS_Subset
<1>5. QED
  BY <1>4, FS_CardinalityType

\* What is read is one event less.
LEMMA TradesOfTail ==
  ASSUME NEW S, NEW s \in Seq(S), s # <<>>, NEW o
  PROVE  Cardinality(TradesIn(s, o)) =
           Cardinality(TradesIn(Tail(s), o))
             + (IF s[1].kind = "trade" /\ s[1].ord = o THEN 1 ELSE 0)
<1> DEFINE A == TradesIn(Tail(s), o)
           B == TradesIn(s, o)
           f == [k \in A |-> k + 1]
<1>1. /\ Len(s) \in Nat /\ Len(s) > 0 /\ DOMAIN s = 1..Len(s)
      /\ Tail(s) \in Seq(S) /\ DOMAIN Tail(s) = 1..(Len(s) - 1)
      /\ \A k \in 1..(Len(s) - 1) : Tail(s)[k] = s[k + 1]
  <2>1. Len(s) \in Nat /\ Len(s) > 0 /\ DOMAIN s = 1..Len(s)
    BY LenProperties, EmptySeq
  <2>2. /\ Tail(s) \in Seq(S) /\ Len(Tail(s)) = Len(s) - 1
        /\ \A k \in 1..Len(Tail(s)) : Tail(s)[k] = s[k + 1]
    BY HeadTailProperties
  <2>3. QED
    BY <2>1, <2>2, LenProperties
<1>2. f \in Bijection(A, B \ {1})
  <2>1. \A k \in A : k + 1 \in B \ {1} /\ k \in Int
    BY <1>1 DEF TradesIn
  <2>2. \A j \in B \ {1} : j - 1 \in A /\ (j - 1) + 1 = j
    BY <1>1 DEF TradesIn
  <2>3. f \in [A -> B \ {1}]
    BY <2>1
  <2>4. IsInjective(f)
    BY <2>1 DEF IsInjective
  <2>5. \A j \in B \ {1} : \E k \in A : f[k] = j
    BY <2>2
  <2>6. QED
    BY <2>3, <2>4, <2>5 DEF Bijection, Injection, Surjection
<1>3. IsFiniteSet(A) /\ IsFiniteSet(B) /\ Cardinality(A) \in Nat /\ Cardinality(B) \in Nat
  BY <1>1, TradesFinite
<1>4. Cardinality(B \ {1}) = Cardinality(A)
  BY <1>2, <1>3, FS_Bijection DEF ExistsBijection
<1>5. Cardinality(B \ {1}) = IF 1 \in B THEN Cardinality(B) - 1 ELSE Cardinality(B)
  BY <1>3, FS_RemoveElement
<1>6. 1 \in B <=> s[1].kind = "trade" /\ s[1].ord = o
  BY <1>1 DEF TradesIn
<1>7. QED
  BY <1>3, <1>4, <1>5, <1>6

-----------------------------------------------------------------------------
LEMMA DbInit ==
  ASSUME OrdersDbAssumption, Init
  PROVE  IInv
<1>1. /\ <<>> \in Seq(Row) /\ <<>> \in Seq(Event) /\ DOMAIN <<>> = {}
      /\ Cardinality({}) = 0
  BY EmptySeq, FS_EmptySet
<1>2. TypeOK
  <2>1. rows \in Seq(Row) /\ stream \in Seq(Event)
    BY <1>1 DEF Init
  <2>2. restarts \in 0..MaxRestarts /\ fills \in [Orders -> 0..Size]
    BY DEF Init, OrdersDbAssumption
  <2>3. QED
    BY <2>1, <2>2 DEF Init, TypeOK
<1>3. Filling /\ EventsTrue /\ RowsTrue /\ Silent /\ InsertFirst /\ OneRow /\ Told
  BY <1>1 DEF Init, Filling, EventsTrue, RowsTrue, Silent, InsertFirst, OneRow, Told
<1>4. Counted
  <2>1. stream = <<>> /\ trades = [o \in Orders |-> 0] /\ fills = [o \in Orders |-> 0]
    BY DEF Init
  <2>2. \A o : TradesIn(stream, o) = {}
    BY <1>1, <2>1, Zenon DEF TradesIn
  <2>3. \A o \in Orders : trades[o] + Cardinality(TradesIn(stream, o)) = fills[o]
    <3> TAKE o \in Orders
    <3>1. Cardinality(TradesIn(stream, o)) = 0
      BY <1>1, <2>2
    <3>2. trades[o] = 0 /\ fills[o] = 0
      BY <2>1
    <3>3. QED
      BY <3>1, <3>2
  <2>4. QED
    BY <2>3 DEF Counted
<1>5. MayRestart
  BY DEF Init, MayRestart
<1>6. QED
  BY <1>2, <1>3, <1>4, <1>5 DEF IInv

LEMMA StreamTyped ==
  ASSUME IInv
  PROVE  /\ stream \in Seq(Event) /\ Len(stream) \in Nat /\ DOMAIN stream = 1..Len(stream)
         /\ \A k \in DOMAIN stream : stream[k] \in Event
         /\ rows \in Seq(Row) /\ Len(rows) \in Nat /\ DOMAIN rows = 1..Len(rows)
         /\ \A i \in DOMAIN rows : rows[i] \in Row
<1>1. stream \in Seq(Event) /\ rows \in Seq(Row)
  BY DEF IInv, TypeOK
<1>2. QED
  BY <1>1, LenProperties, ElementOfSeq

\* What a publication of the events of an order does to the stream
LEMMA Published ==
  ASSUME IInv, NEW o \in Orders, NEW es \in Seq(Event), es # <<>>, Publish(es),
         \A j \in DOMAIN es : es[j].ord = o
  PROVE  /\ stream' \in Seq(Event) /\ lost' \in SUBSET Orders /\ lost \subseteq lost'
         /\ \A p \in lost' : p \in lost \/ p = o
         /\ DOMAIN stream \subseteq DOMAIN stream'
         /\ \A k \in DOMAIN stream : stream'[k] = stream[k]
         /\ \A k \in DOMAIN stream' \ DOMAIN stream :
              /\ \A j \in DOMAIN stream : j < k
              /\ \E j \in DOMAIN es : k = Len(stream) + j /\ stream'[k] = es[j]
         /\ \/ o \in lost' /\ stream' = stream
            \/ /\ lost' = lost
               /\ \A j \in DOMAIN es : /\ Len(stream) + j \in DOMAIN stream' \ DOMAIN stream
                                       /\ stream'[Len(stream) + j] = es[j]
<1>1. /\ stream \in Seq(Event) /\ Len(stream) \in Nat /\ DOMAIN stream = 1..Len(stream)
  BY StreamTyped
<1>2. Len(es) \in Nat /\ DOMAIN es = 1..Len(es) /\ Len(es) > 0
  BY LenProperties, EmptySeq
<1>3. CASE stream' = stream \o es /\ lost' = lost
  <2>1. /\ stream' \in Seq(Event) /\ Len(stream') = Len(stream) + Len(es)
        /\ \A k \in 1..(Len(stream) + Len(es)) :
             stream'[k] = IF k <= Len(stream) THEN stream[k] ELSE es[k - Len(stream)]
    BY <1>1, <1>3, ConcatProperties
  <2>2. DOMAIN stream' = 1..(Len(stream) + Len(es))
    BY <2>1, LenProperties
  <2>3. ASSUME NEW k \in DOMAIN stream' \ DOMAIN stream
        PROVE  /\ \A j \in DOMAIN stream : j < k
               /\ \E j \in DOMAIN es : k = Len(stream) + j /\ stream'[k] = es[j]
    <3>1. /\ k \in Int /\ k > Len(stream) /\ k - Len(stream) \in DOMAIN es
          /\ k \in 1..(Len(stream) + Len(es))
      BY <1>1, <1>2, <2>2
    <3>2. stream'[k] = es[k - Len(stream)] /\ k = Len(stream) + (k - Len(stream))
      BY <1>1, <2>1, <3>1
    <3>3. QED
      BY <1>1, <3>1, <3>2
  <2>4. ASSUME NEW j \in DOMAIN es
        PROVE  /\ Len(stream) + j \in DOMAIN stream' \ DOMAIN stream
               /\ stream'[Len(stream) + j] = es[j]
    <3>1. /\ Len(stream) + j \in 1..(Len(stream) + Len(es)) /\ ~(Len(stream) + j <= Len(stream))
          /\ (Len(stream) + j) - Len(stream) = j
      BY <1>1, <1>2
    <3>2. QED
      BY <1>1, <2>1, <2>2, <3>1
  <2>5. \A k \in DOMAIN stream : k \in DOMAIN stream' /\ stream'[k] = stream[k]
    BY <1>1, <1>2, <2>1, <2>2
  <2>6. lost \in SUBSET Orders
    BY DEF IInv, TypeOK
  <2>7. QED
    BY <1>3, <2>1, <2>3, <2>4, <2>5, <2>6
<1>4. CASE stream' = stream /\ lost' = lost \cup {es[i].ord : i \in DOMAIN es}
  <2>1. 1 \in DOMAIN es
    BY <1>2
  <2>2. lost' = lost \cup {o}
    BY <1>4, <2>1
  <2>3. QED
    BY <1>1, <1>4, <2>2 DEF IInv, TypeOK
<1>5. QED
  BY <1>3, <1>4 DEF Publish

\* What any publication keeps: of an order that is sent, with its insert first, and with one
\* fill more at most.
Publication(o, es) ==
  /\ es # <<>> /\ Publish(es)
  /\ \A j \in DOMAIN es : es[j].ord = o /\ EventTrue(es[j], fills'[o])
  /\ \A j \in DOMAIN es : es[j].kind = "exchange" => api[o] = "idle" /\ DOMAIN es = {1}
  /\ api'[o] # "idle" /\ \A p \in Orders \ {o} : api'[p] = api[p] /\ fills'[p] = fills[p]
  /\ \/ /\ fills'[o] = fills[o]
        /\ \A j \in DOMAIN es : es[j].kind # "trade"
     \/ /\ fills'[o] = fills[o] + 1
        /\ \E n \in DOMAIN es : \A j \in DOMAIN es : es[j].kind = "trade" <=> j = n
        /\ \E j \in DOMAIN es : es[j].kind = "update" /\ es[j].filled = fills'[o]
  /\ UNCHANGED <<database, handlerUp, restarts>>

LEMMA PublicationKeeps ==
  ASSUME OrdersDbAssumption, IInv, NEW o \in Orders, NEW es \in Seq(Event), Publication(o, es)
  PROVE  /\ stream' \in Seq(Event) /\ lost' \in SUBSET Orders
         /\ EventsTrue' /\ RowsTrue' /\ Silent' /\ InsertFirst' /\ OneRow' /\ Counted' /\ Told'
<1>1. /\ stream' \in Seq(Event) /\ lost' \in SUBSET Orders /\ lost \subseteq lost'
      /\ \A p \in lost' : p \in lost \/ p = o
      /\ DOMAIN stream \subseteq DOMAIN stream'
      /\ \A k \in DOMAIN stream : stream'[k] = stream[k]
      /\ \A k \in DOMAIN stream' \ DOMAIN stream :
           /\ \A j \in DOMAIN stream : j < k
           /\ \E j \in DOMAIN es : k = Len(stream) + j /\ stream'[k] = es[j]
      /\ \/ o \in lost' /\ stream' = stream
         \/ /\ lost' = lost
            /\ \A j \in DOMAIN es : /\ Len(stream) + j \in DOMAIN stream' \ DOMAIN stream
                                    /\ stream'[Len(stream) + j] = es[j]
  BY Published DEF Publication
<1>2. /\ echoed' = echoed /\ rows' = rows /\ trades' = trades
  BY DEF Publication, database
<1>3. /\ stream \in Seq(Event) /\ Len(stream) \in Nat /\ DOMAIN stream = 1..Len(stream)
      /\ \A k \in DOMAIN stream : stream[k] \in Event
      /\ \A i \in DOMAIN rows : rows[i] \in Row
  BY StreamTyped
<1>4. \A p \in Orders : fills[p] \in Nat /\ fills'[p] \in Nat /\ fills[p] <= fills'[p]
  <2>1. \A p \in Orders : fills[p] \in Nat
    BY DEF IInv, TypeOK, OrdersDbAssumption
  <2>2. QED
    BY <2>1 DEF Publication
<1>5. EventsTrue'
  <2>1. ASSUME NEW k \in DOMAIN stream'
        PROVE  /\ stream'[k].ord \in echoed => stream'[k].own
               /\ stream'[k].st \in Sayable
               /\ stream'[k].kind # "trade" => stream'[k].filled <= fills'[stream'[k].ord]
               /\ stream'[k].kind = "trade" => stream'[k].filled = 1
    <3>1. CASE k \in DOMAIN stream
      <4>1. stream'[k] = stream[k] /\ stream[k].ord \in Orders /\ stream[k].filled \in Nat
        BY <1>1, <1>3, <3>1 DEF Event
      <4>2. EventTrue(stream[k], fills[stream[k].ord])
        BY <3>1 DEF IInv, EventsTrue
      <4>3. QED
        BY <1>4, <4>1, <4>2 DEF EventTrue
    <3>2. CASE k \notin DOMAIN stream
      <4>1. PICK j \in DOMAIN es : stream'[k] = es[j]
        BY <1>1, <3>2
      <4>2. es[j].ord = o /\ EventTrue(es[j], fills'[o])
        BY DEF Publication
      <4>3. QED
        BY <4>1, <4>2 DEF EventTrue
    <3>3. QED
      BY <3>1, <3>2
  <2>2. QED
    BY <1>2, <2>1 DEF EventsTrue, EventTrue
<1>6. RowsTrue'
  BY <1>2, <1>3, <1>4 DEF IInv, RowsTrue, Row
<1>7. Silent'
  <2>1. ASSUME NEW p \in Orders, api'[p] = "idle"
        PROVE  /\ \A i \in DOMAIN rows : rows[i].ord # p
               /\ \A k \in DOMAIN stream' : stream'[k].ord # p
    <3>1. p # o /\ api[p] = "idle"
      BY <2>1 DEF Publication
    <3>2. /\ \A i \in DOMAIN rows : rows[i].ord # p
          /\ \A k \in DOMAIN stream : stream[k].ord # p
      BY <3>1 DEF IInv, Silent
    <3>3. \A j \in DOMAIN es : es[j].ord # p
      BY <3>1 DEF Publication
    <3>4. QED
      BY <1>1, <3>2, <3>3
  <2>2. QED
    BY <1>2, <2>1 DEF Silent
<1>8. OneRow'
  BY <1>2 DEF IInv, OneRow
<1>9. ASSUME NEW k \in DOMAIN stream' \ DOMAIN stream
      PROVE  /\ stream'[k].ord = o
             /\ stream'[k].kind = "exchange" => api[o] = "idle" /\ k = Len(stream) + 1
             /\ \A j \in DOMAIN stream : j < k
  <2>1. PICK j \in DOMAIN es : k = Len(stream) + j /\ stream'[k] = es[j]
    BY <1>1
  <2>2. es[j].ord = o /\ (es[j].kind = "exchange" => api[o] = "idle" /\ DOMAIN es = {1})
    BY DEF Publication
  <2>3. \A i \in DOMAIN stream : i < k
    BY <1>1
  <2>4. QED
    BY <2>1, <2>2, <2>3
<1>10. api[o] = "idle" => /\ \A i \in DOMAIN rows : rows[i].ord # o
                         /\ \A k \in DOMAIN stream : stream[k].ord # o
  BY DEF IInv, Silent
<1>11. InsertFirst'
  <2>1. ASSUME NEW k \in DOMAIN stream', stream'[k].kind = "exchange"
        PROVE  /\ \A i \in DOMAIN rows : rows[i].ord # stream'[k].ord
               /\ \A j \in DOMAIN stream' : j < k => stream'[j].ord # stream'[k].ord
               /\ \A j \in DOMAIN stream' : j > k /\ stream'[j].kind = "exchange"
                                             => stream'[j].ord # stream'[k].ord
    <3>1. CASE k \in DOMAIN stream
      <4>1. stream'[k] = stream[k] /\ k \in Int
        BY <1>1, <1>3, <3>1
      <4>2. /\ \A i \in DOMAIN rows : rows[i].ord # stream[k].ord
            /\ \A j \in DOMAIN stream : j < k => stream[j].ord # stream[k].ord
            /\ \A j \in DOMAIN stream : j > k /\ stream[j].kind = "exchange"
                                          => stream[j].ord # stream[k].ord
        BY <2>1, <3>1, <4>1 DEF IInv, InsertFirst
      <4>3. ASSUME NEW j \in DOMAIN stream', j < k  PROVE stream'[j].ord # stream[k].ord
        <5>1. j \in DOMAIN stream
          <6>1. j \in Int
            BY <1>1, LenProperties
          <6>2. QED
            BY <1>9, <3>1, <4>1, <4>3, <6>1
        <5>2. QED
          BY <1>1, <4>2, <4>3, <5>1
      <4>4. ASSUME NEW j \in DOMAIN stream', j > k, stream'[j].kind = "exchange"
            PROVE  stream'[j].ord # stream[k].ord
        <5>1. CASE j \in DOMAIN stream
          BY <1>1, <4>2, <4>4, <5>1
        <5>2. CASE j \notin DOMAIN stream
          BY <1>9, <1>10, <3>1, <4>4, <5>2
        <5>3. QED
          BY <5>1, <5>2
      <4>5. QED
        BY <4>1, <4>2, <4>3, <4>4
    <3>2. CASE k \notin DOMAIN stream
      <4>1. stream'[k].ord = o /\ api[o] = "idle" /\ k = Len(stream) + 1
        BY <1>9, <2>1, <3>2
      <4>2. ASSUME NEW j \in DOMAIN stream', j # k, j < k \/ stream'[j].kind = "exchange"
            PROVE  stream'[j].ord # o
        <5>1. CASE j \in DOMAIN stream
          BY <1>1, <1>10, <4>1, <5>1
        <5>2. CASE j \notin DOMAIN stream
          <6>1. PICK i \in DOMAIN es : j = Len(stream) + i
            BY <1>1, <5>2
          <6>2. PICK m \in DOMAIN es : k = Len(stream) + m /\ stream'[k] = es[m]
            BY <1>1, <3>2
          <6>3. DOMAIN es = {1}
            BY <2>1, <6>2 DEF Publication
          <6>4. QED
            BY <4>1, <4>2, <6>1, <6>3
        <5>3. QED
          BY <5>1, <5>2
      <4>3. \A j \in DOMAIN stream' : j \in Int /\ k \in Int
        BY <1>1, LenProperties
      <4>4. QED
        BY <1>10, <4>1, <4>2, <4>3
    <3>3. QED
      BY <3>1, <3>2
  <2>2. QED
    BY <1>2, <2>1 DEF InsertFirst
<1>12. Counted'
  <2>1. ASSUME NEW p \in Orders \ lost'
        PROVE  trades[p] + Cardinality(TradesIn(stream', p)) = fills'[p]
    <3>1. trades[p] + Cardinality(TradesIn(stream, p)) = fills[p] /\ trades[p] \in Nat
      BY <1>1 DEF IInv, Counted, TypeOK
    <3>2. CASE p # o
      <4>1. TradesIn(stream', p) = TradesIn(stream, p)
        BY <1>1, <1>9, <3>2 DEF TradesIn
      <4>2. QED
        BY <3>1, <3>2, <4>1 DEF Publication
    <3>3. CASE p = o
      <4>1. \A j \in DOMAIN es : /\ Len(stream) + j \in DOMAIN stream' \ DOMAIN stream
                                 /\ stream'[Len(stream) + j] = es[j]
        BY <1>1, <3>3
      <4>2. CASE fills'[o] = fills[o] /\ \A j \in DOMAIN es : es[j].kind # "trade"
        <5>1. \A k \in DOMAIN stream' \ DOMAIN stream : stream'[k].kind # "trade"
          BY <1>1, <4>2
        <5>2. TradesIn(stream', o) = TradesIn(stream, o)
          BY <1>1, <5>1 DEF TradesIn
        <5>3. QED
          BY <3>1, <3>3, <4>2, <5>2
      <4>3. CASE /\ fills'[o] = fills[o] + 1
                 /\ \E n \in DOMAIN es : \A j \in DOMAIN es : es[j].kind = "trade" <=> j = n
        <5>1. PICK n \in DOMAIN es : \A j \in DOMAIN es : es[j].kind = "trade" <=> j = n
          BY <4>3
        <5>2. \A j \in DOMAIN es : j \in Int
          BY LenProperties
        <5>3. ASSUME NEW k \in DOMAIN stream' \ DOMAIN stream
              PROVE  (stream'[k].kind = "trade" /\ stream'[k].ord = o) <=> k = Len(stream) + n
          <6>1. PICK j \in DOMAIN es : k = Len(stream) + j /\ stream'[k] = es[j]
            BY <1>1
          <6>2. k = Len(stream) + n <=> j = n
            BY <1>3, <5>2, <6>1
          <6>3. es[j].kind = "trade" <=> j = n
            BY <5>1
          <6>4. QED
            BY <1>9, <6>1, <6>2, <6>3
        <5>4. /\ Len(stream) + n \in DOMAIN stream' /\ Len(stream) + n \notin DOMAIN stream
          BY <4>1
        <5>5. Cardinality(TradesIn(stream', o)) = Cardinality(TradesIn(stream, o)) + 1
          <6>1. TradesIn(stream', o) = TradesIn(stream, o) \cup {Len(stream) + n}
            <7>1. \A k \in DOMAIN stream : k \in TradesIn(stream', o) <=> k \in TradesIn(stream, o)
              BY <1>1 DEF TradesIn
            <7>2. \A k \in DOMAIN stream' \ DOMAIN stream :
                    k \in TradesIn(stream', o) <=> k = Len(stream) + n
              BY <5>3 DEF TradesIn
            <7>3. TradesIn(stream', o) \subseteq DOMAIN stream' /\ TradesIn(stream, o) \subseteq DOMAIN stream
              BY DEF TradesIn
            <7>4. QED
              BY <1>1, <5>4, <7>1, <7>2, <7>3
          <6>2. IsFiniteSet(TradesIn(stream, o)) /\ Len(stream) + n \notin TradesIn(stream, o)
            BY <1>3, <5>4, TradesFinite DEF TradesIn
          <6>3. QED
            BY <6>1, <6>2, FS_AddElement
        <5>6. Cardinality(TradesIn(stream, o)) \in Nat
          BY <1>3, TradesFinite
        <5>7. QED
          BY <3>1, <3>3, <4>3, <5>5, <5>6, SMTT(30)
      <4>4. QED
        BY <4>2, <4>3 DEF Publication
    <3>4. QED
      BY <3>2, <3>3
  <2>2. QED
    BY <1>2, <2>1 DEF Counted
<1>13. Told'
  <2>1. ASSUME NEW p \in echoed \ lost'
        PROVE  \/ fills'[p] = 0
               \/ \E k \in DOMAIN stream' : /\ stream'[k].kind = "update" /\ stream'[k].ord = p
                                            /\ stream'[k].filled = fills'[p]
               \/ \E i \in DOMAIN rows : rows[i].ord = p /\ rows[i].filled = fills'[p]
    <3>1. p \in Orders
      BY DEF IInv, TypeOK
    <3>2. CASE fills'[p] = fills[p]
      <4>1. \/ fills[p] = 0
            \/ \E k \in DOMAIN stream : /\ stream[k].kind = "update" /\ stream[k].ord = p
                                        /\ stream[k].filled = fills[p]
            \/ \E i \in DOMAIN rows : rows[i].ord = p /\ rows[i].filled = fills[p]
        BY <1>1 DEF IInv, Told
      <4>2. QED
        BY <1>1, <3>2, <4>1
    <3>3. CASE fills'[p] # fills[p]
      <4>1. p = o
        BY <3>1, <3>3 DEF Publication
      <4>2. PICK j \in DOMAIN es : es[j].kind = "update" /\ es[j].filled = fills'[o]
        BY <3>3, <4>1 DEF Publication
      <4>3. /\ Len(stream) + j \in DOMAIN stream' /\ stream'[Len(stream) + j] = es[j]
        BY <1>1, <4>1
      <4>4. es[j].ord = o
        BY DEF Publication
      <4>5. QED
        BY <4>1, <4>2, <4>3, <4>4
    <3>4. QED
      BY <3>2, <3>3
  <2>2. QED
    BY <1>2, <2>1 DEF Told
<1>14. QED
  BY <1>1, <1>5, <1>6, <1>7, <1>8, <1>11, <1>12, <1>13

-----------------------------------------------------------------------------
LEMMA OneEvent ==
  ASSUME NEW a \in Event
  PROVE  <<a>> \in Seq(Event) /\ <<a>> # <<>> /\ DOMAIN <<a>> = {1} /\ <<a>>[1] = a
  OBVIOUS

LEMMA TwoEvents ==
  ASSUME NEW a \in Event, NEW b \in Event
  PROVE  /\ <<a, b>> \in Seq(Event) /\ <<a, b>> # <<>> /\ DOMAIN <<a, b>> = {1, 2}
         /\ <<a, b>>[1] = a /\ <<a, b>>[2] = b
  OBVIOUS

LEMMA OrdersTyped ==
  ASSUME OrdersDbAssumption, IInv, NEW o \in Orders
  PROVE  /\ Size \in Nat /\ fills[o] \in Nat /\ fills[o] <= Size
         /\ exchange[o] \in {"none", "open", "filled", "canceled"}
         /\ api[o] = "idle" => exchange[o] = "none"
         /\ exchange[o] = "none" => fills[o] = 0
         /\ exchange[o] = "open" => fills[o] < Size
  BY DEF IInv, TypeOK, Filling, OrdersDbAssumption

\* What the steps of the order's side change, and that they publish
Says(o) ==
  /\ api' \in [Orders -> {"idle", "creating", "answered"}]
  /\ exchange' \in [Orders -> {"none", "open", "filled", "canceled"}]
  /\ fills' \in [Orders -> 0..Size]
  /\ Filling'
  /\ \E es \in Seq(Event) : Publication(o, es)

LEMMA ReportTyped ==
  ASSUME NEW o \in Orders, NEW st \in Status, NEW n \in Nat
  PROVE  /\ Report(o, st, n) \in Event
         /\ Report(o, st, n).ord = o /\ Report(o, st, n).kind = "update"
         /\ Report(o, st, n).filled = n /\ Report(o, st, n).st = st
         /\ o \in echoed => Report(o, st, n).own
<1>1. CASE o \in echoed
  <2>1. Report(o, st, n) = [kind |-> "update", ord |-> o, own |-> TRUE, eid |-> TRUE,
                            st |-> st, filled |-> n]
    BY <1>1, Zenon DEF Report
  <2>2. QED
    BY <1>1, <2>1 DEF Event
<1>2. CASE o \notin echoed
  <2>1. Report(o, st, n) = [kind |-> "update", ord |-> o, own |-> FALSE, eid |-> TRUE,
                            st |-> st, filled |-> n]
    <3>1. (o \in echoed) = FALSE
      BY <1>2
    <3>2. QED
      BY <3>1 DEF Report
  <2>2. QED
    BY <1>2, <2>1 DEF Event
<1>3. QED
  BY <1>1, <1>2

LEMMA FireOrderSends ==
  ASSUME OrdersDbAssumption, IInv, NEW o \in Orders, FireOrder(o)
  PROVE  Says(o)
<1>1. PICK e \in Event : /\ e.kind = "exchange" /\ e.ord = o /\ e.own /\ e.filled = 0
                         /\ e.st = "new" /\ Publish(<<e>>)
  BY DEF FireOrder, Event, Status
<1>2. /\ api' \in [Orders -> {"idle", "creating", "answered"}] /\ api'[o] = "creating"
      /\ api[o] = "idle" /\ \A p \in Orders \ {o} : api'[p] = api[p]
      /\ exchange' = exchange /\ fills' = fills
  BY DEF FireOrder, IInv, TypeOK
<1>3. Filling'
  BY <1>2, OrdersTyped DEF IInv, TypeOK, Filling
<1>4. EventTrue(e, fills'[o])
  BY <1>1, <1>2, OrdersTyped DEF EventTrue, Sayable
<1>5. Publication(o, <<e>>)
  BY <1>1, <1>2, <1>4, OneEvent DEF FireOrder, Publication
<1>6. QED
  BY <1>1, <1>2, <1>3, <1>5, OneEvent DEF Says, IInv, TypeOK

LEMMA AcceptSends ==
  ASSUME OrdersDbAssumption, IInv, NEW o \in Orders, Accept(o)
  PROVE  Says(o)
<1> DEFINE e == Report(o, "open", 0)
<1>1. e \in Event /\ EventTrue(e, fills'[o]) /\ e.kind = "update" /\ e.ord = o
  BY OrdersTyped, ReportTyped DEF Accept, Status, EventTrue, Sayable
<1>2. /\ exchange' \in [Orders -> {"none", "open", "filled", "canceled"}]
      /\ exchange'[o] = "open" /\ \A p \in Orders \ {o} : exchange'[p] = exchange[p]
      /\ api[o] # "idle" /\ api' = api /\ fills' = fills
  BY DEF Accept, IInv, TypeOK
<1>3. Filling'
  BY <1>2, OrdersTyped DEF Accept, IInv, Filling, OrdersDbAssumption
<1>4. Publication(o, <<e>>)
  BY <1>1, <1>2, OneEvent DEF Accept, Publication
<1>5. QED
  BY <1>1, <1>2, <1>3, <1>4, OneEvent DEF Says, IInv, TypeOK

LEMMA CancelSends ==
  ASSUME OrdersDbAssumption, IInv, NEW o \in Orders, Cancel(o)
  PROVE  Says(o)
<1> DEFINE e == Report(o, "canceled", fills[o])
<1>1. e \in Event /\ EventTrue(e, fills'[o]) /\ e.kind = "update" /\ e.ord = o
  BY OrdersTyped, ReportTyped DEF Cancel, Status, EventTrue, Sayable
<1>2. /\ exchange' \in [Orders -> {"none", "open", "filled", "canceled"}]
      /\ exchange'[o] = "canceled" /\ \A p \in Orders \ {o} : exchange'[p] = exchange[p]
      /\ api[o] # "idle" /\ api' = api /\ fills' = fills
  BY OrdersTyped DEF Cancel, IInv, TypeOK
<1>3. Filling'
  BY <1>2, OrdersTyped DEF IInv, Filling
<1>4. Publication(o, <<e>>)
  BY <1>1, <1>2, OneEvent DEF Cancel, Publication
<1>5. QED
  BY <1>1, <1>2, <1>3, <1>4, OneEvent DEF Says, IInv, TypeOK

LEMMA AnswerSends ==
  ASSUME OrdersDbAssumption, IInv, NEW o \in Orders, Answer(o)
  PROVE  Says(o)
<1>1. PICK e \in Event : /\ e.kind = "update" /\ e.ord = o /\ e.own /\ e.filled = 0
                         /\ e.st \in {"open", "rejected"} /\ Publish(<<e>>)
  <2>1. CASE Publish(<<[Report(o, "open", 0) EXCEPT !.own = TRUE]>>)
    BY <2>1 DEF Report, Event, Status
  <2>2. CASE Publish(<<[Report(o, "rejected", 0) EXCEPT !.own = TRUE, !.eid = FALSE]>>)
    BY <2>2 DEF Report, Event, Status
  <2>3. QED
    BY <2>1, <2>2 DEF Answer
<1>2. /\ api' \in [Orders -> {"idle", "creating", "answered"}] /\ api'[o] = "answered"
      /\ \A p \in Orders \ {o} : api'[p] = api[p]
      /\ exchange' = exchange /\ fills' = fills
  BY DEF Answer, IInv, TypeOK
<1>3. Filling'
  BY <1>2, OrdersTyped DEF Answer, IInv, TypeOK, Filling
<1>4. EventTrue(e, fills'[o])
  BY <1>1, <1>2, OrdersTyped DEF EventTrue, Sayable
<1>5. Publication(o, <<e>>)
  BY <1>1, <1>2, <1>4, OneEvent DEF Answer, Publication
<1>6. QED
  BY <1>1, <1>2, <1>3, <1>5, OneEvent DEF Says, IInv, TypeOK

LEMMA FillSends ==
  ASSUME OrdersDbAssumption, IInv, NEW o \in Orders, Fill(o)
  PROVE  Says(o)
<1> DEFINE st == IF fills'[o] = Size THEN "filled" ELSE "partial"
           r == Report(o, st, fills'[o])
           f == FillEvent(o)
<1>1. /\ fills[o] \in Nat /\ fills[o] < Size /\ Size \in Nat /\ api[o] # "idle"
  BY OrdersTyped DEF Fill
<1>2. /\ fills' \in [Orders -> 0..Size] /\ fills'[o] = fills[o] + 1
      /\ \A p \in Orders \ {o} : fills'[p] = fills[p]
      /\ api' = api
  BY <1>1 DEF Fill, IInv, TypeOK
<1>3. /\ exchange' \in [Orders -> {"none", "open", "filled", "canceled"}]
      /\ exchange'[o] = (IF fills'[o] = Size THEN "filled" ELSE "open")
      /\ \A p \in Orders \ {o} : exchange'[p] = exchange[p]
  BY DEF Fill, IInv, TypeOK
<1>4. Filling'
  BY <1>1, <1>2, <1>3, OrdersTyped DEF IInv, Filling
<1>5. /\ r \in Event /\ r.kind = "update" /\ r.ord = o /\ r.filled = fills'[o]
      /\ r.st \in Sayable /\ (o \in echoed => r.own)
  BY <1>1, <1>2, ReportTyped DEF Status, Sayable
<1>6. /\ f \in Event /\ f.kind = "trade" /\ f.ord = o /\ f.filled = 1
      /\ f.st \in Sayable /\ (o \in echoed => f.own)
  <2>1. "partial" \in Status /\ 1 \in Nat
    BY DEF Status
  <2>2. QED
    BY <2>1, ReportTyped DEF FillEvent, Event, Sayable
<1>7. EventTrue(r, fills'[o]) /\ EventTrue(f, fills'[o])
  BY <1>1, <1>2, <1>5, <1>6 DEF EventTrue
<1>8. ASSUME NEW es \in Seq(Event), Publish(es), es # <<>>, DOMAIN es = {1, 2},
             \/ es[1] = f /\ es[2] = r
             \/ es[1] = r /\ es[2] = f
      PROVE  Publication(o, es)
  <2>1. \A j \in DOMAIN es : es[j].ord = o /\ EventTrue(es[j], fills'[o]) /\ es[j].kind # "exchange"
    BY <1>5, <1>6, <1>7, <1>8
  <2>2. /\ \E n \in DOMAIN es : \A j \in DOMAIN es : es[j].kind = "trade" <=> j = n
        /\ \E j \in DOMAIN es : es[j].kind = "update" /\ es[j].filled = fills'[o]
    BY <1>5, <1>6, <1>8
  <2>3. UNCHANGED <<database, handlerUp, restarts>>
    BY DEF Fill
  <2>4. QED
    BY <1>1, <1>2, <1>8, <2>1, <2>2, <2>3 DEF Publication
<1>9. Publish(<<f, r>>) \/ Publish(<<r, f>>)
  BY DEF Fill
<1>10. \E es \in Seq(Event) : Publication(o, es)
  <2> HIDE DEF r, f
  <2>1. CASE Publish(<<f, r>>)
    <3>1. Publication(o, <<f, r>>)
      BY <1>5, <1>6, <1>8, <2>1, TwoEvents
    <3>2. QED
      BY <1>5, <1>6, <3>1, TwoEvents
  <2>2. CASE Publish(<<r, f>>)
    <3>1. Publication(o, <<r, f>>)
      BY <1>5, <1>6, <1>8, <2>2, TwoEvents
    <3>2. QED
      BY <1>5, <1>6, <3>1, TwoEvents
  <2>3. QED
    BY <1>9, <2>1, <2>2
<1>11. QED
  BY <1>2, <1>3, <1>4, <1>10 DEF Says, IInv, TypeOK

LEMMA SendingKeeps ==
  ASSUME OrdersDbAssumption, IInv, NEW o \in Orders, Says(o)
  PROVE  IInv' /\ rows' = rows
<1>1. PICK es \in Seq(Event) : Publication(o, es)
  BY DEF Says
<1>2. /\ stream' \in Seq(Event) /\ lost' \in SUBSET Orders
      /\ EventsTrue' /\ RowsTrue' /\ Silent' /\ InsertFirst' /\ OneRow' /\ Counted' /\ Told'
  BY <1>1, PublicationKeeps
<1>3. TypeOK'
  BY <1>1, <1>2 DEF Says, Publication, database, IInv, TypeOK
<1>4. MayRestart'
  BY <1>1 DEF Publication, IInv, MayRestart
<1>5. QED
  BY <1>1, <1>2, <1>3, <1>4 DEF Says, Publication, database, IInv

-----------------------------------------------------------------------------
LEMMA HeadRead ==
  ASSUME IInv, Handle
  PROVE  /\ stream \in Seq(Event) /\ stream # <<>>
         /\ Head(stream) = stream[1] /\ stream[1] \in Event /\ 1 \in DOMAIN stream
         /\ stream' = Tail(stream) /\ stream' \in Seq(Event)
         /\ DOMAIN stream \subseteq Int
         /\ \A k \in DOMAIN stream' : k \in Int /\ k + 1 \in DOMAIN stream /\ k > 0
                                      /\ stream'[k] = stream[k + 1]
         /\ \A k \in DOMAIN stream : k = 1 \/ (k - 1 \in DOMAIN stream' /\ stream'[k - 1] = stream[k])
<1>1. /\ stream \in Seq(Event) /\ Len(stream) \in Nat /\ DOMAIN stream = 1..Len(stream)
      /\ \A k \in DOMAIN stream : stream[k] \in Event
  BY StreamTyped
<1>2. stream # <<>> /\ stream' = Tail(stream)
  BY DEF Handle
<1>3. Len(stream) > 0
  BY <1>1, <1>2, EmptySeq
<1>4. /\ Head(stream) = stream[1] /\ Tail(stream) \in Seq(Event)
      /\ Len(Tail(stream)) = Len(stream) - 1
      /\ \A k \in 1..Len(Tail(stream)) : Tail(stream)[k] = stream[k + 1]
  <2>1. Head(stream) = stream[1]
    BY <1>1, <1>2
  <2>2. QED
    BY <1>1, <1>2, <2>1, HeadTailProperties
<1>5. DOMAIN stream' = 1..(Len(stream) - 1)
  BY <1>2, <1>4, LenProperties
<1>6. \A k \in DOMAIN stream : k = 1 \/ (k - 1 \in DOMAIN stream' /\ stream'[k - 1] = stream[k])
  <2>1. ASSUME NEW k \in DOMAIN stream, k # 1
        PROVE  k - 1 \in DOMAIN stream' /\ stream'[k - 1] = stream[k]
    <3>1. k - 1 \in 1..(Len(stream) - 1) /\ (k - 1) + 1 = k
      BY <1>1, <2>1
    <3>2. stream'[k - 1] = stream[(k - 1) + 1]
      BY <1>2, <1>4, <3>1
    <3>3. QED
      BY <1>5, <3>1, <3>2
  <2>2. QED
    BY <2>1
<1>7. QED
  BY <1>1, <1>2, <1>3, <1>4, <1>5, <1>6

\* What an event does to the rows: those of its order keep what they say, or say more, and
\* a new row of an echoed order is the first of it.
RowsTake(e) ==
  /\ rows' \in Seq(Row)
  /\ \A i \in DOMAIN rows :
       /\ i \in DOMAIN rows' /\ rows'[i].ord = rows[i].ord /\ rows'[i].own = rows[i].own
       /\ rows'[i].filled <= fills[rows[i].ord]
       /\ rows[i].ord \in echoed =>
            /\ rows[i].filled <= rows'[i].filled
            /\ rows[i].st \in FinalStatus => rows'[i].st \in FinalStatus
  /\ \A i \in DOMAIN rows' \ DOMAIN rows :
       /\ rows'[i].ord = e.ord /\ rows'[i].own = e.own /\ rows'[i].filled = e.filled
       /\ e.kind # "trade" /\ i = Len(rows) + 1
       /\ e.ord \in echoed => \A j \in DOMAIN rows : rows[j].ord # e.ord
  /\ e.kind # "trade" /\ e.ord \in echoed =>
       \E i \in DOMAIN rows' : rows'[i].ord = e.ord /\ e.filled <= rows'[i].filled

LEMMA InsertTakes ==
  ASSUME OrdersDbAssumption, IInv, NEW e \in Event, e.kind # "trade",
         rows' = Inserted(e), e.ord \in echoed => \A j \in DOMAIN rows : rows[j].ord # e.ord
  PROVE  RowsTake(e)
<1> DEFINE r == [ord |-> e.ord, own |-> e.own, eid |-> e.eid, st |-> e.st, filled |-> e.filled]
<1>1. /\ rows \in Seq(Row) /\ Len(rows) \in Nat /\ DOMAIN rows = 1..Len(rows)
      /\ \A i \in DOMAIN rows : rows[i] \in Row
  BY StreamTyped
<1>2. r \in Row
  BY DEF Event, Row
<1>3. rows' = Append(rows, r)
  BY DEF Inserted
<1>4. /\ rows' \in Seq(Row) /\ Len(rows') = Len(rows) + 1
      /\ \A i \in 1..Len(rows) : rows'[i] = rows[i]
      /\ rows'[Len(rows) + 1] = r
  <2> HIDE DEF r
  <2>1. QED
    BY <1>1, <1>2, <1>3, AppendProperties
<1>5. DOMAIN rows' = 1..(Len(rows) + 1)
  BY <1>4, LenProperties
<1>6. \A i \in DOMAIN rows : /\ i \in DOMAIN rows' /\ rows'[i] = rows[i]
                             /\ rows[i].filled \in Nat
                             /\ rows[i].filled <= fills[rows[i].ord]
  BY <1>1, <1>4, <1>5 DEF Row, IInv, RowsTrue
<1>7. \A i \in DOMAIN rows' \ DOMAIN rows : i = Len(rows) + 1
  BY <1>1, <1>5
<1>8. /\ Len(rows) + 1 \in DOMAIN rows' /\ r.filled = e.filled /\ r.ord = e.ord /\ r.own = e.own
      /\ e.filled \in Nat
  BY <1>1, <1>5 DEF Event
<1>9. QED
  <2> HIDE DEF r
  <2>1. \A i \in DOMAIN rows :
          rows[i].ord \in echoed => /\ rows[i].filled <= rows'[i].filled
                                    /\ rows[i].st \in FinalStatus => rows'[i].st \in FinalStatus
    BY <1>6
  <2>2. e.filled <= rows'[Len(rows) + 1].filled
    BY <1>4, <1>8
  <2>3. QED
    BY <1>4, <1>6, <1>7, <1>8, <2>1, <2>2 DEF RowsTake

LEMMA UpdateTakes ==
  ASSUME OrdersDbAssumption, IInv, NEW e \in Event, e.kind = "update",
         EventTrue(e, fills[e.ord]), CreateOrUpdate(e)
  PROVE  RowsTake(e)
<1>1. /\ rows \in Seq(Row) /\ Len(rows) \in Nat /\ DOMAIN rows = 1..Len(rows)
      /\ \A i \in DOMAIN rows : rows[i] \in Row
  BY StreamTyped
<1>2. e.ord \in echoed => Matching(e) = {i \in DOMAIN rows : rows[i].ord = e.ord}
  BY DEF IInv, RowsTrue, EventTrue, Matching
<1>3. CASE Matching(e) = {}
  <2>1. rows' = Inserted(e) /\ (e.ord \in echoed => \A j \in DOMAIN rows : rows[j].ord # e.ord)
    BY <1>2, <1>3 DEF CreateOrUpdate
  <2>2. QED
    BY <2>1, InsertTakes
<1>4. CASE Matching(e) # {}
  <2>1. PICK seen \in Matching(e) :
          rows' = [i \in DOMAIN rows |->
                     IF i \in Matching(e) THEN Updated(rows[i], rows[seen], e) ELSE rows[i]]
    BY <1>4 DEF CreateOrUpdate
  <2>2. \A i \in Matching(e) : i \in DOMAIN rows /\ rows[i].ord = e.ord /\ rows[i] \in Row
    BY <1>1 DEF Matching
  <2>3. /\ e.ord \in Orders /\ e.filled \in Nat /\ e.filled <= fills[e.ord]
        /\ e.st \in Sayable /\ e.st \in Status /\ e.eid \in BOOLEAN /\ fills[e.ord] \in Nat
    BY OrdersTyped DEF Event, EventTrue
  <2>4. /\ rows[seen].filled \in Nat /\ rows[seen].filled <= fills[e.ord]
        /\ rows[seen].st \in Status
    BY <2>2 DEF IInv, RowsTrue, Row
  <2>5. ASSUME NEW i \in Matching(e)
        PROVE  /\ Updated(rows[i], rows[seen], e) \in Row
               /\ Updated(rows[i], rows[seen], e).ord = rows[i].ord
               /\ Updated(rows[i], rows[seen], e).own = rows[i].own
               /\ Updated(rows[i], rows[seen], e).filled =
                    (IF e.filled > rows[seen].filled THEN e.filled ELSE rows[seen].filled)
               /\ Updated(rows[i], rows[seen], e).st =
                    (IF Rank[e.st] >= Rank[rows[seen].st] THEN e.st ELSE rows[seen].st)
    BY <2>2, <2>3, <2>4 DEF Updated, Row
  <2>6. /\ DOMAIN rows' = DOMAIN rows
        /\ \A i \in Matching(e) : rows'[i] = Updated(rows[i], rows[seen], e)
        /\ \A i \in DOMAIN rows \ Matching(e) : rows'[i] = rows[i]
    BY <2>1, <2>2
  <2>7. rows' \in Seq(Row)
    <3>1. \A i \in 1..Len(rows) : rows'[i] \in Row
      BY <1>1, <2>5, <2>6
    <3>2. rows' = [i \in 1..Len(rows) |-> rows'[i]]
      BY <1>1, <2>1
    <3>3. QED
      BY <1>1, <3>1, <3>2, IsASeq
  <2>8. \A i \in DOMAIN rows : /\ rows[i].filled \in Nat /\ rows[i].filled <= fills[rows[i].ord]
    BY <1>1 DEF IInv, RowsTrue, Row
  <2>9. ASSUME NEW i \in Matching(e), e.ord \in echoed
        PROVE  /\ rows[i].filled <= rows'[i].filled
               /\ rows[i].st \in FinalStatus => rows'[i].st \in FinalStatus
    <3>1. i = seen
      BY <2>2, <2>9 DEF IInv, OneRow
    <3>2. rows'[i].filled = (IF e.filled > rows[i].filled THEN e.filled ELSE rows[i].filled)
          /\ rows'[i].st = (IF Rank[e.st] >= Rank[rows[i].st] THEN e.st ELSE rows[i].st)
      BY <2>5, <2>6, <3>1
    <3>3. rows[i].st \in FinalStatus /\ Rank[e.st] >= Rank[rows[i].st] => e.st \in FinalStatus
      BY <2>3 DEF FinalStatus, Sayable, Rank
    <3>4. QED
      BY <2>3, <2>4, <3>1, <3>2, <3>3
  <2>10. ASSUME NEW i \in DOMAIN rows
         PROVE  /\ rows'[i].ord = rows[i].ord /\ rows'[i].own = rows[i].own
                /\ rows'[i].filled <= fills[rows[i].ord]
                /\ rows[i].ord \in echoed =>
                     /\ rows[i].filled <= rows'[i].filled
                     /\ rows[i].st \in FinalStatus => rows'[i].st \in FinalStatus
    <3>1. CASE i \in Matching(e)
      BY <2>2, <2>3, <2>4, <2>5, <2>6, <2>9, <3>1
    <3>2. CASE i \notin Matching(e)
      BY <2>6, <2>8, <3>2
    <3>3. QED
      BY <3>1, <3>2
  <2>11. seen \in DOMAIN rows' /\ rows'[seen].ord = e.ord /\ e.filled <= rows'[seen].filled
    BY <2>2, <2>3, <2>4, <2>5, <2>6
  <2>12. QED
    BY <2>6, <2>7, <2>10, <2>11 DEF RowsTake
<1>5. QED
  BY <1>3, <1>4

LEMMA HandleTakes ==
  ASSUME OrdersDbAssumption, IInv, Handle
  PROVE  /\ RowsTake(stream[1])
         /\ trades' = [p \in Orders |-> trades[p] + (IF stream[1].kind = "trade" /\ stream[1].ord = p
                                                     THEN 1 ELSE 0)]
<1>1. stream[1] \in Event /\ Head(stream) = stream[1] /\ 1 \in DOMAIN stream
  BY HeadRead
<1>2. EventTrue(stream[1], fills[stream[1].ord])
  BY <1>1 DEF IInv, EventsTrue
<1>3. trades \in [Orders -> Nat] /\ stream[1].ord \in Orders
  BY <1>1 DEF IInv, TypeOK, Event
<1>4. CASE stream[1].kind = "exchange" /\ rows' = Inserted(stream[1]) /\ trades' = trades
  <2>1. \A j \in DOMAIN rows : rows[j].ord # stream[1].ord
    BY <1>1, <1>4 DEF IInv, InsertFirst
  <2>2. RowsTake(stream[1])
    BY <1>1, <1>4, <2>1, InsertTakes
  <2>3. QED
    BY <1>3, <1>4, <2>2
<1>5. CASE stream[1].kind = "update" /\ CreateOrUpdate(stream[1]) /\ trades' = trades
  <2>1. RowsTake(stream[1])
    BY <1>1, <1>2, <1>5, UpdateTakes
  <2>2. QED
    BY <1>3, <1>5, <2>1
<1>6. CASE /\ stream[1].kind = "trade" /\ rows' = rows
           /\ trades' = [trades EXCEPT ![stream[1].ord] = @ + stream[1].filled]
  <2>1. stream[1].filled = 1
    BY <1>2, <1>6 DEF EventTrue
  <2>2. /\ rows \in Seq(Row)
        /\ \A i \in DOMAIN rows : rows[i] \in Row /\ rows[i].filled \in Nat
                                  /\ rows[i].filled <= fills[rows[i].ord]
    BY StreamTyped DEF IInv, RowsTrue, Row
  <2>3. RowsTake(stream[1])
    BY <1>6, <2>2 DEF RowsTake
  <2>4. trades' = [p \in Orders |-> IF p = stream[1].ord THEN trades[p] + 1 ELSE trades[p]]
    <3>1. trades' = [trades EXCEPT ![stream[1].ord] = trades[stream[1].ord] + 1]
      BY <1>6, <2>1
    <3>2. QED
      BY <1>3, <3>1
  <2>5. \A p \in Orders : trades[p] \in Nat
    BY <1>3
  <2>6. \A p \in Orders : (IF p = stream[1].ord THEN trades[p] + 1 ELSE trades[p])
           = trades[p] + (IF stream[1].kind = "trade" /\ stream[1].ord = p THEN 1 ELSE 0)
    BY <1>6, <2>5
  <2>7. QED
    BY <2>3, <2>4, <2>6
<1>7. \/ stream[1].kind = "exchange" /\ rows' = Inserted(stream[1]) /\ trades' = trades
      \/ stream[1].kind = "update" /\ CreateOrUpdate(stream[1]) /\ trades' = trades
      \/ /\ stream[1].kind = "trade" /\ rows' = rows
         /\ trades' = [trades EXCEPT ![stream[1].ord] = @ + stream[1].filled]
  <2> DEFINE e == Head(stream)
  <2>1. \/ e.kind = "exchange" /\ rows' = Inserted(e) /\ trades' = trades
        \/ e.kind = "update" /\ CreateOrUpdate(e) /\ trades' = trades
        \/ /\ e.kind = "trade" /\ rows' = rows
           /\ trades' = [trades EXCEPT ![e.ord] = @ + e.filled]
    BY Zenon DEF Handle
  <2>2. QED
    BY <1>1, <2>1
<1>8. QED
  BY <1>4, <1>5, <1>6, <1>7

LEMMA HandleKeeps ==
  ASSUME OrdersDbAssumption, IInv, Handle
  PROVE  IInv'
<1> DEFINE e == stream[1]
<1>1. /\ stream \in Seq(Event) /\ stream # <<>> /\ e \in Event /\ 1 \in DOMAIN stream
      /\ stream' = Tail(stream) /\ stream' \in Seq(Event) /\ DOMAIN stream \subseteq Int
      /\ \A k \in DOMAIN stream' : k \in Int /\ k + 1 \in DOMAIN stream /\ k > 0
                                   /\ stream'[k] = stream[k + 1]
      /\ \A k \in DOMAIN stream : k = 1 \/ (k - 1 \in DOMAIN stream' /\ stream'[k - 1] = stream[k])
  BY HeadRead
<1>2. /\ RowsTake(e)
      /\ trades' = [p \in Orders |-> trades[p] + (IF e.kind = "trade" /\ e.ord = p THEN 1 ELSE 0)]
  BY HandleTakes
<1>3. UNCHANGED <<echoed, handlerUp, restarts, api, exchange, fills, lost>>
  BY DEF Handle
<1>4. e.ord \in Orders /\ EventTrue(e, fills[e.ord]) /\ api[e.ord] # "idle"
  BY <1>1 DEF Event, IInv, EventsTrue, Silent
<1>5. \A i \in DOMAIN rows : rows[i] \in Row
  BY StreamTyped
<1> HIDE DEF e
<1>6. TypeOK'
  <2>1. trades \in [Orders -> Nat]
    BY DEF IInv, TypeOK
  <2>2. trades' \in [Orders -> Nat]
    BY <1>2, <2>1
  <2>3. rows' \in Seq(Row)
    BY <1>2 DEF RowsTake
  <2>4. QED
    BY <1>1, <1>3, <2>2, <2>3 DEF IInv, TypeOK
<1>7. Filling'
  BY <1>3 DEF IInv, Filling
<1>8. EventsTrue'
  <2>1. \A k \in DOMAIN stream' : EventTrue(stream'[k], fills[stream'[k].ord])
    BY <1>1 DEF IInv, EventsTrue
  <2>2. QED
    BY <1>3, <2>1 DEF EventsTrue, EventTrue
<1>9. RowsTrue'
  <2>1. ASSUME NEW i \in DOMAIN rows'
        PROVE  /\ rows'[i].ord \in echoed => rows'[i].own
               /\ rows'[i].filled <= fills[rows'[i].ord]
    <3>1. CASE i \in DOMAIN rows
      BY <1>2, <3>1 DEF RowsTake, IInv, RowsTrue
    <3>2. CASE i \notin DOMAIN rows
      BY <1>2, <1>4, <3>2 DEF RowsTake, EventTrue
    <3>3. QED
      BY <3>1, <3>2
  <2>2. QED
    BY <1>3, <2>1 DEF RowsTrue
<1>10. \A i \in DOMAIN rows' : rows'[i].ord = e.ord \/ (i \in DOMAIN rows /\ rows'[i].ord = rows[i].ord)
  BY <1>2 DEF RowsTake
<1>11. Silent'
  <2>1. ASSUME NEW p \in Orders, api[p] = "idle"
        PROVE  /\ \A i \in DOMAIN rows' : rows'[i].ord # p
               /\ \A k \in DOMAIN stream' : stream'[k].ord # p
    <3>1. /\ \A i \in DOMAIN rows : rows[i].ord # p
          /\ \A k \in DOMAIN stream : stream[k].ord # p
      BY <2>1 DEF IInv, Silent
    <3>2. e.ord # p
      BY <1>4, <2>1
    <3>3. QED
      BY <1>1, <1>10, <3>1, <3>2
  <2>2. QED
    BY <1>3, <2>1 DEF Silent
<1>12. InsertFirst'
  <2>1. ASSUME NEW k \in DOMAIN stream', stream'[k].kind = "exchange"
        PROVE  /\ \A i \in DOMAIN rows' : rows'[i].ord # stream'[k].ord
               /\ \A j \in DOMAIN stream' : j < k => stream'[j].ord # stream'[k].ord
               /\ \A j \in DOMAIN stream' : j > k /\ stream'[j].kind = "exchange"
                                             => stream'[j].ord # stream'[k].ord
    <3>1. /\ k \in Int /\ k > 0 /\ k + 1 \in DOMAIN stream /\ stream'[k] = stream[k + 1]
      BY <1>1
    <3>2. /\ \A i \in DOMAIN rows : rows[i].ord # stream[k + 1].ord
          /\ \A j \in DOMAIN stream : j < k + 1 => stream[j].ord # stream[k + 1].ord
          /\ \A j \in DOMAIN stream : j > k + 1 /\ stream[j].kind = "exchange"
                                        => stream[j].ord # stream[k + 1].ord
      BY <2>1, <3>1 DEF IInv, InsertFirst
    <3>3. e.ord # stream[k + 1].ord
      BY <1>1, <3>1, <3>2 DEF e
    <3>4. ASSUME NEW j \in DOMAIN stream'
          PROVE  /\ j \in Int /\ j + 1 \in DOMAIN stream /\ stream'[j] = stream[j + 1]
                 /\ j < k => j + 1 < k + 1
                 /\ j > k => j + 1 > k + 1
      BY <1>1, <3>1
    <3>5. QED
      BY <1>10, <3>1, <3>2, <3>3, <3>4
  <2>2. QED
    BY <2>1 DEF InsertFirst
<1>13. OneRow'
  <2>1. ASSUME NEW i \in DOMAIN rows', NEW j \in DOMAIN rows',
               rows'[i].ord = rows'[j].ord, rows'[i].ord \in echoed
        PROVE  i = j
    <3>1. CASE i \in DOMAIN rows /\ j \in DOMAIN rows
      BY <1>2, <2>1, <3>1 DEF RowsTake, IInv, OneRow
    <3>2. CASE i \notin DOMAIN rows /\ j \notin DOMAIN rows
      BY <1>2, <3>2 DEF RowsTake
    <3>3. CASE i \in DOMAIN rows /\ j \notin DOMAIN rows
      BY <1>2, <2>1, <3>3 DEF RowsTake
    <3>4. CASE i \notin DOMAIN rows /\ j \in DOMAIN rows
      BY <1>2, <2>1, <3>4 DEF RowsTake
    <3>5. QED
      BY <3>1, <3>2, <3>3, <3>4
  <2>2. QED
    BY <1>3, <2>1 DEF OneRow
<1>14. Counted'
  <2>1. ASSUME NEW p \in Orders \ lost
        PROVE  trades'[p] + Cardinality(TradesIn(stream', p)) = fills[p]
    <3>1. trades[p] + Cardinality(TradesIn(stream, p)) = fills[p] /\ trades[p] \in Nat
      BY DEF IInv, Counted, TypeOK
    <3>2. Cardinality(TradesIn(stream, p)) =
            Cardinality(TradesIn(stream', p)) + (IF e.kind = "trade" /\ e.ord = p THEN 1 ELSE 0)
      BY <1>1, TradesOfTail DEF e
    <3>3. Cardinality(TradesIn(stream', p)) \in Nat
      BY <1>1, TradesFinite
    <3>4. QED
      BY <1>2, <3>1, <3>2, <3>3
  <2>2. QED
    BY <1>3, <2>1 DEF Counted
<1>15. Told'
  <2>1. ASSUME NEW p \in echoed \ lost
        PROVE  \/ fills[p] = 0
               \/ \E k \in DOMAIN stream' : /\ stream'[k].kind = "update" /\ stream'[k].ord = p
                                            /\ stream'[k].filled = fills[p]
               \/ \E i \in DOMAIN rows' : rows'[i].ord = p /\ rows'[i].filled = fills[p]
    <3>1. p \in Orders /\ fills[p] \in Nat
      BY OrdersTyped DEF IInv, TypeOK
    <3>2. \/ fills[p] = 0
          \/ \E k \in DOMAIN stream : /\ stream[k].kind = "update" /\ stream[k].ord = p
                                      /\ stream[k].filled = fills[p]
          \/ \E i \in DOMAIN rows : rows[i].ord = p /\ rows[i].filled = fills[p]
      BY DEF IInv, Told
    <3>3. \A i \in DOMAIN rows' : rows'[i].filled \in Nat /\ rows'[i].filled <= fills'[rows'[i].ord]
      <4>1. rows' \in Seq(Row)
        BY <1>6 DEF TypeOK
      <4>2. \A i \in DOMAIN rows' : rows'[i] \in Row
        BY <4>1, LenProperties, ElementOfSeq
      <4>3. QED
        BY <1>9, <4>2 DEF RowsTrue, Row
    <3>4. ASSUME NEW k \in DOMAIN stream, stream[k].kind = "update", stream[k].ord = p,
                 stream[k].filled = fills[p]
          PROVE  \/ \E j \in DOMAIN stream' : /\ stream'[j].kind = "update" /\ stream'[j].ord = p
                                              /\ stream'[j].filled = fills[p]
                 \/ \E i \in DOMAIN rows' : rows'[i].ord = p /\ rows'[i].filled = fills[p]
      <4>1. CASE k = 1
        <5>1. e.kind # "trade" /\ e.ord = p /\ e.filled = fills[p]
          BY <3>4, <4>1 DEF e
        <5>2. PICK i \in DOMAIN rows' : rows'[i].ord = p /\ fills[p] <= rows'[i].filled
          BY <1>2, <5>1 DEF RowsTake
        <5>3. rows'[i].filled = fills[p]
          BY <1>3, <3>1, <3>3, <5>2
        <5>4. QED
          BY <5>2, <5>3
      <4>2. CASE k # 1
        <5>1. k - 1 \in DOMAIN stream' /\ stream'[k - 1] = stream[k]
          BY <1>1, <4>2
        <5>2. QED
          BY <3>4, <5>1
      <4>3. QED
        BY <4>1, <4>2
    <3>5. ASSUME NEW i \in DOMAIN rows, rows[i].ord = p, rows[i].filled = fills[p]
          PROVE  i \in DOMAIN rows' /\ rows'[i].ord = p /\ rows'[i].filled = fills[p]
      <4>1. i \in DOMAIN rows' /\ rows'[i].ord = p /\ fills[p] <= rows'[i].filled
        BY <1>2, <3>5 DEF RowsTake
      <4>2. QED
        BY <1>3, <3>1, <3>3, <4>1
    <3>6. QED
      BY <3>2, <3>4, <3>5
  <2>2. QED
    BY <1>3, <2>1 DEF Told
<1>16. MayRestart'
  BY <1>3 DEF IInv, MayRestart
<1>17. QED
  BY <1>16, <1>6, <1>7, <1>8, <1>9, <1>11, <1>12, <1>13, <1>14, <1>15 DEF IInv

LEMMA CrashKeeps ==
  ASSUME OrdersDbAssumption, IInv, Crash
  PROVE  IInv'
<1>1. /\ stream' = <<>> /\ handlerUp' = FALSE
      /\ lost' = lost \cup {stream[i].ord : i \in DOMAIN stream}
      /\ UNCHANGED <<echoed, rows, trades, restarts, api, exchange, fills>>
  BY DEF Crash, database
<1>2. <<>> \in Seq(Event) /\ DOMAIN stream' = {} /\ \A p : TradesIn(stream', p) = {}
  BY <1>1, EmptySeq DEF TradesIn
<1>3. TypeOK'
  <2>1. \A i \in DOMAIN stream : stream[i].ord \in Orders
    BY StreamTyped DEF Event
  <2>2. lost' \subseteq Orders
    BY <1>1, <2>1 DEF IInv, TypeOK
  <2>3. stream' \in Seq(Event) /\ handlerUp' \in BOOLEAN
    BY <1>1, <1>2
  <2>4. QED
    BY <1>1, <2>2, <2>3, Zenon DEF IInv, TypeOK
<1>4. Filling' /\ EventsTrue' /\ RowsTrue' /\ Silent' /\ InsertFirst' /\ OneRow'
  BY <1>1, <1>2 DEF IInv, Filling, EventsTrue, RowsTrue, Silent, InsertFirst, OneRow
<1>5. Counted'
  <2>1. ASSUME NEW p \in Orders \ lost'  PROVE trades[p] + Cardinality({}) = fills[p]
    <3>1. p \notin lost /\ TradesIn(stream, p) = {}
      BY <1>1 DEF TradesIn
    <3>2. QED
      BY <3>1 DEF IInv, Counted
  <2>2. QED
    BY <1>1, <1>2, <2>1 DEF Counted
<1>6. Told'
  BY <1>1 DEF IInv, Told
<1>7. MayRestart'
  BY DEF Crash, MayRestart, IInv, TypeOK, OrdersDbAssumption
<1>8. QED
  BY <1>3, <1>4, <1>5, <1>6, <1>7 DEF IInv

LEMMA RestartKeeps ==
  ASSUME OrdersDbAssumption, IInv, Restart
  PROVE  IInv'
<1>1. UNCHANGED <<echoed, rows, trades, stream, api, exchange, fills, lost>>
  BY DEF Restart, database
<1>2. TypeOK'
  BY <1>1 DEF Restart, MayRestart, IInv, TypeOK, OrdersDbAssumption
<1>3. MayRestart'
  BY DEF Restart, MayRestart
<1>4. QED
  BY <1>1, <1>2, <1>3 DEF IInv, Filling, EventsTrue, RowsTrue, Silent, InsertFirst, OneRow,
                    Counted, Told, TradesIn, EventTrue

-----------------------------------------------------------------------------
\* The inductive step
LEMMA StepKeeps ==
  ASSUME OrdersDbAssumption, IInv, [Next]_vars
  PROVE  IInv'
<1>1. ASSUME NEW o \in Orders, FireOrder(o) \/ Accept(o) \/ Fill(o) \/ Cancel(o) \/ Answer(o)
      PROVE  IInv'
  BY <1>1, FireOrderSends, AcceptSends, FillSends, CancelSends, AnswerSends, SendingKeeps
<1>2. CASE UNCHANGED vars
  BY <1>2 DEF vars, database, IInv, MayRestart, TypeOK, Filling, EventsTrue, RowsTrue, Silent,
              InsertFirst, OneRow, Counted, Told, TradesIn, EventTrue
<1>3. QED
  BY <1>1, <1>2, HandleKeeps, CrashKeeps, RestartKeeps DEF Next

LEMMA IInvImpliesReconcile ==
  ASSUME OrdersDbAssumption, IInv
  PROVE  RowsReconcile
<1>1. ASSUME NEW o \in echoed
      PROVE  /\ \A i, j \in RowsOf(o) : i = j
             /\ o \notin lost /\ (\A k \in DOMAIN stream : stream[k].ord # o) =>
                  \A i \in RowsOf(o) : rows[i].filled = trades[o]
  <2>1. \A i, j \in RowsOf(o) : i = j
    BY DEF IInv, OneRow, RowsOf
  <2>2. ASSUME o \notin lost, \A k \in DOMAIN stream : stream[k].ord # o, NEW i \in RowsOf(o)
        PROVE  rows[i].filled = trades[o]
    <3>1. o \in Orders /\ fills[o] \in Nat /\ trades[o] \in Nat
      BY OrdersTyped DEF IInv, TypeOK
    <3>2. TradesIn(stream, o) = {}
      BY <2>2 DEF TradesIn
    <3>3. trades[o] = fills[o]
      <4>1. trades[o] + Cardinality(TradesIn(stream, o)) = fills[o]
        BY <2>2, <3>1 DEF IInv, Counted
      <4>2. QED
        BY <3>1, <3>2, <4>1, FS_EmptySet
    <3>4. rows[i].filled \in Nat /\ rows[i].filled <= fills[o] /\ i \in DOMAIN rows
      BY StreamTyped DEF IInv, RowsTrue, RowsOf, Row
    <3>5. fills[o] = 0 \/ \E j \in DOMAIN rows : rows[j].ord = o /\ rows[j].filled = fills[o]
      BY <2>2 DEF IInv, Told
    <3>6. QED
      BY <2>1, <3>1, <3>3, <3>4, <3>5 DEF RowsOf
  <2>3. QED
    BY <2>1, <2>2
<1>2. QED
  BY <1>1 DEF RowsReconcile

LEMMA StepStaysOver ==
  ASSUME OrdersDbAssumption, IInv, [Next]_vars
  PROVE  [\A i \in DOMAIN rows :
            /\ rows[i].ord \in echoed /\ rows[i].st \in FinalStatus
            => rows'[i].st \in FinalStatus]_rows
<1>1. CASE rows' = rows
  BY <1>1
<1>2. CASE rows' # rows
  <2>1. ASSUME NEW o \in Orders, FireOrder(o) \/ Accept(o) \/ Fill(o) \/ Cancel(o) \/ Answer(o)
        PROVE  rows' = rows
    BY <2>1, FireOrderSends, AcceptSends, FillSends, CancelSends, AnswerSends, SendingKeeps
  <2>2. Handle
    BY <1>2, <2>1 DEF Next, vars, Crash, Restart, database
  <2>3. QED
    BY <2>2, HandleTakes DEF RowsTake
<1>3. QED
  BY <1>1, <1>2

\* The table, its rows' fields and what is on its way to it have their types.
THEOREM DbTyped ==
  ASSUME OrdersDbAssumption
  PROVE  Spec => []TypeOK
<1>1. Init => IInv
  BY DbInit
<1>2. IInv /\ [Next]_vars => IInv'
  BY StepKeeps
<1>3. IInv => TypeOK
  BY DEF IInv
<1>4. QED
  BY <1>1, <1>2, <1>3, PTL DEF Spec

\* The table agrees with the executions, for any number of orders, fills and restarts: one
\* row of each echoed order, and once nothing of it is lost or on its way, its quantity is
\* the sum of its trades.
THEOREM TableReconciles ==
  ASSUME OrdersDbAssumption
  PROVE  Spec => []RowsReconcile
<1>1. Init => IInv
  BY DbInit
<1>2. IInv /\ [Next]_vars => IInv'
  BY StepKeeps
<1>3. IInv => RowsReconcile
  BY IInvImpliesReconcile
<1>4. QED
  BY <1>1, <1>2, <1>3, PTL DEF Spec

\* No event that is handled late reopens the row of an echoed order that is over.
THEOREM RowsStayOver ==
  ASSUME OrdersDbAssumption
  PROVE  Spec => OverStaysOver
<1>1. Init => IInv
  BY DbInit
<1>2. IInv /\ [Next]_vars => IInv'
  BY StepKeeps
<1>3. IInv /\ [Next]_vars =>
        [\A i \in DOMAIN rows :
           /\ rows[i].ord \in echoed /\ rows[i].st \in FinalStatus
           => rows'[i].st \in FinalStatus]_rows
  BY StepStaysOver
<1>4. QED
  BY <1>1, <1>2, <1>3, PTL DEF Spec, OverStaysOver

-----------------------------------------------------------------------------
(* The dispatch of the messages of the instruments                            *)
Callers == Callbacks \cup {Disp!Wrapper}

\* A list has a callback once, ...
Once(s) == \A j, k \in DOMAIN s : s[j] = s[k] => j = k

\* ... and all but the pattern's begin with the wrapper.
WrapperFirst ==
  /\ \A n \in DOMAIN lists : Once(lists[n])
  /\ \A n \in DOMAIN lists : n # events[Disp!Pattern] => lists[n] # <<>> /\ lists[n][1] = Disp!Wrapper
  /\ \A i \in Instruments : events[i] # 0 => events[i] # events[Disp!Pattern]

DispatchInv == Disp!TypeOK /\ WrapperFirst /\ ~misheard

LEMMA DispatchInit ==
  ASSUME Disp!DispatchAssumption, Disp!Init
  PROVE  DispatchInv
<1>1. /\ lists = <<>> /\ <<>> \in Seq(Seq(Callers)) /\ Len(<<>>) = 0 /\ DOMAIN <<>> = {}
  BY EmptySeq DEF Disp!Init
<1>2. Disp!TypeOK
  <2>1. lists \in Seq(Seq(Callers)) /\ events \in [Disp!Channels -> 0..Len(lists)]
    BY <1>1 DEF Disp!Init
  <2>2. /\ instruments \subseteq Instruments /\ calls \in 0..MaxCalls /\ misheard \in BOOLEAN
        /\ stored \in [Instruments -> Nat] /\ published \in [Instruments -> Nat]
    <3>1. instruments \subseteq Instruments
      BY DEF Disp!Init
    <3>2. calls \in 0..MaxCalls
      BY DEF Disp!Init, Disp!DispatchAssumption
    <3>3. misheard \in BOOLEAN
      BY DEF Disp!Init
    <3>4. stored \in [Instruments -> Nat] /\ published \in [Instruments -> Nat]
      BY DEF Disp!Init
    <3>5. QED
      BY <3>1, <3>2, <3>3, <3>4
  <2>3. QED
    BY <2>1, <2>2 DEF Disp!TypeOK, Callers
<1>3. WrapperFirst /\ ~misheard
  BY <1>1 DEF Disp!Init, WrapperFirst, Disp!Channels
<1>4. QED
  BY <1>2, <1>3 DEF DispatchInv

\* What a callback added does to a list
LEMMA AddedOnce ==
  ASSUME NEW s \in Seq(Callers), Once(s), NEW c \in Callers
  PROVE  /\ Disp!Added(s, c) \in Seq(Callers) /\ Once(Disp!Added(s, c))
         /\ s # <<>> => Disp!Added(s, c) # <<>> /\ Disp!Added(s, c)[1] = s[1]
<1>1. DOMAIN s = 1..Len(s) /\ Len(s) \in Nat /\ (s # <<>> => Len(s) > 0)
  BY LenProperties, EmptySeq
<1>2. CASE Disp!Contains(s, c)
  BY <1>2 DEF Disp!Added
<1>3. CASE ~Disp!Contains(s, c)
  <2>1. \A j \in 1..Len(s) : s[j] # c
    BY <1>3 DEF Disp!Contains
  <2>2. /\ Disp!Added(s, c) = Append(s, c) /\ Append(s, c) \in Seq(Callers)
        /\ DOMAIN Append(s, c) = 1..(Len(s) + 1)
        /\ \A j \in 1..Len(s) : Append(s, c)[j] = s[j]
        /\ Append(s, c)[Len(s) + 1] = c
        /\ Append(s, c) # <<>>
    <3>1. Disp!Added(s, c) = Append(s, c)
      BY <1>3 DEF Disp!Added
    <3>2. QED
      BY <1>1, <3>1, AppendProperties
  <2> DEFINE t == Append(s, c)
  <2> HIDE DEF t
  <2>3. ASSUME NEW j \in DOMAIN t, NEW k \in DOMAIN t, t[j] = t[k]
        PROVE  j = k
    <3>1. j \in 1..Len(s) \/ j = Len(s) + 1
      BY <1>1, <2>2 DEF t
    <3>2. k \in 1..Len(s) \/ k = Len(s) + 1
      BY <1>1, <2>2 DEF t
    <3>3. QED
      BY <1>1, <2>1, <2>2, <2>3, <3>1, <3>2 DEF t, Once
  <2>4. QED
    BY <1>1, <2>2, <2>3 DEF Once, t
<1>4. QED
  BY <1>2, <1>3

LEMMA WrappedOnce ==
  ASSUME NEW c \in Callers
  PROVE  /\ Disp!Wrapped(c) \in Seq(Callers) /\ Once(Disp!Wrapped(c))
         /\ Disp!Wrapped(c) # <<>> /\ Disp!Wrapped(c)[1] = Disp!Wrapper
<1>1. CASE c = Disp!Wrapper
  BY <1>1 DEF Disp!Wrapped, Once, Callers
<1>2. CASE c # Disp!Wrapper
  <2>1. Disp!Wrapped(c) = <<Disp!Wrapper, c>> /\ Disp!Wrapper \in Callers
    BY <1>2 DEF Disp!Wrapped, Callers
  <2>2. QED
    BY <1>2, <2>1 DEF Once
<1>3. QED
  BY <1>1, <1>2

\* Lists that grow keep their callbacks once and their wrapper first.
LEMMA GrownLists ==
  ASSUME DispatchInv, NEW grown, DOMAIN grown = DOMAIN lists,
         \A n \in DOMAIN lists :
           /\ grown[n] \in Seq(Callers) /\ Once(grown[n])
           /\ lists[n] # <<>> => grown[n] # <<>> /\ grown[n][1] = lists[n][1],
         grown = [n \in DOMAIN lists |-> grown[n]]
  PROVE  /\ grown \in Seq(Seq(Callers)) /\ Len(grown) = Len(lists)
         /\ \A n \in DOMAIN grown : n # events[Disp!Pattern] => grown[n] # <<>> /\ grown[n][1] = Disp!Wrapper
<1>1. lists \in Seq(Seq(Callers)) /\ DOMAIN lists = 1..Len(lists) /\ Len(lists) \in Nat
  BY LenProperties DEF DispatchInv, Disp!TypeOK, Callers
<1>2. grown \in Seq(Seq(Callers))
  BY <1>1, IsASeq
<1>3. Len(grown) = Len(lists)
  BY <1>1, <1>2, LenProperties
<1>4. QED
  BY <1>2, <1>3 DEF DispatchInv, WrapperFirst

LEMMA DispatchSubscribes ==
  ASSUME Disp!DispatchAssumption, DispatchInv, NEW objs \in SUBSET Instruments, NEW c \in Callers,
         Disp!SubscribeEvent(objs, c)
  PROVE  DispatchInv'
<1> DEFINE grown == [n \in DOMAIN lists |->
                       IF \E i \in objs : events[i] = n THEN Disp!Added(Disp!Added(lists[n], Disp!Wrapper), c)
                       ELSE lists[n]]
<1>1. /\ calls < MaxCalls /\ calls' = calls + 1 /\ UNCHANGED <<instruments, stored, published, misheard>>
      /\ IF \A i \in objs : events[i] # 0 THEN lists' = grown /\ UNCHANGED events
         ELSE /\ lists' = Append(grown, Disp!Wrapped(c))
              /\ events' = [d \in Disp!Channels |-> IF d \in objs /\ events[d] = 0 THEN Len(lists')
                                               ELSE events[d]]
  BY DEF Disp!SubscribeEvent, Disp!Subscribe, Disp!Called
<1>2. /\ lists \in Seq(Seq(Callers)) /\ events \in [Disp!Channels -> 0..Len(lists)] /\ calls \in 0..MaxCalls
      /\ DOMAIN lists = 1..Len(lists) /\ Len(lists) \in Nat
  BY LenProperties DEF DispatchInv, Disp!TypeOK, Callers
<1>3. \A n \in DOMAIN lists : lists[n] \in Seq(Callers) /\ Once(lists[n])
  BY <1>2 DEF DispatchInv, WrapperFirst
<1>4. ASSUME NEW n \in DOMAIN lists
      PROVE  /\ grown[n] \in Seq(Callers) /\ Once(grown[n])
             /\ lists[n] # <<>> => grown[n] # <<>> /\ grown[n][1] = lists[n][1]
  <2> DEFINE one == Disp!Added(lists[n], Disp!Wrapper)
  <2>1. /\ one \in Seq(Callers) /\ Once(one)
        /\ lists[n] # <<>> => one # <<>> /\ one[1] = lists[n][1]
    BY <1>3, AddedOnce DEF Callers
  <2>2. /\ Disp!Added(one, c) \in Seq(Callers) /\ Once(Disp!Added(one, c))
        /\ one # <<>> => Disp!Added(one, c) # <<>> /\ Disp!Added(one, c)[1] = one[1]
    <3> HIDE DEF one
    <3>1. QED
      BY <2>1, AddedOnce
  <2>3. grown[n] = Disp!Added(one, c) \/ grown[n] = lists[n]
    OBVIOUS
  <2> HIDE DEF one, grown
  <2>4. QED
    BY <1>3, <2>1, <2>2, <2>3
<1>5. DOMAIN grown = DOMAIN lists /\ grown = [n \in DOMAIN lists |-> grown[n]]
  OBVIOUS
<1> HIDE DEF grown
<1>6. /\ grown \in Seq(Seq(Callers)) /\ Len(grown) = Len(lists) /\ DOMAIN grown = 1..Len(lists)
      /\ \A n \in DOMAIN grown : n # events[Disp!Pattern] => grown[n] # <<>> /\ grown[n][1] = Disp!Wrapper
      /\ \A n \in DOMAIN grown : Once(grown[n])
  BY <1>2, <1>4, <1>5, GrownLists
<1>7. calls' \in 0..MaxCalls
  BY <1>1, <1>2 DEF Disp!DispatchAssumption
<1>8. Disp!Pattern \notin objs /\ Disp!Pattern \in Disp!Channels /\ Instruments \subseteq Disp!Channels
  BY DEF Disp!DispatchAssumption, Disp!Channels
<1>9. CASE \A i \in objs : events[i] # 0
  <2>1. lists' = grown /\ events' = events
    BY <1>1, <1>9, SMTT(30)
  <2>2. Disp!TypeOK'
    BY <1>1, <1>2, <1>6, <1>7, <2>1, Zenon DEF DispatchInv, Disp!TypeOK, Callers
  <2>3. WrapperFirst'
    BY <1>6, <2>1 DEF DispatchInv, WrapperFirst
  <2>4. QED
    BY <1>1, <2>2, <2>3 DEF DispatchInv
<1>10. CASE ~\A i \in objs : events[i] # 0
  <2> DEFINE wrapped == Disp!Wrapped(c)
  <2>1. /\ lists' = Append(grown, wrapped)
        /\ events' = [d \in Disp!Channels |-> IF d \in objs /\ events[d] = 0 THEN Len(lists')
                                         ELSE events[d]]
    BY <1>1, <1>10
  <2>2. wrapped \in Seq(Callers) /\ Once(wrapped) /\ wrapped # <<>> /\ wrapped[1] = Disp!Wrapper
    BY WrappedOnce
  <2> HIDE DEF wrapped
  <2>3. /\ lists' \in Seq(Seq(Callers)) /\ Len(lists') = Len(lists) + 1
        /\ DOMAIN lists' = 1..(Len(lists) + 1)
        /\ \A n \in 1..Len(lists) : lists'[n] = grown[n]
        /\ lists'[Len(lists) + 1] = wrapped
    BY <1>2, <1>6, <2>1, <2>2
  <2>4. events' \in [Disp!Channels -> 0..Len(lists')]
    BY <1>2, <2>1, <2>3
  <2>5. Disp!TypeOK'
    BY <1>1, <1>7, <2>3, <2>4 DEF DispatchInv, Disp!TypeOK, Callers
  <2>6. events'[Disp!Pattern] = events[Disp!Pattern] /\ events[Disp!Pattern] \in 0..Len(lists)
    BY <1>2, <1>8, <2>1
  <2>7. \A n \in DOMAIN lists' :
          Once(lists'[n]) /\ (n # events[Disp!Pattern] => lists'[n] # <<>> /\ lists'[n][1] = Disp!Wrapper)
    BY <1>2, <1>6, <2>2, <2>3
  <2>8. \A i \in Instruments : events'[i] = events[i] \/ events'[i] = Len(lists) + 1
    BY <1>8, <2>1, <2>3
  <2>9. \A i \in Instruments : events'[i] # 0 => events'[i] # events[Disp!Pattern]
    BY <1>2, <2>6, <2>8 DEF DispatchInv, WrapperFirst
  <2>10. WrapperFirst'
    BY <2>6, <2>7, <2>9 DEF WrapperFirst
  <2>11. QED
    BY <1>1, <2>5, <2>10 DEF DispatchInv
<1>11. QED
  BY <1>9, <1>10

LEMMA DispatchPatterns ==
  ASSUME Disp!DispatchAssumption, DispatchInv, NEW c \in Callbacks, Disp!PsubscribeEvent(c)
  PROVE  DispatchInv'
<1> DEFINE n == events[Disp!Pattern]
<1>1. /\ calls < MaxCalls /\ calls' = calls + 1 /\ UNCHANGED <<instruments, stored, published, misheard>>
      /\ IF n = 0 THEN lists' = Append(lists, <<c>>) /\ events' = [events EXCEPT ![Disp!Pattern] = Len(lists')]
         ELSE lists' = [lists EXCEPT ![n] = Disp!Added(lists[n], c)] /\ UNCHANGED events
  BY DEF Disp!PsubscribeEvent, Disp!Called
<1>2. /\ lists \in Seq(Seq(Callers)) /\ events \in [Disp!Channels -> 0..Len(lists)] /\ calls \in 0..MaxCalls
      /\ DOMAIN lists = 1..Len(lists) /\ Len(lists) \in Nat
  BY LenProperties DEF DispatchInv, Disp!TypeOK, Callers
<1>3. \A k \in DOMAIN lists : lists[k] \in Seq(Callers) /\ Once(lists[k])
  BY <1>2 DEF DispatchInv, WrapperFirst
<1>4. calls' \in 0..MaxCalls /\ n \in 0..Len(lists) /\ Disp!Pattern \in Disp!Channels
      /\ Instruments \subseteq Disp!Channels /\ Disp!Pattern \notin Instruments /\ c \in Callers
  BY <1>1, <1>2 DEF Disp!DispatchAssumption, Disp!Channels, Callers
<1>5. CASE n = 0
  <2>1. lists' = Append(lists, <<c>>) /\ events' = [events EXCEPT ![Disp!Pattern] = Len(lists')]
    BY <1>1, <1>5
  <2>2. <<c>> \in Seq(Callers) /\ Once(<<c>>)
    BY <1>4 DEF Once
  <2>3. /\ lists' \in Seq(Seq(Callers)) /\ Len(lists') = Len(lists) + 1
        /\ DOMAIN lists' = 1..(Len(lists) + 1)
        /\ \A k \in 1..Len(lists) : lists'[k] = lists[k]
        /\ lists'[Len(lists) + 1] = <<c>>
    BY <1>2, <2>1, <2>2
  <2>4. /\ events' \in [Disp!Channels -> 0..Len(lists')] /\ events'[Disp!Pattern] = Len(lists) + 1
        /\ \A i \in Instruments : events'[i] = events[i] /\ events[i] \in 0..Len(lists)
    BY <1>2, <1>4, <2>1, <2>3
  <2>5. Disp!TypeOK'
    BY <1>1, <1>4, <2>3, <2>4 DEF DispatchInv, Disp!TypeOK, Callers
  <2>6. \A k \in DOMAIN lists' :
          Once(lists'[k]) /\ (k # events'[Disp!Pattern] => lists'[k] # <<>> /\ lists'[k][1] = Disp!Wrapper)
    <3> SUFFICES ASSUME NEW k \in 1..(Len(lists) + 1)
                 PROVE  /\ Once(lists'[k])
                        /\ k # Len(lists) + 1 => lists'[k] # <<>> /\ lists'[k][1] = Disp!Wrapper
      BY <2>3, <2>4
    <3>1. CASE k = Len(lists) + 1
      BY <2>2, <2>3, <3>1
    <3>2. CASE k # Len(lists) + 1
      <4>1. k \in DOMAIN lists /\ k # n /\ lists'[k] = lists[k]
        BY <1>2, <1>5, <2>3, <3>2
      <4>2. QED
        BY <1>3, <4>1 DEF DispatchInv, WrapperFirst
    <3>3. QED
      BY <3>1, <3>2
  <2>7. WrapperFirst'
    BY <1>2, <2>4, <2>6 DEF WrapperFirst
  <2>8. QED
    BY <1>1, <2>5, <2>7 DEF DispatchInv
<1>6. CASE n # 0
  <2>1. /\ lists' = [lists EXCEPT ![n] = Disp!Added(lists[n], c)] /\ events' = events /\ n \in DOMAIN lists
    BY <1>1, <1>2, <1>4, <1>6
  <2>2. Disp!Added(lists[n], c) \in Seq(Callers) /\ Once(Disp!Added(lists[n], c))
    BY <1>3, <1>4, <2>1, AddedOnce
  <2>3. /\ lists' \in Seq(Seq(Callers)) /\ Len(lists') = Len(lists) /\ DOMAIN lists' = DOMAIN lists
        /\ lists'[n] = Disp!Added(lists[n], c) /\ \A k \in DOMAIN lists : k # n => lists'[k] = lists[k]
    BY <1>2, <2>1, <2>2
  <2>4. Disp!TypeOK'
    BY <1>1, <1>2, <1>4, <2>1, <2>3, Zenon DEF DispatchInv, Disp!TypeOK, Callers
  <2>5. WrapperFirst'
    BY <2>1, <2>2, <2>3 DEF DispatchInv, WrapperFirst
  <2>6. QED
    BY <1>1, <2>4, <2>5 DEF DispatchInv
<1>7. QED
  BY <1>5, <1>6

LEMMA DispatchAdds ==
  ASSUME Disp!DispatchAssumption, DispatchInv, NEW i \in Instruments, Disp!AddInstrument(i)
  PROVE  DispatchInv'
<1> DEFINE grown == [n \in DOMAIN lists |->
                       IF n # events[Disp!Pattern] THEN Disp!Added(lists[n], Disp!Wrapper) ELSE lists[n]]
<1>1. /\ lists' = grown /\ instruments' = instruments \cup {i}
      /\ UNCHANGED <<events, stored, published, calls, misheard>>
  BY DEF Disp!AddInstrument
<1>2. lists \in Seq(Seq(Callers)) /\ DOMAIN lists = 1..Len(lists) /\ Len(lists) \in Nat
  BY LenProperties DEF DispatchInv, Disp!TypeOK, Callers
<1>3. \A n \in DOMAIN lists : lists[n] \in Seq(Callers) /\ Once(lists[n]) /\ Disp!Wrapper \in Callers
  BY <1>2 DEF DispatchInv, WrapperFirst, Callers
<1>4. \A n \in DOMAIN lists :
        /\ grown[n] \in Seq(Callers) /\ Once(grown[n])
        /\ lists[n] # <<>> => grown[n] # <<>> /\ grown[n][1] = lists[n][1]
  BY <1>3, AddedOnce
<1>5. DOMAIN grown = DOMAIN lists /\ grown = [n \in DOMAIN lists |-> grown[n]]
  OBVIOUS
<1> HIDE DEF grown
<1>6. /\ grown \in Seq(Seq(Callers)) /\ Len(grown) = Len(lists)
      /\ \A n \in DOMAIN grown : n # events[Disp!Pattern] => grown[n] # <<>> /\ grown[n][1] = Disp!Wrapper
  BY <1>4, <1>5, GrownLists
<1>7. Disp!TypeOK'
  BY <1>1, <1>6 DEF DispatchInv, Disp!TypeOK, Callers
<1>8. WrapperFirst'
  BY <1>1, <1>4, <1>5, <1>6 DEF DispatchInv, WrapperFirst
<1>9. QED
  BY <1>1, <1>7, <1>8 DEF DispatchInv

LEMMA DispatchHandles ==
  ASSUME Disp!DispatchAssumption, DispatchInv, NEW c \in Disp!Channels, NEW i \in Instruments,
         Disp!HandleMessage(c, i)
  PROVE  DispatchInv'
<1> DEFINE s == lists[events[c]]
<1>1. /\ events[c] # 0 /\ c \in {i, Disp!Pattern}
      /\ published' = [published EXCEPT ![i] = published[i] + 1]
      /\ UNCHANGED <<lists, events, instruments, calls>>
  BY DEF Disp!HandleMessage
<1>2. PICK k \in 0..Len(s) :
        /\ stored' = IF Disp!Contains(SubSeq(s, 1, k), Disp!Wrapper) THEN [stored EXCEPT ![i] = published'[i]]
                     ELSE stored
        /\ misheard' = \/ misheard
                       \/ SubSeq(s, 1, k) # <<>> /\ Head(SubSeq(s, 1, k)) # Disp!Wrapper /\ c # Disp!Pattern
                       \/ ~Disp!IsInjective(SubSeq(s, 1, k))
  BY DEF Disp!HandleMessage
<1>3. /\ lists \in Seq(Seq(Callers)) /\ events \in [Disp!Channels -> 0..Len(lists)]
      /\ DOMAIN lists = 1..Len(lists) /\ Len(lists) \in Nat
      /\ published \in [Instruments -> Nat] /\ stored \in [Instruments -> Nat]
  BY LenProperties DEF DispatchInv, Disp!TypeOK, Callers
<1>4. events[c] \in DOMAIN lists /\ s \in Seq(Callers) /\ Len(s) \in Nat /\ DOMAIN s = 1..Len(s)
  BY <1>1, <1>3, LenProperties
<1>5. published' \in [Instruments -> Nat] /\ stored' \in [Instruments -> Nat]
  BY <1>1, <1>2, <1>3
<1>6. Disp!TypeOK'
  BY <1>1, <1>2, <1>5 DEF DispatchInv, Disp!TypeOK
<1> DEFINE ran == SubSeq(s, 1, k)
<1>7. /\ ran \in Seq(Callers) /\ Len(ran) = k /\ DOMAIN ran = 1..k /\ k \in Nat
      /\ \A j \in 1..k : ran[j] = s[j]
  <2>1. \A j \in 1..k : s[j] \in Callers
    BY <1>4
  <2>2. /\ ran \in Seq(Callers) /\ Len(ran) = (IF 1 <= k THEN k - 1 + 1 ELSE 0)
        /\ \A j \in 1 .. k - 1 + 1 : ran[j] = s[1 + j - 1]
    BY <1>4, <2>1, SubSeqProperties
  <2>3. k \in Nat /\ (IF 1 <= k THEN k - 1 + 1 ELSE 0) = k /\ 1 .. k - 1 + 1 = 1..k
        /\ \A j \in 1..k : 1 + j - 1 = j
    BY <1>4
  <2> HIDE DEF ran
  <2>4. Len(ran) = k /\ DOMAIN ran = 1..k
    BY <2>2, <2>3, LenProperties
  <2>5. QED
    BY <2>2, <2>3, <2>4
<1> HIDE DEF ran
<1>8. Disp!IsInjective(ran)
  <2>1. Once(s)
    BY <1>4 DEF DispatchInv, WrapperFirst
  <2>2. QED
    BY <1>4, <1>7, <2>1 DEF Once, Disp!IsInjective
<1>9. ASSUME ran # <<>>, c # Disp!Pattern
      PROVE  Head(ran) = Disp!Wrapper
  <2>1. c = i /\ events[c] # events[Disp!Pattern]
    BY <1>1, <1>9 DEF DispatchInv, WrapperFirst
  <2>2. s # <<>> /\ s[1] = Disp!Wrapper
    BY <1>4, <2>1 DEF DispatchInv, WrapperFirst
  <2>3. k # 0 /\ Head(ran) = ran[1]
    BY <1>7, <1>9, EmptySeq
  <2>4. QED
    BY <1>4, <1>7, <2>2, <2>3
<1>10. ~misheard'
  BY <1>2, <1>8, <1>9 DEF DispatchInv, ran
<1>11. WrapperFirst'
  BY <1>1 DEF DispatchInv, WrapperFirst
<1>12. QED
  BY <1>6, <1>10, <1>11 DEF DispatchInv

LEMMA DispatchStep ==
  ASSUME Disp!DispatchAssumption, DispatchInv, [Disp!Next]_(Disp!vars)
  PROVE  DispatchInv'
<1>1. CASE UNCHANGED Disp!vars
  BY <1>1 DEF Disp!vars, DispatchInv, Disp!TypeOK, WrapperFirst
<1>2. CASE Disp!Next
  BY <1>2, DispatchSubscribes, DispatchPatterns, DispatchAdds, DispatchHandles DEF Disp!Next,
     Callers
<1>3. QED
  BY <1>1, <1>2

\* The component is one of its own in the composition, and rests while another runs.
LEMMA ServicesKeepDispatch ==
  ASSUME ServicesAssumption, DispatchInv, [ServicesNext]_services
  PROVE  DispatchInv'
<1>1. Disp!DispatchAssumption
  BY DEF ServicesAssumption
<1>2. Disp!Next \/ UNCHANGED disp
  BY DEF ServicesNext, services
<1>3. [Disp!Next]_(Disp!vars)
  BY <1>2 DEF disp, Disp!vars
<1>4. QED
  BY <1>1, <1>3, DispatchStep

\* Whatever channels and patterns were subscribed in whatever order: a callback of a channel
\* runs after the manager stored the message, and none runs twice for a message
\* (redis_handler.py, and _wrap_callbacks of redis_manager.py).
THEOREM HeardOnce == ASSUME ServicesAssumption PROVE ServicesSpec => []HeardOnceAfterStored
<1>1. ServicesInit => DispatchInv
  BY DispatchInit DEF ServicesInit, ServicesAssumption
<1>2. DispatchInv /\ [ServicesNext]_services => DispatchInv'
  BY ServicesKeepDispatch
<1>3. DispatchInv => HeardOnceAfterStored
  BY DEF DispatchInv, HeardOnceAfterStored, Disp!HeardOnceAfterStored
<1>4. QED
  BY <1>1, <1>2, <1>3, PTL DEF ServicesSpec

-----------------------------------------------------------------------------
(* The loads of the codes                                                     *)
Runs(l) == load[l].step # "idle"
Disabled(l) == load[l].step = "disabled"

\* A load without a failure has the markets as they are.
MarketsFresh ==
  \A l \in Loads : \A c \in Codes \ load[l].failed : Runs(l) => load[l].markets[c] = market[c]

\* What a load has to write is what its filters match; another exchange's row it leaves alone.
NoForeign ==
  /\ \A l \in Loads : load[l].todo \subseteq load[l].filter \ Foreign
  /\ \A c \in Foreign : status[c] # "inactive"

RowAgrees(c) == status[c] = "active" <=> market[c] = "active"

\* A load that will write the row of c yet, or make it doubtful when it ends
Pending(c) ==
  \E l \in Loads : /\ Disabled(l) /\ c \in load[l].filter
                   /\ c \in load[l].todo \/ load[l].markets[c] # market[c]

\* What a load has written, and what a whole load has settled
RowsFollow ==
  /\ \A l \in Loads : \A c \in load[l].filter \ (Foreign \cup load[l].failed \cup load[l].todo) :
       Disabled(l) => RowAgrees(c) \/ Pending(c)
  /\ \A c \in (Codes \ Foreign) \ doubtful : RowAgrees(c) \/ Pending(c)

CodesInv == CodesDb!TypeOK /\ MarketsFresh /\ NoForeign /\ RowsFollow

LoadRecord ==
  [step : {"idle", "fetched", "disabled"}, filter : SUBSET Codes, markets : [Codes -> CodesDb!States],
   todo : SUBSET Codes, failed : SUBSET Codes]

LEMMA CodesInit ==
  ASSUME CodesDb!InstrumentsDbAssumption, CodesDb!Init
  PROVE  CodesInv
<1>1. CodesDb!NotRunning \in LoadRecord
  BY DEF CodesDb!NotRunning, LoadRecord, CodesDb!States
<1>2. CodesDb!TypeOK
  BY <1>1 DEF CodesDb!Init, CodesDb!TypeOK, CodesDb!States, LoadRecord,
     CodesDb!InstrumentsDbAssumption
<1>3. MarketsFresh /\ NoForeign /\ RowsFollow
  <2>1. \A l \in Loads : load[l].step = "idle" /\ load[l].todo = {}
    BY DEF CodesDb!Init, CodesDb!NotRunning
  <2>2. \A c \in Codes : status[c] # "inactive"
    BY DEF CodesDb!Init
  <2>3. doubtful = Codes
    BY DEF CodesDb!Init
  <2>4. QED
    BY <2>1, <2>2, <2>3 DEF MarketsFresh, NoForeign, RowsFollow, Runs, Disabled,
       CodesDb!InstrumentsDbAssumption
<1>4. QED
  BY <1>2, <1>3 DEF CodesInv

\* What a failure changes of the loads
LEMMA SpoiltLoads ==
  ASSUME CodesInv, NEW f \in SUBSET Codes
  PROVE  /\ CodesDb!Spoilt(f) \in [Loads -> LoadRecord]
         /\ \A l \in Loads :
              /\ CodesDb!Spoilt(f)[l].step = load[l].step /\ CodesDb!Spoilt(f)[l].filter = load[l].filter
              /\ CodesDb!Spoilt(f)[l].markets = load[l].markets /\ CodesDb!Spoilt(f)[l].todo = load[l].todo
              /\ load[l].failed \subseteq CodesDb!Spoilt(f)[l].failed
              /\ Runs(l) => CodesDb!Spoilt(f)[l].failed = load[l].failed \cup f
<1>1. load \in [Loads -> LoadRecord]
  BY DEF CodesInv, CodesDb!TypeOK, LoadRecord
<1>2. ASSUME NEW l \in Loads
      PROVE  /\ CodesDb!Spoilt(f)[l] = IF load[l].step = "idle" THEN load[l]
                               ELSE [load[l] EXCEPT !.failed = @ \cup f]
             /\ load[l] \in LoadRecord /\ [load[l] EXCEPT !.failed = @ \cup f] \in LoadRecord
  BY <1>1 DEF CodesDb!Spoilt, LoadRecord
<1>3. CodesDb!Spoilt(f) \in [Loads -> LoadRecord]
  BY <1>2 DEF CodesDb!Spoilt
<1>4. ASSUME NEW l \in Loads
      PROVE  /\ CodesDb!Spoilt(f)[l].step = load[l].step /\ CodesDb!Spoilt(f)[l].filter = load[l].filter
             /\ CodesDb!Spoilt(f)[l].markets = load[l].markets /\ CodesDb!Spoilt(f)[l].todo = load[l].todo
             /\ load[l].failed \subseteq CodesDb!Spoilt(f)[l].failed
             /\ Runs(l) => CodesDb!Spoilt(f)[l].failed = load[l].failed \cup f
  <2>1. CASE load[l].step = "idle"
    BY <1>2, <2>1 DEF Runs
  <2>2. CASE load[l].step # "idle"
    <3>1. CodesDb!Spoilt(f)[l] = [load[l] EXCEPT !.failed = @ \cup f] /\ load[l] \in LoadRecord
      BY <1>2, <2>2
    <3>2. QED
      BY <3>1 DEF LoadRecord
  <2>3. QED
    BY <2>1, <2>2
<1>5. QED
  BY <1>3, <1>4

LEMMA CodesChange ==
  ASSUME CodesDb!InstrumentsDbAssumption, CodesInv, NEW c \in Codes, CodesDb!Change(c)
  PROVE  CodesInv'
<1>1. PICK s \in CodesDb!States : market' = [market EXCEPT ![c] = s]
  BY DEF CodesDb!Change
<1>2. /\ c \notin Foreign /\ changes < MaxChanges /\ changes' = changes + 1
      /\ load' = CodesDb!Spoilt({c}) /\ doubtful' = doubtful \cup {c} /\ UNCHANGED <<status, starts>>
  BY DEF CodesDb!Change
<1>3. /\ load' \in [Loads -> LoadRecord]
      /\ \A l \in Loads :
           /\ load'[l].step = load[l].step /\ load'[l].filter = load[l].filter
           /\ load'[l].markets = load[l].markets /\ load'[l].todo = load[l].todo
           /\ load[l].failed \subseteq load'[l].failed
           /\ Runs(l) => load'[l].failed = load[l].failed \cup {c}
  BY <1>2, SpoiltLoads
<1>4. market \in [Codes -> CodesDb!States] /\ changes \in 0..MaxChanges
  BY DEF CodesInv, CodesDb!TypeOK
<1>5. CodesDb!TypeOK'
  <2>1. market' \in [Codes -> CodesDb!States] /\ changes' \in 0..MaxChanges /\ doubtful' \subseteq Codes
    BY <1>1, <1>2, <1>4 DEF CodesInv, CodesDb!TypeOK, CodesDb!InstrumentsDbAssumption
  <2>2. QED
    BY <1>2, <1>3, <2>1 DEF CodesInv, CodesDb!TypeOK, LoadRecord
<1>6. \A d \in Codes \ {c} : market'[d] = market[d]
  BY <1>1, <1>4
<1>7. MarketsFresh' /\ NoForeign'
  <2>1. \A l \in Loads : \A d \in Codes \ load'[l].failed :
          Runs(l) => d # c /\ d \notin load[l].failed
    BY <1>3
  <2>2. MarketsFresh'
    BY <1>3, <1>6, <2>1 DEF CodesInv, MarketsFresh, Runs
  <2>3. NoForeign'
    BY <1>2, <1>3 DEF CodesInv, NoForeign
  <2>4. QED
    BY <2>2, <2>3
<1>8. \A d \in Codes \ {c} : (RowAgrees(d) => RowAgrees(d)') /\ (Pending(d) => Pending(d)')
  BY <1>2, <1>3, <1>6 DEF RowAgrees, Pending, Disabled
<1>9. \A l \in Loads : load[l].filter \subseteq Codes
  BY DEF CodesInv, CodesDb!TypeOK
<1>10. RowsFollow'
  <2>1. ASSUME NEW l \in Loads, NEW d \in load'[l].filter,
               d \notin Foreign \cup load'[l].failed \cup load'[l].todo, Disabled(l)'
        PROVE  (RowAgrees(d) \/ Pending(d))'
    <3>1. Disabled(l) /\ Runs(l) /\ d \in Codes
      BY <1>3, <1>9, <2>1 DEF Disabled, Runs
    <3>2. d # c /\ d \in load[l].filter \ (Foreign \cup load[l].failed \cup load[l].todo)
      BY <1>3, <2>1, <3>1
    <3>3. RowAgrees(d) \/ Pending(d)
      BY <3>1, <3>2 DEF CodesInv, RowsFollow
    <3>4. QED
      BY <1>8, <3>1, <3>2, <3>3
  <2>2. ASSUME NEW d \in (Codes \ Foreign) \ doubtful' PROVE (RowAgrees(d) \/ Pending(d))'
    <3>1. d # c /\ d \in (Codes \ Foreign) \ doubtful
      BY <1>2, <2>2
    <3>2. RowAgrees(d) \/ Pending(d)
      BY <3>1 DEF CodesInv, RowsFollow
    <3>3. QED
      BY <1>8, <3>1, <3>2
  <2>3. QED
    BY <2>1, <2>2 DEF RowsFollow
<1>11. QED
  BY <1>5, <1>7, <1>10 DEF CodesInv

LEMMA CodesLoadMarkets ==
  ASSUME CodesDb!InstrumentsDbAssumption, CodesInv, NEW l \in Loads, CodesDb!LoadMarkets(l)
  PROVE  CodesInv'
<1>1. PICK f \in Filters :
        load' = [load EXCEPT ![l] = [step |-> "fetched", filter |-> f, markets |-> market,
                                     todo |-> {}, failed |-> {}]]
  BY DEF CodesDb!LoadMarkets
<1>2. /\ load[l].step = "idle" /\ starts < MaxStarts /\ starts' = starts + 1
      /\ UNCHANGED <<market, status, changes, doubtful>>
  BY DEF CodesDb!LoadMarkets
<1>3. market \in [Codes -> CodesDb!States] /\ load \in [Loads -> LoadRecord] /\ starts \in 0..MaxStarts
  BY DEF CodesInv, CodesDb!TypeOK, LoadRecord
<1> DEFINE new == [step |-> "fetched", filter |-> f, markets |-> market, todo |-> {}, failed |-> {}]
<1>4. new \in LoadRecord
  BY <1>3 DEF LoadRecord, CodesDb!InstrumentsDbAssumption
<1>5. /\ load'[l] = new /\ \A k \in Loads \ {l} : load'[k] = load[k]
      /\ load' \in [Loads -> LoadRecord]
  BY <1>1, <1>3, <1>4
<1>6. CodesDb!TypeOK'
  BY <1>2, <1>3, <1>5 DEF CodesInv, CodesDb!TypeOK, LoadRecord, CodesDb!InstrumentsDbAssumption
<1>7. MarketsFresh' /\ NoForeign'
  BY <1>2, <1>5 DEF CodesInv, MarketsFresh, NoForeign, Runs
<1>8. \A d \in Codes : (RowAgrees(d) => RowAgrees(d)') /\ (Pending(d) => Pending(d)')
  BY <1>2, <1>5 DEF RowAgrees, Pending, Disabled
<1>9. \A k \in Loads : load[k].filter \subseteq Codes
  BY <1>3 DEF LoadRecord
<1>10. RowsFollow'
  BY <1>2, <1>5, <1>8, <1>9 DEF CodesInv, RowsFollow, Disabled
<1>11. QED
  BY <1>6, <1>7, <1>10 DEF CodesInv

LEMMA CodesDisable ==
  ASSUME CodesDb!InstrumentsDbAssumption, CodesInv, NEW l \in Loads, CodesDb!DisableAllInstruments(l)
  PROVE  CodesInv'
<1> DEFINE taken == {c \in load[l].filter \ Foreign : load[l].markets[c] # "none"}
<1>1. /\ load[l].step = "fetched"
      /\ status' = [c \in Codes |-> IF c \in CodesDb!Matching(load[l].filter) /\ status[c] = "active"
                                    THEN "inactive" ELSE status[c]]
      /\ load' = [load EXCEPT ![l] = [@ EXCEPT !.step = "disabled", !.todo = taken]]
      /\ UNCHANGED <<market, starts, changes, doubtful>>
  BY DEF CodesDb!DisableAllInstruments
<1>2. /\ market \in [Codes -> CodesDb!States] /\ status \in [Codes -> CodesDb!States]
      /\ load \in [Loads -> LoadRecord] /\ load[l] \in LoadRecord
  BY DEF CodesInv, CodesDb!TypeOK, LoadRecord
<1>3. taken \subseteq Codes
  BY <1>2 DEF LoadRecord
<1>4. /\ load' \in [Loads -> LoadRecord] /\ \A k \in Loads \ {l} : load'[k] = load[k]
      /\ load'[l].step = "disabled" /\ load'[l].todo = taken /\ load'[l].filter = load[l].filter
      /\ load'[l].markets = load[l].markets /\ load'[l].failed = load[l].failed
  BY <1>1, <1>2, <1>3 DEF LoadRecord
<1>5. status' \in [Codes -> CodesDb!States]
  BY <1>1, <1>2, SMTT(30) DEF CodesDb!States
<1>6. CodesDb!TypeOK'
  BY <1>1, <1>4, <1>5 DEF CodesInv, CodesDb!TypeOK, LoadRecord
<1>7. MarketsFresh'
  BY <1>1, <1>4 DEF CodesInv, MarketsFresh, Runs
<1>8. NoForeign'
  BY <1>1, <1>2, <1>4 DEF CodesInv, NoForeign, CodesDb!Matching, CodesDb!InstrumentsDbAssumption
<1>9. \A d \in Codes : Pending(d) => Pending(d)'
  <2> SUFFICES ASSUME NEW d \in Codes, NEW k \in Loads, Disabled(k), d \in load[k].filter,
                      d \in load[k].todo \/ load[k].markets[d] # market[d]
               PROVE  Pending(d)'
    BY DEF Pending
  <2>1. k # l
    BY <1>1 DEF Disabled
  <2>2. QED
    BY <2>1, <1>1, <1>4 DEF Pending, Disabled
<1>10. \A d \in load[l].filter \ (Foreign \cup taken) : RowAgrees(d)' \/ Pending(d)'
  <2> SUFFICES ASSUME NEW d \in load[l].filter \ (Foreign \cup taken)
               PROVE  RowAgrees(d)' \/ Pending(d)'
    OBVIOUS
  <2>1. d \in Codes /\ load[l].markets[d] = "none" /\ d \in CodesDb!Matching(load[l].filter)
    BY <1>2 DEF LoadRecord, CodesDb!Matching
  <2>2. CASE market[d] = "none"
    BY <1>1, <1>2, <2>1, <2>2 DEF RowAgrees
  <2>3. CASE market[d] # "none"
    BY <1>1, <1>4, <2>1, <2>3 DEF Pending, Disabled
  <2>4. QED
    BY <2>2, <2>3
<1>11. \A d \in Codes \ Foreign : RowAgrees(d) => RowAgrees(d)' \/ Pending(d)'
  <2> SUFFICES ASSUME NEW d \in Codes \ Foreign, RowAgrees(d)
               PROVE  RowAgrees(d)' \/ Pending(d)'
    OBVIOUS
  <2>1. CASE d \notin load[l].filter
    BY <1>1, <1>2, <2>1 DEF RowAgrees, CodesDb!Matching
  <2>2. CASE d \in load[l].filter /\ d \notin taken
    BY <1>10, <2>2
  <2>3. CASE d \in load[l].filter /\ d \in taken
    BY <1>4, <2>3 DEF Pending, Disabled
  <2>4. QED
    BY <2>1, <2>2, <2>3
<1>12. \A k \in Loads : load[k].filter \subseteq Codes
  BY <1>2 DEF LoadRecord
<1> HIDE DEF taken
<1>13. RowsFollow'
  <2>1. ASSUME NEW k \in Loads, Disabled(k)',
               NEW d \in load'[k].filter \ (Foreign \cup load'[k].failed \cup load'[k].todo)
        PROVE  RowAgrees(d)' \/ Pending(d)'
    <3>1. CASE k = l
      BY <1>4, <1>10, <2>1, <3>1
    <3>2. CASE k # l
      <4>1. Disabled(k) /\ d \in load[k].filter \ (Foreign \cup load[k].failed \cup load[k].todo)
        BY <1>4, <2>1, <3>2 DEF Disabled
      <4>2. RowAgrees(d) \/ Pending(d)
        BY <4>1 DEF CodesInv, RowsFollow
      <4>3. QED
        BY <1>9, <1>11, <1>12, <4>1, <4>2
    <3>3. QED
      BY <3>1, <3>2
  <2>2. ASSUME NEW d \in (Codes \ Foreign) \ doubtful
        PROVE  RowAgrees(d)' \/ Pending(d)'
    BY <1>9, <1>11, <2>2 DEF CodesInv, RowsFollow
  <2>3. QED
    BY <1>1, <2>1, <2>2 DEF RowsFollow
<1>14. QED
  BY <1>6, <1>7, <1>8, <1>13 DEF CodesInv

LEMMA CodesFormat ==
  ASSUME CodesDb!InstrumentsDbAssumption, CodesInv, NEW l \in Loads, NEW c \in Codes, CodesDb!FormatInstr(l, c)
  PROVE  CodesInv'
<1>1. /\ load[l].step = "disabled" /\ c \in load[l].todo
      /\ load' = [load EXCEPT ![l] = [load[l] EXCEPT !.todo = load[l].todo \ {c}]]
      /\ status' = [status EXCEPT ![c] = load[l].markets[c]]
      /\ UNCHANGED <<market, starts, changes, doubtful>>
  BY DEF CodesDb!FormatInstr
<1>2. /\ market \in [Codes -> CodesDb!States] /\ status \in [Codes -> CodesDb!States]
      /\ load \in [Loads -> LoadRecord] /\ load[l] \in LoadRecord
  BY DEF CodesInv, CodesDb!TypeOK, LoadRecord
<1>3. /\ load' \in [Loads -> LoadRecord] /\ \A k \in Loads \ {l} : load'[k] = load[k]
      /\ load'[l].step = "disabled" /\ load'[l].todo = load[l].todo \ {c}
      /\ load'[l].filter = load[l].filter
      /\ load'[l].markets = load[l].markets /\ load'[l].failed = load[l].failed
  <2> DEFINE left == [load[l] EXCEPT !.todo = load[l].todo \ {c}]
  <2>1. /\ left \in LoadRecord /\ left.step = load[l].step /\ left.filter = load[l].filter
        /\ left.markets = load[l].markets /\ left.todo = load[l].todo \ {c}
        /\ left.failed = load[l].failed
    BY <1>2 DEF LoadRecord
  <2>2. load' = [load EXCEPT ![l] = left]
    BY <1>1
  <2> HIDE DEF left
  <2>3. QED
    BY <1>1, <1>2, <2>1, <2>2
<1>4. status' \in [Codes -> CodesDb!States] /\ status'[c] = load[l].markets[c]
      /\ \A d \in Codes \ {c} : status'[d] = status[d]
  BY <1>1, <1>2 DEF LoadRecord
<1>5. CodesDb!TypeOK'
  BY <1>1, <1>3, <1>4 DEF CodesInv, CodesDb!TypeOK, LoadRecord
<1>6. MarketsFresh'
  BY <1>1, <1>3 DEF CodesInv, MarketsFresh, Runs
<1>7. NoForeign'
  BY <1>1, <1>2, <1>3, <1>4 DEF CodesInv, NoForeign, CodesDb!InstrumentsDbAssumption
<1>8. \A d \in Codes \ {c} : (RowAgrees(d) => RowAgrees(d)') /\ (Pending(d) => Pending(d)')
  <2> SUFFICES ASSUME NEW d \in Codes \ {c}
               PROVE  (RowAgrees(d) => RowAgrees(d)') /\ (Pending(d) => Pending(d)')
    OBVIOUS
  <2>1. RowAgrees(d) => RowAgrees(d)'
    BY <1>1, <1>4 DEF RowAgrees
  <2>2. ASSUME NEW k \in Loads, Disabled(k), d \in load[k].filter,
               d \in load[k].todo \/ load[k].markets[d] # market[d]
        PROVE  Pending(d)'
    <3>1. Disabled(k)' /\ d \in load'[k].filter
          /\ (d \in load'[k].todo \/ load'[k].markets[d] # market'[d])
      BY <1>1, <1>3, <2>2 DEF Disabled
    <3>2. QED
      BY <3>1 DEF Pending
  <2>3. QED
    BY <2>1, <2>2 DEF Pending
<1>9. RowAgrees(c)' \/ Pending(c)'
  <2>1. CASE load[l].markets[c] = market[c]
    BY <1>1, <1>4, <2>1 DEF RowAgrees
  <2>2. CASE load[l].markets[c] # market[c] /\ c \in load[l].filter
    BY <1>1, <1>3, <2>2 DEF Pending, Disabled
  <2>3. c \in load[l].filter \/ load[l].markets[c] = market[c]
    BY <1>1 DEF CodesInv, NoForeign
  <2>4. QED
    BY <2>1, <2>2, <2>3
<1>10. \A k \in Loads : load[k].filter \subseteq Codes
  BY <1>2 DEF LoadRecord
<1>11. RowsFollow'
  <2>1. ASSUME NEW k \in Loads, Disabled(k)',
               NEW d \in load'[k].filter \ (Foreign \cup load'[k].failed \cup load'[k].todo)
        PROVE  RowAgrees(d)' \/ Pending(d)'
    <3>1. CASE d = c
      BY <1>9, <3>1
    <3>2. CASE d # c
      <4>1. Disabled(k) /\ d \in load[k].filter \ (Foreign \cup load[k].failed \cup load[k].todo)
        BY <1>1, <1>3, <2>1, <3>2 DEF Disabled
      <4>2. QED
        BY <1>8, <1>10, <3>2, <4>1 DEF CodesInv, RowsFollow
    <3>3. QED
      BY <3>1, <3>2
  <2>2. ASSUME NEW d \in (Codes \ Foreign) \ doubtful
        PROVE  RowAgrees(d)' \/ Pending(d)'
    BY <1>8, <1>9, <2>2 DEF CodesInv, RowsFollow
  <2>3. QED
    BY <1>1, <2>1, <2>2 DEF RowsFollow
<1>12. QED
  BY <1>5, <1>6, <1>7, <1>11 DEF CodesInv

LEMMA CodesRaises ==
  ASSUME CodesDb!InstrumentsDbAssumption, CodesInv, NEW l \in Loads, NEW c \in Codes,
         CodesDb!FormatInstrRaises(l, c)
  PROVE  CodesInv'
<1>1. /\ load[l].step = "disabled" /\ c \in load[l].todo
      /\ load' = [CodesDb!Spoilt({c}) EXCEPT ![l] = [CodesDb!Spoilt({c})[l] EXCEPT !.todo = CodesDb!Spoilt({c})[l].todo \ {c}]]
      /\ doubtful' = doubtful \cup {c}
      /\ UNCHANGED <<market, status, starts, changes>>
  BY DEF CodesDb!FormatInstrRaises
<1> DEFINE spoilt == CodesDb!Spoilt({c})
<1>2. /\ spoilt \in [Loads -> LoadRecord]
      /\ \A k \in Loads :
           /\ spoilt[k].step = load[k].step /\ spoilt[k].filter = load[k].filter
           /\ spoilt[k].markets = load[k].markets /\ spoilt[k].todo = load[k].todo
           /\ load[k].failed \subseteq spoilt[k].failed
           /\ Runs(k) => spoilt[k].failed = load[k].failed \cup {c}
  BY SpoiltLoads
<1>3. load' = [spoilt EXCEPT ![l] = [spoilt[l] EXCEPT !.todo = spoilt[l].todo \ {c}]]
  BY <1>1
<1> HIDE DEF spoilt
<1> DEFINE left == [spoilt[l] EXCEPT !.todo = spoilt[l].todo \ {c}]
<1>3a. /\ left \in LoadRecord /\ left.step = spoilt[l].step /\ left.filter = spoilt[l].filter
       /\ left.markets = spoilt[l].markets /\ left.todo = spoilt[l].todo \ {c}
       /\ left.failed = spoilt[l].failed
  BY <1>2 DEF LoadRecord
<1>3b. load' = [spoilt EXCEPT ![l] = left]
  BY <1>3
<1> HIDE DEF left
<1>3c. load'[l] = left /\ \A k \in Loads \ {l} : load'[k] = spoilt[k]
  BY <1>2, <1>3b
<1>4. /\ load' \in [Loads -> LoadRecord]
      /\ \A k \in Loads :
           /\ load'[k].step = load[k].step /\ load'[k].filter = load[k].filter
           /\ load'[k].markets = load[k].markets
           /\ load'[k].todo \subseteq load[k].todo /\ load[k].todo \subseteq load'[k].todo \cup {c}
           /\ load[k].failed \subseteq load'[k].failed
           /\ Runs(k) => load'[k].failed = load[k].failed \cup {c}
  <2>1. load' \in [Loads -> LoadRecord]
    BY <1>2, <1>3a, <1>3b
  <2>2. ASSUME NEW k \in Loads
        PROVE  /\ load'[k].step = load[k].step /\ load'[k].filter = load[k].filter
               /\ load'[k].markets = load[k].markets
               /\ load'[k].todo \subseteq load[k].todo /\ load[k].todo \subseteq load'[k].todo \cup {c}
               /\ load[k].failed \subseteq load'[k].failed
               /\ Runs(k) => load'[k].failed = load[k].failed \cup {c}
    <3>1. CASE k = l
      BY <1>2, <1>3a, <1>3c, <3>1
    <3>2. CASE k # l
      BY <1>2, <1>3c, <3>2
    <3>3. QED
      BY <3>1, <3>2
  <2>3. QED
    BY <2>1, <2>2
<1>5. CodesDb!TypeOK'
  BY <1>1, <1>4 DEF CodesInv, CodesDb!TypeOK, LoadRecord
<1>6. MarketsFresh' /\ NoForeign'
  <2>1. MarketsFresh'
    <3>1. \A k \in Loads : /\ load'[k].step = load[k].step /\ load'[k].markets = load[k].markets
                           /\ load[k].failed \subseteq load'[k].failed
      BY <1>4
    <3>2. ASSUME NEW k \in Loads, NEW d \in Codes \ load'[k].failed, load'[k].step # "idle"
          PROVE  load'[k].markets[d] = market[d]
      <4>1. d \in Codes \ load[k].failed /\ load[k].step # "idle"
        BY <3>1, <3>2
      <4>2. load[k].markets[d] = market[d]
        BY <4>1 DEF CodesInv, MarketsFresh, Runs
      <4>3. QED
        BY <3>1, <4>2
    <3>3. QED
      BY <1>1, <3>2 DEF MarketsFresh, Runs
  <2>2. NoForeign'
    BY <1>1, <1>4 DEF CodesInv, NoForeign
  <2>3. QED
    BY <2>1, <2>2
<1>7. \A d \in Codes \ {c} : (RowAgrees(d) => RowAgrees(d)') /\ (Pending(d) => Pending(d)')
  <2> SUFFICES ASSUME NEW d \in Codes \ {c}
               PROVE  (RowAgrees(d) => RowAgrees(d)') /\ (Pending(d) => Pending(d)')
    OBVIOUS
  <2>1. RowAgrees(d) => RowAgrees(d)'
    BY <1>1 DEF RowAgrees
  <2>2. ASSUME NEW k \in Loads, Disabled(k), d \in load[k].filter,
               d \in load[k].todo \/ load[k].markets[d] # market[d]
        PROVE  Pending(d)'
    <3>1. Disabled(k)' /\ d \in load'[k].filter
          /\ (d \in load'[k].todo \/ load'[k].markets[d] # market'[d])
      BY <1>1, <1>4, <2>2 DEF Disabled
    <3>2. QED
      BY <3>1 DEF Pending
  <2>3. QED
    BY <2>1, <2>2 DEF Pending
<1>8. \A k \in Loads : load[k].filter \subseteq Codes
  BY DEF CodesInv, CodesDb!TypeOK
<1>9. RowsFollow'
  <2>1. ASSUME NEW k \in Loads, Disabled(k)',
               NEW d \in load'[k].filter \ (Foreign \cup load'[k].failed \cup load'[k].todo)
        PROVE  RowAgrees(d)' \/ Pending(d)'
    <3>1. Disabled(k) /\ d # c
          /\ d \in load[k].filter \ (Foreign \cup load[k].failed \cup load[k].todo)
      BY <1>4, <2>1 DEF Disabled, Runs
    <3>2. QED
      BY <1>7, <1>8, <3>1 DEF CodesInv, RowsFollow
  <2>2. ASSUME NEW d \in (Codes \ Foreign) \ doubtful'
        PROVE  RowAgrees(d)' \/ Pending(d)'
    BY <1>1, <1>7, <2>2 DEF CodesInv, RowsFollow
  <2>3. QED
    BY <2>1, <2>2 DEF RowsFollow
<1>10. QED
  BY <1>5, <1>6, <1>9 DEF CodesInv

\* A load that ends, whole or not, leaves a pending row pending unless it makes it doubtful.
LEMMA CodesEnds ==
  ASSUME CodesInv, NEW l \in Loads, NEW f \in SUBSET Codes,
         load' = [CodesDb!Spoilt(f) EXCEPT ![l] = CodesDb!NotRunning],
         Disabled(l) => \A c \in load[l].filter :
                          c \in load[l].todo \/ load[l].markets[c] # market[c] => c \in f,
         UNCHANGED <<market, status, starts, changes>>,
         f \subseteq doubtful', doubtful' \subseteq Codes
  PROVE  /\ CodesDb!TypeOK' /\ MarketsFresh' /\ NoForeign'
         /\ \A c \in Codes \ f : RowAgrees(c) \/ Pending(c) => RowAgrees(c)' \/ Pending(c)'
         /\ \A k \in Loads :
              \A c \in load'[k].filter \ (Foreign \cup load'[k].failed \cup load'[k].todo) :
                Disabled(k)' => RowAgrees(c)' \/ Pending(c)'
<1> DEFINE spoilt == CodesDb!Spoilt(f)
<1>1. /\ spoilt \in [Loads -> LoadRecord]
      /\ \A k \in Loads :
           /\ spoilt[k].step = load[k].step /\ spoilt[k].filter = load[k].filter
           /\ spoilt[k].markets = load[k].markets /\ spoilt[k].todo = load[k].todo
           /\ load[k].failed \subseteq spoilt[k].failed
           /\ Runs(k) => spoilt[k].failed = load[k].failed \cup f
  BY SpoiltLoads
<1>2. load' = [spoilt EXCEPT ![l] = CodesDb!NotRunning]
  OBVIOUS
<1> HIDE DEF spoilt
<1>3. CodesDb!NotRunning \in LoadRecord
  BY DEF CodesDb!NotRunning, LoadRecord, CodesDb!States
<1>4. /\ load' \in [Loads -> LoadRecord] /\ load'[l] = CodesDb!NotRunning
      /\ \A k \in Loads \ {l} :
           /\ load'[k].step = load[k].step /\ load'[k].filter = load[k].filter
           /\ load'[k].markets = load[k].markets /\ load'[k].todo = load[k].todo
           /\ load[k].failed \subseteq load'[k].failed
           /\ Runs(k) => load'[k].failed = load[k].failed \cup f
  BY <1>1, <1>2, <1>3
<1>5. CodesDb!TypeOK'
  BY <1>4 DEF CodesInv, CodesDb!TypeOK, LoadRecord
<1>6. MarketsFresh' /\ NoForeign'
  BY <1>4 DEF CodesInv, MarketsFresh, NoForeign, Runs, CodesDb!NotRunning
<1>7. ASSUME NEW c \in Codes \ f, RowAgrees(c) \/ Pending(c)
      PROVE  RowAgrees(c)' \/ Pending(c)'
  <2>1. CASE RowAgrees(c)
    BY <2>1 DEF RowAgrees
  <2>2. ASSUME NEW k \in Loads, Disabled(k), c \in load[k].filter,
               c \in load[k].todo \/ load[k].markets[c] # market[c]
        PROVE  Pending(c)'
    <3>1. k # l
      BY <1>7, <2>2
    <3>2. QED
      BY <1>4, <2>2, <3>1 DEF Pending, Disabled
  <2>3. QED
    BY <1>7, <2>1, <2>2 DEF Pending
<1>8. ASSUME NEW k \in Loads, Disabled(k)',
             NEW c \in load'[k].filter \ (Foreign \cup load'[k].failed \cup load'[k].todo)
      PROVE  RowAgrees(c)' \/ Pending(c)'
  <2>1. k # l
    BY <1>4, <1>8 DEF Disabled, CodesDb!NotRunning
  <2>2. /\ Disabled(k) /\ c \notin f /\ c \in Codes
        /\ c \in load[k].filter \ (Foreign \cup load[k].failed \cup load[k].todo)
    BY <1>4, <1>8, <2>1 DEF Disabled, Runs, CodesInv, CodesDb!TypeOK
  <2>3. QED
    BY <1>7, <2>2 DEF CodesInv, RowsFollow
<1>9. QED
  BY <1>5, <1>6, <1>7, <1>8

LEMMA CodesFinish ==
  ASSUME CodesDb!InstrumentsDbAssumption, CodesInv, NEW l \in Loads, CodesDb!Finish(l)
  PROVE  CodesInv'
<1> DEFINE outdated == {c \in load[l].filter : load[l].markets[c] # market[c]}
<1>1. /\ load[l].step = "disabled" /\ load[l].todo = {}
      /\ load' = [CodesDb!Spoilt(outdated) EXCEPT ![l] = CodesDb!NotRunning]
      /\ doubtful' = (doubtful \ (load[l].filter \ load[l].failed)) \cup outdated
      /\ UNCHANGED <<market, status, starts, changes>>
  BY DEF CodesDb!Finish
<1>2. load[l].filter \subseteq Codes /\ doubtful \subseteq Codes
  BY DEF CodesInv, CodesDb!TypeOK
<1>3. outdated \subseteq Codes /\ outdated \subseteq doubtful' /\ doubtful' \subseteq Codes
  BY <1>1, <1>2
<1>4. \A c \in load[l].filter : c \in load[l].todo \/ load[l].markets[c] # market[c] => c \in outdated
  BY <1>1
<1> HIDE DEF outdated
<1>5. /\ CodesDb!TypeOK' /\ MarketsFresh' /\ NoForeign'
      /\ \A c \in Codes \ outdated : RowAgrees(c) \/ Pending(c) => RowAgrees(c)' \/ Pending(c)'
      /\ \A k \in Loads :
           \A c \in load'[k].filter \ (Foreign \cup load'[k].failed \cup load'[k].todo) :
             Disabled(k)' => RowAgrees(c)' \/ Pending(c)'
  BY <1>1, <1>3, <1>4, CodesEnds
<1>6. ASSUME NEW c \in (Codes \ Foreign) \ doubtful'
      PROVE  RowAgrees(c)' \/ Pending(c)'
  <2>1. c \notin outdated
    BY <1>3, <1>6
  <2>2. CASE c \notin doubtful
    BY <1>5, <1>6, <2>1, <2>2 DEF CodesInv, RowsFollow
  <2>3. CASE c \in doubtful
    <3>1. c \in load[l].filter \ (Foreign \cup load[l].failed \cup load[l].todo)
      BY <1>1, <1>6, <2>3
    <3>2. RowAgrees(c) \/ Pending(c)
      BY <1>1, <3>1 DEF CodesInv, RowsFollow, Disabled
    <3>3. QED
      BY <1>5, <1>6, <2>1, <3>2
  <2>4. QED
    BY <2>2, <2>3
<1>7. QED
  BY <1>5, <1>6 DEF CodesInv, RowsFollow

LEMMA CodesInterrupt ==
  ASSUME CodesDb!InstrumentsDbAssumption, CodesInv, NEW l \in Loads, CodesDb!Interrupt(l)
  PROVE  CodesInv'
<1> DEFINE f == IF load[l].step = "disabled" THEN load[l].filter ELSE {}
<1>1. /\ load' = [CodesDb!Spoilt(f) EXCEPT ![l] = CodesDb!NotRunning]
      /\ doubtful' = doubtful \cup f
      /\ UNCHANGED <<market, status, starts, changes>>
  BY DEF CodesDb!Interrupt
<1>2. f \subseteq Codes /\ f \subseteq doubtful' /\ doubtful' \subseteq Codes
  BY <1>1 DEF CodesInv, CodesDb!TypeOK
<1>3. Disabled(l) => \A c \in load[l].filter :
                       c \in load[l].todo \/ load[l].markets[c] # market[c] => c \in f
  BY DEF Disabled
<1> HIDE DEF f
<1>4. /\ CodesDb!TypeOK' /\ MarketsFresh' /\ NoForeign'
      /\ \A c \in Codes \ f : RowAgrees(c) \/ Pending(c) => RowAgrees(c)' \/ Pending(c)'
      /\ \A k \in Loads :
           \A c \in load'[k].filter \ (Foreign \cup load'[k].failed \cup load'[k].todo) :
             Disabled(k)' => RowAgrees(c)' \/ Pending(c)'
  BY <1>1, <1>2, <1>3, CodesEnds
<1>5. \A c \in (Codes \ Foreign) \ doubtful' : RowAgrees(c)' \/ Pending(c)'
  BY <1>1, <1>4 DEF CodesInv, RowsFollow
<1>6. QED
  BY <1>4, <1>5 DEF CodesInv, RowsFollow

LEMMA CodesStep ==
  ASSUME CodesDb!InstrumentsDbAssumption, CodesInv, [CodesDb!Next]_(CodesDb!vars)
  PROVE  CodesInv'
<1>1. CASE UNCHANGED CodesDb!vars
  BY <1>1 DEF CodesDb!vars, CodesInv, CodesDb!TypeOK, MarketsFresh, NoForeign, RowsFollow,
     RowAgrees, Pending, Runs,
              Disabled
<1>2. CASE CodesDb!Next
  BY <1>2, CodesChange, CodesLoadMarkets, CodesDisable, CodesFormat, CodesRaises, CodesFinish,
     CodesInterrupt DEF CodesDb!Next
<1>3. QED
  BY <1>1, <1>2

LEMMA CodesSafe ==
  ASSUME CodesInv
  PROVE  CodesDb!LoadsAgree
  BY DEF CodesInv, NoForeign, RowsFollow, RowAgrees, Pending, Disabled, CodesDb!LoadsAgree

\* The component is one of its own in the composition, and rests while another runs.
LEMMA ServicesKeepCodes ==
  ASSUME ServicesAssumption, CodesInv, [ServicesNext]_services
  PROVE  CodesInv'
<1>1. CodesDb!InstrumentsDbAssumption
  BY DEF ServicesAssumption
<1>2. CodesDb!Next \/ UNCHANGED codes
  BY DEF ServicesNext, services
<1>3. [CodesDb!Next]_(CodesDb!vars)
  BY <1>2 DEF codes, CodesDb!vars
<1>4. QED
  BY <1>1, <1>3, CodesStep

-----------------------------------------------------------------------------
(* The rows of the markets                                                    *)
\* What a venue does not change of a market
Alike(m, n) ==
  /\ m.name = n.name /\ m.base = n.base /\ m.quote = n.quote /\ m.type = n.type
  /\ m.settle = n.settle /\ m.expiry = n.expiry /\ m.contract = n.contract
  /\ m.decimals = n.decimals

BaseType == [coin : STRING, token : STRING, rest : STRING]

MarketType ==
  [name : STRING, type : {"spot", "swap", "future", "option", "index"},
   base : [coin : STRING, token : STRING, rest : STRING], quote : STRING, settle : STRING,
   expiry : Nat, contract : {"", "linear", "inverse", "quanto"}, active : BOOLEAN,
   tradeable : BOOLEAN, delisting : BOOLEAN, fee : [maker : Nat, taker : Nat], decimals : Nat]

\* The markets are what ccxt lists, also when they have changed.
Listed(v, ms) ==
  /\ \A m \in ms :
       /\ m \in MarketType
       /\ m.contract = "" <=> m.type \in {"spot", "index"}
       /\ m.type = "swap" => m.expiry = 0
       /\ m.type = "future" => m.expiry # 0
       /\ m.base.token \notin {"linear", "inverse"}
       /\ m.contract = "quanto" => v = "bitmex"
       /\ v = "poloniexfutures" => m.type = "swap"
  /\ \A m, n \in ms : m # n =>
       /\ m.name # n.name
       /\ ~ (m.base = n.base /\ m.quote = n.quote /\ m.type = n.type /\ m.expiry = n.expiry
               /\ m.contract = n.contract)
       /\ v = "poloniexfutures" => ~ (m.base = n.base /\ m.quote = n.quote)

MarketsListed == Listed(venue, quoted)

Taken(l) == {m \in Norm!Fetched(venue, quoted) : ~Norm!SkipInstr(l, m)}

\* A row that says of a market what it is, or is another token's of its code
RowSays(r, l, m) ==
  /\ r.code = Norm!InstrCode(l, m)
  /\ \/ /\ r.name = m.name /\ r.status = Norm!InstrStatus(l, m) /\ r.decimals <= m.decimals
        /\ \A t \in {"maker", "taker"} :
             r[t] = [exchange |-> l, type |-> t, percent |-> Norm!Percent(l, m, t)]
     \/ \E n \in quoted : Norm!SameToken(m, n) /\ n.name = r.name

\* Each row is of a market that its loader takes, and has its code for itself.
RowsFound ==
  /\ \A r \in coded : \E l \in Norm!Loaders(venue) : \E m \in Taken(l) :
       r.name = m.name /\ r.code = Norm!InstrCode(l, m) /\ ~Norm!Dropped({}, m)
  /\ \A r, s \in coded : r.code = s.code => r = s

\* What a loader went through has its rows: ...
Through(l, left) ==
  \A m \in Taken(l) \ left : Norm!Dropped({}, m) \/ \E r \in coded : RowSays(r, l, m)

\* ... all markets, or those that the load that runs has behind it.
RowsWritten ==
  /\ settled \subseteq Norm!Loaders(venue)
  /\ \A l \in settled : Through(l, {})
  /\ loader # Norm!Idle =>
       /\ loader.loader \in Norm!Loaders(venue) \ settled
       /\ loader.todo \subseteq Taken(loader.loader)
       /\ loader.types = {} => Through(loader.loader, loader.todo)

MarketsInv ==
  /\ venue \in {"binance", "gateio", "huobi", "mexc", "krakenfutures", "bitget", "bitmex",
                "poloniexfutures"}
  /\ MarketsListed /\ RowsFound /\ RowsWritten

LEMMA MarketsInit == ASSUME Norm!NormalizedCodesAssumption, Norm!Init PROVE MarketsInv
<1>1. venue \in Venues /\ quoted \subseteq Markets /\ loader = Norm!Idle /\ coded = {}
        /\ settled = {}
  BY DEF Norm!Init, Norm!kSubset
<1>2. /\ \A m \in quoted : m.contract = "quanto" => venue = "bitmex"
      /\ venue = "poloniexfutures" => \A m, n \in quoted :
           m.type = "swap" /\ (m # n => <<m.base, m.quote>> # <<n.base, n.quote>>)
  BY DEF Norm!Init
<1>3. MarketsListed
  <2>1. \A m \in quoted :
          /\ m \in MarketType
          /\ m.contract = "" <=> m.type \in {"spot", "index"}
          /\ m.type = "swap" => m.expiry = 0
          /\ m.type = "future" => m.expiry # 0
          /\ m.base.token \notin {"linear", "inverse"}
    BY <1>1 DEF Norm!NormalizedCodesAssumption, MarketType
  <2>2. ASSUME NEW m \in quoted, NEW n \in quoted, m # n
        PROVE  /\ m.name # n.name
               /\ ~ (m.base = n.base /\ m.quote = n.quote /\ m.type = n.type
                       /\ m.expiry = n.expiry /\ m.contract = n.contract)
    <3>1. /\ m.name # n.name
          /\ <<m.base, m.quote, m.type, m.expiry, m.contract>>
               # <<n.base, n.quote, n.type, n.expiry, n.contract>>
      BY <1>1, <2>2 DEF Norm!NormalizedCodesAssumption
    <3>2. QED
      BY <3>1
  <2>3. ASSUME NEW m \in quoted, NEW n \in quoted, m # n, venue = "poloniexfutures"
        PROVE  ~ (m.base = n.base /\ m.quote = n.quote)
    BY <1>2, <2>3
  <2>4. QED
    BY <1>2, <2>1, <2>2, <2>3 DEF MarketsListed, Listed
<1>4. QED
  BY <1>1, <1>3 DEF MarketsInv, RowsFound, RowsWritten, Norm!NormalizedCodesAssumption

\* What a loader is given is a market listed, but for what Poloniex's makes of it.
LEMMA FetchedIsListed ==
  ASSUME MarketsInv, NEW f \in Norm!Fetched(venue, quoted)
  PROVE  /\ f.type \in {"spot", "swap", "future", "option", "index"}
         /\ f.contract \in {"", "linear", "inverse", "quanto"}
         /\ f.base \in BaseType
         /\ f.contract = "quanto" => venue = "bitmex"
         /\ f.base.token \notin {"linear", "inverse"}
         /\ \E m \in quoted : /\ f.name = m.name /\ f.base = m.base /\ f.quote = m.quote
                              /\ f.decimals = m.decimals
                              /\ venue # "poloniexfutures" => f = m
                              /\ venue = "poloniexfutures" =>
                                   f = [m EXCEPT !.type = "future", !.expiry = 0,
                                                 !.contract = "linear", !.settle = ""]
<1>1. CASE venue # "poloniexfutures"
  BY <1>1 DEF MarketsInv, MarketsListed, Listed, Norm!Fetched, MarketType, BaseType
<1>2. CASE venue = "poloniexfutures"
  <2>1. PICK m \in quoted : 
          f = [m EXCEPT !.type = "future", !.expiry = 0, !.contract = "linear", !.settle = ""]
    BY <1>2 DEF Norm!Fetched
  <2>2. m \in MarketType /\ m.base.token \notin {"linear", "inverse"}
    BY DEF MarketsInv, MarketsListed, Listed
  <2>3. /\ f.name = m.name /\ f.base = m.base /\ f.quote = m.quote /\ f.decimals = m.decimals
        /\ f.contract = "linear"
        /\ f.type = "future" /\ f.base \in BaseType
    BY <2>1, <2>2 DEF MarketType, BaseType
  <2>4. QED
    BY <1>2, <2>1, <2>2, <2>3
<1>3. QED
  BY <1>1, <1>2

LEMMA FetchedNames ==
  ASSUME MarketsInv, NEW f \in Norm!Fetched(venue, quoted),
       NEW g \in Norm!Fetched(venue, quoted),
         f.name = g.name
  PROVE  f = g
<1>1. PICK m \in quoted : /\ f.name = m.name
                          /\ venue # "poloniexfutures" => f = m
                          /\ venue = "poloniexfutures" =>
                               f = [m EXCEPT !.type = "future", !.expiry = 0,
                                             !.contract = "linear", !.settle = ""]
  BY FetchedIsListed
<1>2. PICK n \in quoted : /\ g.name = n.name
                          /\ venue # "poloniexfutures" => g = n
                          /\ venue = "poloniexfutures" =>
                               g = [n EXCEPT !.type = "future", !.expiry = 0,
                                             !.contract = "linear", !.settle = ""]
  BY FetchedIsListed
<1>3. \A p, q \in quoted : p.name = q.name => p = q
  BY DEF MarketsInv, MarketsListed, Listed
<1>4. m = n
  BY <1>1, <1>2, <1>3
<1>5. QED
  BY <1>1, <1>2, <1>4

\* No market is taken by two loaders.
LEMMA OneTaker ==
  ASSUME MarketsInv, NEW l \in Norm!Loaders(venue), NEW k \in Norm!Loaders(venue),
         NEW m \in Norm!Fetched(venue, quoted), ~Norm!SkipInstr(l, m), ~Norm!SkipInstr(k, m)
  PROVE  k = l
<1>1. m.type \in {"spot", "swap", "future", "option", "index"}
  BY FetchedIsListed
<1>2. CASE venue = "binance"
  BY <1>1, <1>2 DEF Norm!Loaders, Norm!SkipInstr
<1>3. CASE venue = "gateio"
  BY <1>1, <1>3 DEF Norm!Loaders, Norm!SkipInstr
<1>4. CASE venue = "huobi"
  BY <1>1, <1>4 DEF Norm!Loaders, Norm!SkipInstr
<1>5. CASE venue = "mexc"
  BY <1>1, <1>5 DEF Norm!Loaders, Norm!SkipInstr
<1>6. CASE venue \in {"krakenfutures", "bitget", "bitmex", "poloniexfutures"}
  BY <1>6 DEF Norm!Loaders
<1>7. QED
  BY <1>2, <1>3, <1>4, <1>5, <1>6 DEF MarketsInv

\* Two markets of one loader have one code only if they are tokens of one coin.
LEMMA CodesDiffer ==
  ASSUME MarketsInv, NEW l \in Norm!Loaders(venue), NEW m \in Taken(l), NEW n \in Taken(l),
         ~Norm!Dropped({}, m), ~Norm!Dropped({}, n),
              Norm!InstrCode(l, m) = Norm!InstrCode(l, n)
  PROVE  m = n \/ Norm!SameToken(n, m)
<1>1. m \in Norm!Fetched(venue, quoted) /\ n \in Norm!Fetched(venue, quoted)
  BY DEF Taken
<1>2. /\ Norm!Base(l, m) = Norm!Base(l, n) /\ m.quote = n.quote
        /\ Norm!InstrType(m) = Norm!InstrType(n)
      /\ Norm!ContractType(l, m) = Norm!ContractType(l, n) /\ m.expiry = n.expiry
  <2>1. /\ Norm!InstrCode(l, m).base = Norm!InstrCode(l, n).base
        /\ Norm!InstrCode(l, m).quote = Norm!InstrCode(l, n).quote
        /\ Norm!InstrCode(l, m).type = Norm!InstrCode(l, n).type
        /\ Norm!InstrCode(l, m).contract = Norm!InstrCode(l, n).contract
        /\ Norm!InstrCode(l, m).expiry = Norm!InstrCode(l, n).expiry
    OBVIOUS
  <2>2. QED
    BY <2>1 DEF Norm!InstrCode
<1>3. /\ m.type \in {"spot", "swap", "future", "option", "index"}
      /\ n.type \in {"spot", "swap", "future", "option", "index"}
      /\ m.contract \in {"", "linear", "inverse", "quanto"}
      /\ n.contract \in {"", "linear", "inverse", "quanto"}
      /\ m.base \in BaseType /\ n.base \in BaseType
  BY <1>1, FetchedIsListed
<1>4. m.type # "option" /\ n.type # "option"
  BY <1>3 DEF Norm!Dropped, Norm!InstrType
<1>5. CASE venue = "poloniexfutures"
  <2>1. PICK a \in quoted : /\ m.base = a.base /\ m.quote = a.quote
                            /\ m = [a EXCEPT !.type = "future", !.expiry = 0,
                                             !.contract = "linear", !.settle = ""]
    BY <1>1, <1>5, FetchedIsListed
  <2>2. PICK b \in quoted : /\ n.base = b.base /\ n.quote = b.quote
                            /\ n = [b EXCEPT !.type = "future", !.expiry = 0,
                                             !.contract = "linear", !.settle = ""]
    BY <1>1, <1>5, FetchedIsListed
  <2>3. l = "POLONIEX_FUTURES"
    BY <1>5 DEF Norm!Loaders
  <2>4. Norm!Base(l, m) = m.base /\ Norm!Base(l, n) = n.base
    BY <2>3 DEF Norm!Base
  <2>5. a.base = b.base /\ a.quote = b.quote
    BY <1>2, <2>1, <2>2, <2>4
  <2>6. a = b
    BY <1>5, <2>5 DEF MarketsInv, MarketsListed, Listed
  <2>7. QED
    BY <2>1, <2>2, <2>6
<1>6. CASE venue # "poloniexfutures"
  <2>1. m \in quoted /\ n \in quoted
    BY <1>1, <1>6 DEF Norm!Fetched
  <2>2. /\ m.contract = "" <=> m.type \in {"spot", "index"}
        /\ n.contract = "" <=> n.type \in {"spot", "index"}
        /\ m.type = "swap" => m.expiry = 0
        /\ m.type = "future" => m.expiry # 0
        /\ n.type = "swap" => n.expiry = 0
        /\ n.type = "future" => n.expiry # 0
        /\ m.base.token \notin {"linear", "inverse"}
             /\ n.base.token \notin {"linear", "inverse"}
        /\ m.contract = "quanto" => venue = "bitmex"
        /\ n.contract = "quanto" => venue = "bitmex"
    BY <2>1 DEF MarketsInv, MarketsListed, Listed
  <2>3. m.type = n.type
    BY <1>2, <1>3, <1>4, <2>2 DEF Norm!InstrType
  <2>4. SUFFICES (m.base = n.base /\ m.contract = n.contract) \/ Norm!SameToken(n, m)
    BY <1>2, <2>1, <2>3 DEF MarketsInv, MarketsListed, Listed
  <2>5. CASE l = "BINANCE"
    <3>1. m.type = "spot" /\ n.type = "spot" /\ m.contract = n.contract
      BY <2>2, <2>5 DEF Taken, Norm!SkipInstr
    <3>2. m.base.token = n.base.token
      BY <1>2, <2>2, <2>5, <3>1 DEF Norm!ContractType
    <3>3. CASE m.base.token = "" \/ (m.base.rest # "" /\ n.base.rest # "")
      BY <1>2, <1>3, <2>5, <3>1, <3>2, <3>3 DEF Norm!Base, BaseType
    <3>4. CASE m.base.token # "" /\ m.base.rest = "" /\ n.base.rest = ""
      BY <3>2, <3>4 DEF Norm!SameToken
    <3>5. CASE m.base.token # "" /\ (m.base.rest = "") # (n.base.rest = "")
      <4>1. Norm!Base(l, m).rest = m.base.rest /\ Norm!Base(l, n).rest = n.base.rest
        BY <2>5 DEF Norm!Base
      <4>2. QED
        BY <1>2, <3>5, <4>1
    <3>6. QED
      BY <3>3, <3>4, <3>5
  <2>6. CASE l # "BINANCE"
    <3>1. m.base = n.base
      BY <1>2, <2>6 DEF Norm!Base
    <3>2. m.contract = n.contract
      <4>1. CASE l = "BITMEX"
        BY <1>2, <1>3, <2>2, <2>3, <4>1 DEF Norm!ContractType, Norm!OfBitmex
      <4>2. CASE l # "BITMEX"
        <5>1. venue # "bitmex"
          BY <4>2 DEF Norm!Loaders
        <5>2. m.contract # "quanto" /\ n.contract # "quanto"
          BY <2>2, <5>1
        <5>3. (m.type = "spot" \/ m.contract = "linear")
                <=> (n.type = "spot" \/ n.contract = "linear")
          BY <1>2, <2>6, <4>2 DEF Norm!ContractType
        <5>4. QED
          BY <1>3, <2>2, <2>3, <5>2, <5>3
      <4>3. QED
        BY <4>1, <4>2
    <3>3. QED
      BY <3>1, <3>2
  <2>7. QED
    BY <2>5, <2>6
<1>7. QED
  BY <1>5, <1>6

LEMMA LoaderStarts ==
  ASSUME MarketsInv, NEW l \in Norm!Loaders(venue), NEW types, Norm!LoadCodes(l, types)
  PROVE  MarketsInv'
<1>1. /\ loader = Norm!Idle /\ settled' = settled \ {l}
      /\ loader' = [loader |-> l, types |-> types, todo |-> Taken(l)]
      /\ UNCHANGED <<venue, quoted, coded, moves>>
  BY DEF Norm!LoadCodes, Taken
<1>2. loader'.loader = l /\ loader'.types = types /\ loader'.todo = Taken(l)
  BY <1>1
<1>3. MarketsListed'
  BY <1>1 DEF MarketsInv, MarketsListed
<1>4. \A k : Taken(k)' = Taken(k)
  BY <1>1 DEF Taken, Norm!Fetched
<1>5. \A r, k, m : RowSays(r, k, m)' <=> RowSays(r, k, m)
  BY <1>1 DEF RowSays
<1>6. RowsFound'
  BY <1>1, <1>4 DEF MarketsInv, RowsFound
<1>7. RowsWritten'
  <2>1. \A k \in settled' : Through(k, {})'
    BY <1>1, <1>4, <1>5 DEF MarketsInv, RowsWritten, Through
  <2>2. Through(loader.loader, loader.todo)'
    BY <1>2, <1>4 DEF Through
  <2>3. QED
    BY <1>1, <1>2, <1>4, <2>1, <2>2 DEF MarketsInv, RowsWritten
<1>8. QED
  BY <1>1, <1>3, <1>6, <1>7 DEF MarketsInv

LEMMA LoaderEnds == ASSUME MarketsInv, Norm!Finish PROVE MarketsInv'
<1>1. /\ loader # Norm!Idle /\ loader.todo = {} /\ loader' = Norm!Idle
      /\ settled' = IF loader.types = {} THEN settled \cup {loader.loader} ELSE settled
      /\ UNCHANGED <<venue, quoted, fee_ids, coded, passes, moves>>
  BY DEF Norm!Finish
<1>2. MarketsListed'
  BY <1>1 DEF MarketsInv, MarketsListed
<1>3. \A k : Taken(k)' = Taken(k)
  BY <1>1 DEF Taken, Norm!Fetched
<1>4. \A r, k, m : RowSays(r, k, m)' <=> RowSays(r, k, m)
  BY <1>1 DEF RowSays
<1>5. RowsFound'
  BY <1>1, <1>3 DEF MarketsInv, RowsFound
<1>6. \A k, left : Through(k, left) => Through(k, left)'
  BY <1>1, <1>3, <1>4 DEF Through
<1>7. RowsWritten'
  BY <1>1, <1>6 DEF MarketsInv, RowsWritten, Norm!Idle
<1>8. QED
  BY <1>1, <1>2, <1>5, <1>7 DEF MarketsInv

LEMMA MarketWritten ==
  ASSUME Norm!NormalizedCodesAssumption, MarketsInv, NEW m \in loader.todo,
       Norm!FormatInstr(m)
  PROVE  MarketsInv'
<1> DEFINE l == loader.loader
           row == [code |-> Norm!InstrCode(l, m), name |-> m.name,
                   status |-> Norm!InstrStatus(l, m),
                   maker |-> Norm!FeeDb(l, "maker", Norm!Percent(l, m, "maker")),
                   taker |-> Norm!FeeDb(l, "taker", Norm!Percent(l, m, "taker")),
                   decimals |-> Norm!Decimals(l, m)]
<1>1. loader # Norm!Idle
  BY DEF Norm!Idle
<1>2. /\ l \in Norm!Loaders(venue) \ settled /\ m \in Taken(l)
        /\ loader.todo \subseteq Taken(l)
      /\ loader.types = {} => Through(l, loader.todo)
      /\ settled \subseteq Norm!Loaders(venue) /\ \A k \in settled : Through(k, {})
  BY <1>1 DEF MarketsInv, RowsWritten
<1>3. /\ UNCHANGED <<venue, quoted, passes, moves, settled>>
      /\ loader' = [loader EXCEPT !.todo = @ \ {m}]
      /\ IF Norm!Dropped(loader.types, m) THEN coded' = coded
         ELSE coded' = {r \in coded : r.code # row.code} \cup {row}
  BY DEF Norm!FormatInstr, Norm!Upserted, Norm!FeeId
<1>4. loader'.loader = l /\ loader'.types = loader.types /\ loader'.todo = loader.todo \ {m}
  BY <1>3
<1>5. MarketsListed'
  BY <1>3 DEF MarketsInv, MarketsListed
<1>6. \A k : Taken(k)' = Taken(k)
  BY <1>3 DEF Taken, Norm!Fetched
<1>7. \A r, k, n : RowSays(r, k, n)' <=> RowSays(r, k, n)
  BY <1>3 DEF RowSays
<1>8. CASE Norm!Dropped(loader.types, m)
  <2>1. coded' = coded
    BY <1>3, <1>8
  <2>2. RowsFound'
    BY <1>3, <1>6, <2>1 DEF MarketsInv, RowsFound
  <2>3. \A k \in settled' : Through(k, {})'
    BY <1>2, <1>3, <1>6, <1>7, <2>1 DEF Through
  <2>4. ASSUME loader.types = {}, NEW n \in Taken(l) \ (loader.todo \ {m}),
               ~Norm!Dropped({}, n)
        PROVE  \E r \in coded : RowSays(r, l, n)
    <3>1. n # m
      BY <1>8, <2>4 DEF Norm!Dropped
    <3>2. QED
      BY <1>2, <2>4, <3>1 DEF Through
  <2>5. loader'.types = {} => Through(loader.loader, loader.todo)'
    BY <1>4, <1>6, <1>7, <2>1, <2>4 DEF Through
  <2>6. RowsWritten'
    BY <1>2, <1>3, <1>4, <1>6, <2>3, <2>5 DEF RowsWritten
  <2>7. QED
    BY <1>3, <1>5, <2>2, <2>6 DEF MarketsInv
<1>9. CASE ~Norm!Dropped(loader.types, m)
  <2>1. coded' = {r \in coded : r.code # row.code} \cup {row}
    BY <1>3, <1>9
  <2>2. ~Norm!Dropped({}, m)
    BY <1>9 DEF Norm!Dropped
  <2>3. row.code = Norm!InstrCode(l, m) /\ row.name = m.name /\ row.code.exchange = l
    BY DEF Norm!InstrCode
  <2>4. RowSays(row, l, m)
    <3>1. /\ row.status = Norm!InstrStatus(l, m) /\ row.decimals = Norm!Decimals(l, m)
          /\ row["maker"] = Norm!FeeDb(l, "maker", Norm!Percent(l, m, "maker"))
          /\ row["taker"] = Norm!FeeDb(l, "taker", Norm!Percent(l, m, "taker"))
      OBVIOUS
    <3>2. Norm!Decimals(l, m) <= m.decimals
      <4>1. PICK n \in quoted : m.decimals = n.decimals
        BY <1>2, FetchedIsListed DEF Taken
      <4>2. m.decimals \in Nat
        BY <4>1 DEF MarketsInv, MarketsListed, Listed, MarketType
      <4>3. QED
        BY <4>2 DEF Norm!Decimals
    <3> HIDE DEF row
    <3>3. QED
      BY <2>3, <3>1, <3>2 DEF RowSays, Norm!FeeDb
  <2> HIDE DEF row
  <2>5. RowsFound'
    <3>1. ASSUME NEW r \in coded'
          PROVE  \E k \in Norm!Loaders(venue) : \E n \in Taken(k) :
                   r.name = n.name /\ r.code = Norm!InstrCode(k, n) /\ ~Norm!Dropped({}, n)
      <4>1. CASE r = row
        BY <1>2, <2>2, <2>3, <4>1
      <4>2. CASE r \in coded
        BY <4>2 DEF MarketsInv, RowsFound
      <4>3. QED
        BY <2>1, <4>1, <4>2
    <3>2. \A r, s \in coded' : r.code = s.code => r = s
      BY <2>1 DEF MarketsInv, RowsFound
    <3>3. QED
      BY <1>3, <1>6, <3>1, <3>2 DEF RowsFound
  <2>6. ASSUME NEW k, NEW n \in Taken(k), NEW r \in coded, RowSays(r, k, n), k # l
        PROVE  r \in coded'
    <3>1. r.code.exchange = k
      BY <2>6 DEF RowSays, Norm!InstrCode
    <3>2. QED
      BY <2>1, <2>3, <2>6, <3>1
  <2>7. \A k \in settled' : Through(k, {})'
    BY <1>2, <1>3, <1>6, <1>7, <2>6 DEF Through
  <2>8. ASSUME loader.types = {}, NEW n \in Taken(l) \ (loader.todo \ {m}),
               ~Norm!Dropped({}, n)
        PROVE  \E r \in coded' : RowSays(r, l, n)
    <3>1. CASE n = m
      BY <2>1, <2>4, <3>1
    <3>2. CASE n # m
      <4>1. PICK r \in coded : RowSays(r, l, n)
        BY <1>2, <2>8, <3>2 DEF Through
      <4>2. CASE r.code # row.code
        BY <2>1, <4>1, <4>2
      <4>3. CASE r.code = row.code
        <5>1. Norm!InstrCode(l, n) = Norm!InstrCode(l, m)
          BY <2>3, <4>1, <4>3 DEF RowSays
        <5>2. Norm!SameToken(n, m)
          BY <1>2, <2>2, <2>8, <3>2, <5>1, CodesDiffer
        <5>3. PICK a \in quoted : m.name = a.name /\ m.base = a.base
          BY <1>2, FetchedIsListed DEF Taken
        <5>4. Norm!SameToken(n, a)
          BY <5>2, <5>3 DEF Norm!SameToken
        <5>5. RowSays(row, l, n)
          BY <2>3, <5>1, <5>3, <5>4 DEF RowSays
        <5>6. QED
          BY <2>1, <5>5
      <4>4. QED
        BY <4>2, <4>3
    <3>3. QED
      BY <3>1, <3>2
  <2>9. loader'.types = {} => Through(loader.loader, loader.todo)'
    BY <1>4, <1>6, <1>7, <2>8 DEF Through
  <2>10. RowsWritten'
    BY <1>2, <1>3, <1>4, <1>6, <2>7, <2>9 DEF RowsWritten
  <2>11. QED
    BY <1>3, <1>5, <2>5, <2>10 DEF MarketsInv
<1>10. QED
  BY <1>8, <1>9

\* A change of a market is none of what its codes are made of.
LEMMA MarketChanges ==
  ASSUME Norm!NormalizedCodesAssumption, MarketsInv, NEW m \in quoted, Norm!Change(m)
  PROVE  MarketsInv'
<1> DEFINE w == [m EXCEPT !.active = ~@, !.tradeable = ~@, !.fee = [@ EXCEPT !["taker"] = 4]]
<1>1. /\ loader = Norm!Idle /\ settled' = {} /\ quoted' = (quoted \ {m}) \cup {w}
      /\ UNCHANGED <<venue, loader, fee_ids, coded, passes>>
  BY DEF Norm!Change
<1>2. m \in MarketType
  BY DEF MarketsInv, MarketsListed, Listed
<1>3. w \in MarketType /\ Alike(w, m)
  BY <1>2 DEF MarketType, Alike
<1> HIDE DEF w
<1>4. ASSUME NEW a \in quoted'
      PROVE  \E b \in quoted : Alike(a, b) /\ (a = w => b = m) /\ (a # w => a = b /\ b # m)
  BY <1>1, <1>3, <1>4 DEF Alike
<1>5. MarketsListed'
  <2>1. ASSUME NEW a \in quoted'
        PROVE  /\ a \in MarketType
               /\ a.contract = "" <=> a.type \in {"spot", "index"}
               /\ a.type = "swap" => a.expiry = 0
               /\ a.type = "future" => a.expiry # 0
               /\ a.base.token \notin {"linear", "inverse"}
               /\ a.contract = "quanto" => venue' = "bitmex"
               /\ venue' = "poloniexfutures" => a.type = "swap"
    <3>1. PICK b \in quoted : Alike(a, b) /\ (a # w => a = b)
      BY <1>4
    <3>2. a \in MarketType
      BY <1>3, <3>1 DEF MarketsInv, MarketsListed, Listed
    <3>3. QED
      BY <1>1, <3>1, <3>2 DEF MarketsInv, MarketsListed, Listed, Alike
  <2>2. ASSUME NEW a \in quoted', NEW c \in quoted', a # c
        PROVE  /\ a.name # c.name
               /\ ~ (a.base = c.base /\ a.quote = c.quote /\ a.type = c.type
                       /\ a.expiry = c.expiry /\ a.contract = c.contract)
               /\ venue' = "poloniexfutures" => ~ (a.base = c.base /\ a.quote = c.quote)
    <3>1. PICK b \in quoted : Alike(a, b) /\ (a = w => b = m) /\ (a # w => a = b /\ b # m)
      BY <1>4
    <3>2. PICK d \in quoted : Alike(c, d) /\ (c = w => d = m) /\ (c # w => c = d /\ d # m)
      BY <1>4
    <3>3. b # d
      BY <2>2, <3>1, <3>2
    <3>4. /\ b.name # d.name
          /\ ~ (b.base = d.base /\ b.quote = d.quote /\ b.type = d.type
                  /\ b.expiry = d.expiry /\ b.contract = d.contract)
          /\ venue = "poloniexfutures" => ~ (b.base = d.base /\ b.quote = d.quote)
      BY <3>3 DEF MarketsInv, MarketsListed, Listed
    <3>5. QED
      BY <1>1, <3>1, <3>2, <3>4 DEF Alike
  <2>3. QED
    BY <2>1, <2>2 DEF MarketsListed, Listed
<1>6. \A b \in quoted : \E a \in quoted' : Alike(a, b)
  BY <1>1, <1>3 DEF Alike
<1>7. ASSUME NEW l, NEW f \in Taken(l), ~Norm!Dropped({}, f)
      PROVE  \E g \in Taken(l)' :
               g.name = f.name /\ Norm!InstrCode(l, g) = Norm!InstrCode(l, f)
                    /\ ~Norm!Dropped({}, g)
  <2>1. f \in Norm!Fetched(venue, quoted) /\ ~Norm!SkipInstr(l, f)
    BY <1>7 DEF Taken
  <2>2. PICK g \in Norm!Fetched(venue, quoted') :
          /\ g.name = f.name /\ g.base = f.base /\ g.quote = f.quote /\ g.type = f.type
          /\ g.settle = f.settle /\ g.expiry = f.expiry /\ g.contract = f.contract
    <3>1. CASE venue # "poloniexfutures"
      BY <1>6, <2>1, <3>1 DEF Norm!Fetched, Alike
    <3>2. CASE venue = "poloniexfutures"
      <4>1. PICK b \in quoted :
              f = [b EXCEPT !.type = "future", !.expiry = 0, !.contract = "linear",
                            !.settle = ""]
        BY <2>1, <3>2 DEF Norm!Fetched
      <4>2. PICK a \in quoted' : Alike(a, b)
        BY <1>6
      <4>3. a \in MarketType /\ b \in MarketType
        BY <1>5 DEF MarketsInv, MarketsListed, Listed
      <4> DEFINE g == [a EXCEPT !.type = "future", !.expiry = 0, !.contract = "linear",
                                !.settle = ""]
      <4>4. g \in Norm!Fetched(venue, quoted')
        BY <3>2 DEF Norm!Fetched
      <4>5. /\ g.name = f.name /\ g.base = f.base /\ g.quote = f.quote /\ g.type = f.type
            /\ g.settle = f.settle /\ g.expiry = f.expiry /\ g.contract = f.contract
        BY <4>1, <4>2, <4>3 DEF Alike, MarketType
      <4>6. QED
        BY <4>4, <4>5
    <3>3. QED
      BY <3>1, <3>2
  <2>3. ~Norm!SkipInstr(l, g)
    BY <2>1, <2>2 DEF Norm!SkipInstr
  <2>4. Norm!InstrCode(l, g) = Norm!InstrCode(l, f) /\ ~Norm!Dropped({}, g)
    BY <1>7, <2>2
       DEF Norm!InstrCode, Norm!Base, Norm!InstrType, Norm!ContractType, Norm!OfBitmex,
            Norm!Dropped
  <2>5. QED
    BY <1>1, <2>2, <2>3, <2>4 DEF Taken
<1>8. RowsFound'
  <2>1. ASSUME NEW r \in coded'
        PROVE  \E l \in Norm!Loaders(venue) : \E g \in Taken(l)' :
                 r.name = g.name /\ r.code = Norm!InstrCode(l, g) /\ ~Norm!Dropped({}, g)
    <3>1. PICK l \in Norm!Loaders(venue) : \E f \in Taken(l) :
                 r.name = f.name /\ r.code = Norm!InstrCode(l, f) /\ ~Norm!Dropped({}, f)
      BY <1>1 DEF MarketsInv, RowsFound
    <3>2. QED
      BY <1>7, <3>1
  <2>2. QED
    BY <1>1, <2>1 DEF MarketsInv, RowsFound
<1>9. RowsWritten'
  BY <1>1 DEF RowsWritten
<1>10. QED
  BY <1>1, <1>5, <1>8, <1>9 DEF MarketsInv

LEMMA MarketsStep ==
  ASSUME Norm!NormalizedCodesAssumption, MarketsInv, [Norm!Next]_(Norm!vars)
  PROVE  MarketsInv'
<1>1. CASE UNCHANGED Norm!vars
  <2>1. UNCHANGED <<venue, quoted, loader, fee_ids, coded, passes, moves, settled>>
    BY <1>1 DEF Norm!vars
  <2>2. MarketsListed'
    BY <2>1 DEF MarketsInv, MarketsListed
  <2>3. \A k : Taken(k)' = Taken(k)
    BY <2>1 DEF Taken, Norm!Fetched
  <2>4. \A r, k, n : RowSays(r, k, n)' <=> RowSays(r, k, n)
    BY <2>1 DEF RowSays
  <2>5. RowsFound'
    BY <2>1, <2>3 DEF MarketsInv, RowsFound
  <2>6. \A k, left : Through(k, left)' <=> Through(k, left)
    BY <2>1, <2>3, <2>4 DEF Through
  <2>7. Through(loader.loader, loader.todo)' <=> Through(loader.loader, loader.todo)
    BY <2>1, <2>3, <2>4 DEF Through
  <2>8. RowsWritten'
    BY <2>1, <2>3, <2>6, <2>7 DEF MarketsInv, RowsWritten
  <2>9. QED
    BY <2>1, <2>2, <2>5, <2>8 DEF MarketsInv
<1>2. QED
  BY <1>1, LoaderStarts, LoaderEnds, MarketWritten, MarketChanges DEF Norm!Next

LEMMA MarketsSafe == ASSUME MarketsInv PROVE Norm!RowsOfMarkets
<1>1. ASSUME NEW r \in coded, NEW s \in coded, r.name = s.name PROVE r = s
  <2>1. PICK l \in Norm!Loaders(venue) :
          \E m \in Taken(l) : r.name = m.name /\ r.code = Norm!InstrCode(l, m)
    BY DEF MarketsInv, RowsFound
  <2>2. PICK m \in Taken(l) : r.name = m.name /\ r.code = Norm!InstrCode(l, m)
    BY <2>1
  <2>3. PICK k \in Norm!Loaders(venue) :
          \E n \in Taken(k) : s.name = n.name /\ s.code = Norm!InstrCode(k, n)
    BY DEF MarketsInv, RowsFound
  <2>4. PICK n \in Taken(k) : s.name = n.name /\ s.code = Norm!InstrCode(k, n)
    BY <2>3
  <2>5. m = n
    BY <1>1, <2>2, <2>4, FetchedNames DEF Taken
  <2>6. k = l
    BY <2>5, OneTaker DEF Taken
  <2>7. QED
    BY <2>2, <2>4, <2>5, <2>6 DEF MarketsInv, RowsFound
<1>2. ASSUME NEW l \in settled, NEW m \in Taken(l)
      PROVE  Norm!Dropped({}, m) \/ \E r \in coded : RowSays(r, l, m)
  BY DEF MarketsInv, RowsWritten, Through
<1>3. QED
  BY <1>1, <1>2 DEF Norm!RowsOfMarkets, RowSays, Taken

\* The component is one of its own in the composition; what it starts in, before it, is only
\* chosen when it is the one that runs.
LEMMA ServicesKeepMarkets ==
  ASSUME ServicesAssumption, who = "markets" => MarketsInv, [ServicesNext]_services
  PROVE  (who = "markets" => MarketsInv)'
<1>1. Norm!NormalizedCodesAssumption /\ who' = who
  BY DEF ServicesAssumption, ServicesNext, services
<1>2. Norm!Next \/ UNCHANGED norm
  BY DEF ServicesNext, services
<1>3. [Norm!Next]_(Norm!vars)
  BY <1>2 DEF norm, Norm!vars
<1>4. QED
  BY <1>1, <1>3, MarketsStep

\* However loads of the same instruments overlap, fail and are cut: no row of another exchange
\* is disabled, and once none runs, what a whole load settled is active exactly when its
\* market is (base_loader.py).  Whatever the markets of a venue, and in whatever order its
\* loaders write them while the venue changes them: each market a whole load took has a row of
\* its own under its code, with its status and its fees, but for the tokens of one coin, and
\* none is stored for two exchanges (base_loader.py and the loaders of the exchanges).
THEOREM LoadsAlwaysAgree == ASSUME ServicesAssumption PROVE ServicesSpec => []LoadsAgree
<1> DEFINE Inv == CodesInv /\ (who = "markets" => MarketsInv)
<1>1. ServicesInit => Inv
  BY CodesInit, MarketsInit DEF ServicesInit, ServicesAssumption
<1>2. Inv /\ [ServicesNext]_services => Inv'
  BY ServicesKeepCodes, ServicesKeepMarkets
<1>3. Inv => LoadsAgree
  BY CodesSafe, MarketsSafe DEF ServicesAssumption, LoadsAgree
<1>4. QED
  BY <1>1, <1>2, <1>3, PTL DEF ServicesSpec

-----------------------------------------------------------------------------
(* The seeker of the targets                                                  *)
Following == [target : {-1, 0, 1}, size : Sizes \cup {0}, any : BOOLEAN]

\* A position is what was sent and what was not sent yet, or never will be.
Accounted == \A b \in Bases \ crossed : hash[b] = account[b] + unsent[b]

\* A position follows its target, or will once its order is counted in it.
OnTheWay ==
  \A b \in Bases \ crossed :
    Tgt!Follows(followed[b], IF seeker = "setting" /\ b \in todo THEN hash[b] + orders[b] ELSE hash[b])

\* The fifth read that fails ends the thread.
Retrying == seeker = "reading" => tries < 5

SeekerInv == Tgt!TypeOK /\ Retrying /\ followed \in [Bases -> Following] /\ Accounted /\ OnTheWay

\* A trade takes a position to its target's side, or flat where the size makes no lot.
LEMMA QtyFollows ==
  ASSUME Tgt!TargetSeekerAssumption, NEW target \in {-1, 0, 1}, NEW size \in Sizes, NEW q \in Int
  PROVE  /\ Tgt!Qty(target, size, q) \in Int
         /\ \/ Tgt!Side(q + Tgt!Qty(target, size, q)) = target
            \/ size = 0 /\ Tgt!Side(q + Tgt!Qty(target, size, q)) = 0
<1>1. Dust \in Nat /\ size \in Nat /\ (size = 0 \/ size > 2 * Dust)
  BY DEF Tgt!TargetSeekerAssumption
<1>2. /\ target = 1 => target * size = size
      /\ target = -1 => target * size = -size
  BY <1>1
<1>3. \A n \in Int : Tgt!Side(n) = IF n >= -Dust /\ n <= Dust THEN 0 ELSE IF n > 0 THEN 1 ELSE -1
  BY <1>1 DEF Tgt!Side, Tgt!Sign
<1>4. CASE target = 0
  BY <1>1, <1>3, <1>4 DEF Tgt!Qty
<1>5. CASE target = 1
  <2>1. Tgt!Qty(target, size, q) = IF Tgt!Side(q) = 0 THEN size ELSE IF Tgt!Side(q) = -1 THEN size - q ELSE 0
    BY <1>2, <1>5 DEF Tgt!Qty
  <2>2. QED
    BY <1>1, <1>3, <1>5, <2>1
<1>6. CASE target = -1
  <2>1. Tgt!Qty(target, size, q) = IF Tgt!Side(q) = 0 THEN -size ELSE IF Tgt!Side(q) = 1 THEN -size - q ELSE 0
    BY <1>2, <1>6 DEF Tgt!Qty
  <2>2. QED
    BY <1>1, <1>3, <1>6, <2>1
<1>7. QED
  BY <1>4, <1>5, <1>6

LEMMA SeekerInit ==
  ASSUME Tgt!TargetSeekerAssumption, Tgt!Init
  PROVE  SeekerInv
<1>1. PICK t \in Targets : file = [stamp |-> 1, targets |-> t]
  BY DEF Tgt!Init
<1>2. file \in Tgt!File /\ saving \in Tgt!File
  BY <1>1 DEF Tgt!Init, Tgt!File, Tgt!Empty, Tgt!TargetSeekerAssumption
<1>3. /\ memory \in [Bases -> Int] /\ hash \in [Bases -> Int] /\ account \in [Bases -> Int]
      /\ orders \in [Bases -> Int] /\ unsent \in [Bases -> Int]
  <2>1. memory \in [Bases -> Held] /\ Held \subseteq Int /\ hash = memory /\ account = memory
    BY DEF Tgt!Init, Tgt!TargetSeekerAssumption
  <2>2. Tgt!None \in [Bases -> Int]
    BY DEF Tgt!None
  <2>3. orders = Tgt!None /\ unsent = Tgt!None
    BY DEF Tgt!Init
  <2>4. QED
    BY <2>1, <2>2, <2>3
<1>4. echo \in [Bases -> Seq(Int)]
  BY EmptySeq DEF Tgt!Init
<1>5. Tgt!TypeOK
  <2>1. hour \in 1..MaxHour /\ lastStamp \in 0..MaxHour /\ crashes \in 0..MaxCrashes
        /\ tries \in 0..5
    BY DEF Tgt!Init, Tgt!TargetSeekerAssumption
  <2>2. QED
    BY <1>2, <1>3, <1>4, <2>1 DEF Tgt!Init, Tgt!TypeOK
<1>6. followed \in [Bases -> Following]
  BY DEF Tgt!Init, Tgt!Nothing, Following
<1>7. Accounted
  BY <1>3 DEF Tgt!Init, Accounted, Tgt!None
<1>8. OnTheWay
  BY DEF Tgt!Init, OnTheWay, Tgt!Nothing, Tgt!Follows
<1>9. QED
  BY <1>5, <1>6, <1>7, <1>8 DEF SeekerInv, Tgt!Init, Retrying

\* The steps that change no position and no target followed
LEMMA SeekerIdles ==
  ASSUME Tgt!TargetSeekerAssumption, SeekerInv,
         \/ Tgt!Tick \/ Tgt!DumpTargets \/ Tgt!Touch \/ (\E t \in Targets : Tgt!SaveTargets(t))
         \/ Tgt!WaitAllOrderbooks \/ Tgt!OnModified \/ Tgt!GetTargetsFails \/ Tgt!SkipTargets \/ Tgt!Restart
         \/ UNCHANGED Tgt!vars
  PROVE  SeekerInv'
<1> USE DEF Tgt!TargetSeekerAssumption
<1>1. /\ UNCHANGED <<orders, todo, hash, account, unsent, crossed, followed, listed, crashes, echo>>
      /\ (seeker # "setting" /\ seeker' # "setting") \/ seeker' = seeker
  BY DEF Tgt!Tick, Tgt!DumpTargets, Tgt!Touch, Tgt!SaveTargets, Tgt!WaitAllOrderbooks,
     Tgt!OnModified, Tgt!GetTargetsFails,
         Tgt!SkipTargets, Tgt!Restart, Tgt!vars, Tgt!file_vars, Tgt!thread, Tgt!positions,
         Tgt!history
<1>2. followed' \in [Bases -> Following] /\ Accounted' /\ OnTheWay'
  BY <1>1 DEF SeekerInv, Accounted, OnTheWay, Tgt!Follows
<1>3. ASSUME Tgt!Tick
      PROVE  Tgt!TypeOK'
  BY <1>3 DEF Tgt!Tick, SeekerInv, Tgt!TypeOK, Tgt!thread, Tgt!positions, Tgt!history
<1>4. ASSUME Tgt!DumpTargets
      PROVE  Tgt!TypeOK'
  BY <1>4 DEF Tgt!DumpTargets, SeekerInv, Tgt!TypeOK, Tgt!File, Tgt!Empty, Tgt!thread,
     Tgt!positions, Tgt!history
<1>5. ASSUME Tgt!Touch
      PROVE  Tgt!TypeOK'
  BY <1>5 DEF Tgt!Touch, SeekerInv, Tgt!TypeOK, Tgt!file_vars, Tgt!thread, Tgt!positions,
     Tgt!history
<1>6. ASSUME NEW t \in Targets, Tgt!SaveTargets(t)
      PROVE  Tgt!TypeOK'
  <2>1. saving' \in Tgt!File /\ file' \in Tgt!File
    BY <1>6 DEF Tgt!SaveTargets, SeekerInv, Tgt!TypeOK, Tgt!File, Tgt!Empty
  <2>2. QED
    BY <2>1, <1>6 DEF Tgt!SaveTargets, SeekerInv, Tgt!TypeOK, Tgt!thread, Tgt!positions,
       Tgt!history
<1>7. ASSUME Tgt!WaitAllOrderbooks
      PROVE  Tgt!TypeOK'
  BY <1>7 DEF Tgt!WaitAllOrderbooks, SeekerInv, Tgt!TypeOK, Tgt!file_vars, Tgt!positions,
     Tgt!history
<1>8. ASSUME Tgt!OnModified
      PROVE  Tgt!TypeOK'
  <2>1. tries' = 0 /\ 0 \in 0..5 /\ seeker' = "reading" /\ modified' = FALSE
    BY <1>8 DEF Tgt!OnModified
  <2>2. QED
    BY <2>1, <1>8 DEF Tgt!OnModified, SeekerInv, Tgt!TypeOK, Tgt!file_vars, Tgt!positions,
       Tgt!history
<1>9. ASSUME Tgt!GetTargetsFails
      PROVE  Tgt!TypeOK'
  <2>1. tries' \in 0..5
    BY <1>9 DEF Tgt!GetTargetsFails, SeekerInv, Tgt!TypeOK, Retrying
  <2>2. QED
    BY <2>1, <1>9 DEF Tgt!GetTargetsFails, SeekerInv, Tgt!TypeOK, Tgt!file_vars, Tgt!positions,
       Tgt!history
<1>10. ASSUME Tgt!SkipTargets
      PROVE  Tgt!TypeOK'
  BY <1>10 DEF Tgt!SkipTargets, SeekerInv, Tgt!TypeOK, Tgt!file_vars, Tgt!positions, Tgt!history
<1>11. ASSUME Tgt!Restart
      PROVE  Tgt!TypeOK'
  <2>1. tries' = 0 /\ 0 \in 0..5 /\ lastStamp' = 0 /\ 0 \in 0..MaxHour /\ memory' = hash
    BY <1>11 DEF Tgt!Restart
  <2>2. QED
    BY <2>1, <1>11 DEF Tgt!Restart, SeekerInv, Tgt!TypeOK, Tgt!file_vars, Tgt!positions,
       Tgt!history
<1>12. ASSUME UNCHANGED Tgt!vars
      PROVE  Tgt!TypeOK'
  BY <1>12 DEF Tgt!vars, SeekerInv, Tgt!TypeOK, Tgt!file_vars, Tgt!thread, Tgt!positions,
     Tgt!history
<1>13. Retrying'
  <2>1. CASE Tgt!Tick \/ Tgt!DumpTargets \/ Tgt!Touch \/ (\E t \in Targets : Tgt!SaveTargets(t))
               \/ Tgt!WaitAllOrderbooks \/ UNCHANGED Tgt!vars
    BY <2>1 DEF Tgt!Tick, Tgt!DumpTargets, Tgt!Touch, Tgt!SaveTargets, Tgt!WaitAllOrderbooks,
       Tgt!vars, Tgt!thread, SeekerInv,
                Retrying
  <2>2. CASE Tgt!OnModified \/ Tgt!SkipTargets \/ Tgt!Restart
    BY <2>2 DEF Tgt!OnModified, Tgt!SkipTargets, Tgt!Restart, Retrying
  <2>3. CASE Tgt!GetTargetsFails
    BY <2>3 DEF Tgt!GetTargetsFails, Retrying, SeekerInv, Tgt!TypeOK
  <2>4. QED
    BY <2>1, <2>2, <2>3
<1>14. QED
  BY <1>2, <1>3, <1>4, <1>5, <1>6, <1>7, <1>8, <1>9, <1>10, <1>11, <1>12, <1>13 DEF SeekerInv

\* The orders are built on the position that is stored, or the base is crossed.
LEMMA SeekerBuilds ==
  ASSUME Tgt!TargetSeekerAssumption, SeekerInv, Tgt!BuildOrders
  PROVE  SeekerInv'
<1>1. PICK size \in [Bases -> Sizes] :
        /\ orders' = [b \in Bases |-> Tgt!Qty(file.targets[b], size[b], memory[b])]
        /\ followed' = [b \in Bases |-> [target |-> file.targets[b], size |-> size[b],
                                         any |-> FALSE]]
  BY DEF Tgt!BuildOrders
<1>2. /\ seeker = "reading" /\ seeker' = "setting" /\ lastStamp' = file.stamp
      /\ todo' = {b \in Bases : orders'[b] # 0}
      /\ crossed' = crossed \cup {b \in Bases : memory[b] # hash[b]}
      /\ UNCHANGED <<Tgt!file_vars, modified, tries, obReady, Tgt!positions, account, listed, crashes, unsent>>
  BY DEF Tgt!BuildOrders
<1>3. file \in Tgt!File /\ memory \in [Bases -> Int] /\ hash \in [Bases -> Int]
  BY DEF SeekerInv, Tgt!TypeOK
<1>4. ASSUME NEW b \in Bases
      PROVE  /\ file.targets[b] \in {-1, 0, 1} /\ size[b] \in Sizes /\ memory[b] \in Int
             /\ orders'[b] = Tgt!Qty(file.targets[b], size[b], memory[b]) /\ orders'[b] \in Int
             /\ Tgt!Follows(followed'[b], memory[b] + orders'[b])
  <2>1. file.targets[b] \in {-1, 0, 1} /\ size[b] \in Sizes /\ memory[b] \in Int
        /\ orders'[b] = Tgt!Qty(file.targets[b], size[b], memory[b])
    BY <1>1, <1>3 DEF Tgt!File
  <2>2. /\ orders'[b] \in Int
        /\ \/ Tgt!Side(memory[b] + orders'[b]) = file.targets[b]
           \/ size[b] = 0 /\ Tgt!Side(memory[b] + orders'[b]) = 0
    BY <2>1, QtyFollows
  <2>3. followed'[b].target = file.targets[b] /\ followed'[b].size = size[b]
    BY <1>1
  <2>4. QED
    BY <2>1, <2>2, <2>3 DEF Tgt!Follows
<1>5. Tgt!TypeOK'
  <2>1. orders' \in [Bases -> Int]
    BY <1>1, <1>4
  <2>2. QED
    BY <1>2, <2>1 DEF SeekerInv, Tgt!TypeOK, Tgt!File, Tgt!file_vars, Tgt!positions
<1>6. followed' \in [Bases -> Following]
  BY <1>1, <1>4 DEF Following
<1>7. Accounted'
  BY <1>2 DEF SeekerInv, Accounted, Tgt!positions
<1>8. OnTheWay'
  <2> SUFFICES ASSUME NEW b \in Bases \ crossed'
               PROVE  Tgt!Follows(followed'[b], IF b \in todo' THEN hash'[b] + orders'[b] ELSE hash'[b])
    BY <1>2 DEF OnTheWay, Tgt!Follows
  <2>1. memory[b] = hash[b] /\ hash'[b] = hash[b] /\ hash[b] \in Int
    BY <1>2, <1>3 DEF Tgt!positions
  <2>2. CASE b \in todo'
    BY <1>4, <2>1, <2>2
  <2>3. CASE b \notin todo'
    <3>1. orders'[b] = 0 /\ memory[b] + orders'[b] = hash[b]
      BY <1>2, <2>1, <2>3
    <3>2. QED
      BY <1>4, <2>1, <2>3, <3>1
  <2>4. QED
    BY <2>2, <2>3
<1>9. QED
  BY <1>2, <1>5, <1>6, <1>7, <1>8 DEF SeekerInv, Retrying

LEMMA SeekerSets ==
  ASSUME Tgt!TargetSeekerAssumption, SeekerInv, NEW b \in Bases, Tgt!SetPosition(b)
  PROVE  SeekerInv'
<1>1. /\ seeker = "setting" /\ b \in todo
      /\ memory' = [memory EXCEPT ![b] = @ + orders[b]]
      /\ hash' = [hash EXCEPT ![b] = memory'[b]]
      /\ echo' = [echo EXCEPT ![b] = Append(@, memory'[b])]
      /\ todo' = todo \ {b}
      /\ unsent' = [unsent EXCEPT ![b] = @ + orders[b]]
      /\ crossed' = IF memory[b] # hash[b] THEN crossed \cup {b} ELSE crossed
      /\ UNCHANGED <<Tgt!file_vars, modified, seeker, tries, obReady, lastStamp, orders, account, listed,
                     crashes, followed>>
  BY DEF Tgt!SetPosition
<1>2. /\ memory \in [Bases -> Int] /\ hash \in [Bases -> Int] /\ unsent \in [Bases -> Int]
      /\ account \in [Bases -> Int] /\ orders \in [Bases -> Int] /\ echo \in [Bases -> Seq(Int)]
  BY DEF SeekerInv, Tgt!TypeOK
<1>3. /\ memory' \in [Bases -> Int] /\ memory'[b] = memory[b] + orders[b] /\ memory'[b] \in Int
      /\ hash' \in [Bases -> Int] /\ hash'[b] = memory'[b]
      /\ unsent' \in [Bases -> Int] /\ unsent'[b] = unsent[b] + orders[b]
      /\ \A a \in Bases \ {b} : hash'[a] = hash[a] /\ unsent'[a] = unsent[a]
  BY <1>1, <1>2
<1>4. echo' \in [Bases -> Seq(Int)]
  BY <1>1, <1>2, <1>3
<1>5. Tgt!TypeOK'
  BY <1>1, <1>3, <1>4 DEF SeekerInv, Tgt!TypeOK, Tgt!file_vars
<1>6. \A a \in Bases \ crossed' : a \notin crossed /\ (a = b => memory[b] = hash[b])
  BY <1>1
<1>7. Accounted'
  BY <1>1, <1>2, <1>3, <1>6 DEF SeekerInv, Accounted
<1>8. OnTheWay'
  <2> SUFFICES ASSUME NEW a \in Bases \ crossed'
               PROVE  Tgt!Follows(followed[a], IF a \in todo' THEN hash'[a] + orders[a] ELSE hash'[a])
    BY <1>1 DEF OnTheWay, Tgt!Follows
  <2>1. Tgt!Follows(followed[a], IF a \in todo THEN hash[a] + orders[a] ELSE hash[a])
    BY <1>1, <1>6 DEF SeekerInv, OnTheWay
  <2>2. CASE a = b
    BY <1>1, <1>2, <1>3, <1>6, <2>1, <2>2
  <2>3. CASE a # b
    BY <1>1, <1>3, <2>1, <2>3
  <2>4. QED
    BY <2>2, <2>3
<1>9. QED
  BY <1>1, <1>5, <1>7, <1>8 DEF SeekerInv, Retrying

LEMMA SeekerSends ==
  ASSUME Tgt!TargetSeekerAssumption, SeekerInv,
         Tgt!StartSending \/ Tgt!Finish \/ \E b \in Bases : Tgt!SendOrder(b) \/ Tgt!OnPositionEvent(b)
  PROVE  SeekerInv'
<1>0. /\ memory \in [Bases -> Int] /\ hash \in [Bases -> Int] /\ unsent \in [Bases -> Int]
      /\ account \in [Bases -> Int] /\ orders \in [Bases -> Int] /\ echo \in [Bases -> Seq(Int)]
  BY DEF SeekerInv, Tgt!TypeOK
<1>1. CASE Tgt!StartSending
  <2>1. Tgt!TypeOK' /\ followed' \in [Bases -> Following] /\ Accounted'
    BY <1>1 DEF Tgt!StartSending, SeekerInv, Tgt!TypeOK, Accounted, Tgt!file_vars,
       Tgt!positions, Tgt!history
  <2>2. OnTheWay'
    BY <1>1 DEF Tgt!StartSending, SeekerInv, OnTheWay, Tgt!positions, Tgt!history, Tgt!Follows
  <2>3. QED
    BY <1>1, <2>1, <2>2 DEF SeekerInv, Tgt!StartSending, Retrying
<1>2. CASE Tgt!Finish
  <2>1. Tgt!TypeOK' /\ followed' \in [Bases -> Following] /\ Accounted'
    BY <1>2 DEF Tgt!Finish, SeekerInv, Tgt!TypeOK, Accounted, Tgt!file_vars, Tgt!positions,
       Tgt!history, Tgt!None
  <2>2. OnTheWay'
    BY <1>2 DEF Tgt!Finish, SeekerInv, OnTheWay, Tgt!positions, Tgt!history, Tgt!Follows
  <2>3. QED
    BY <1>2, <2>1, <2>2 DEF SeekerInv, Tgt!Finish, Retrying
<1>3. ASSUME NEW b \in Bases, Tgt!SendOrder(b)
      PROVE  SeekerInv'
  <2>1. /\ account' = [account EXCEPT ![b] = @ + orders[b]] /\ unsent' = [unsent EXCEPT ![b] = @ - orders[b]]
        /\ seeker = "sending" /\ UNCHANGED <<seeker, crossed, followed, Tgt!positions>>
    BY <1>3 DEF Tgt!SendOrder
  <2>2. /\ account' \in [Bases -> Int] /\ unsent' \in [Bases -> Int]
        /\ \A a \in Bases : account'[a] + unsent'[a] = account[a] + unsent[a]
    BY <1>0, <2>1
  <2>3. Tgt!TypeOK'
    BY <1>3, <2>2 DEF Tgt!SendOrder, SeekerInv, Tgt!TypeOK, Tgt!file_vars, Tgt!positions
  <2>4. Accounted'
    BY <2>1, <2>2 DEF SeekerInv, Accounted, Tgt!positions
  <2>5. OnTheWay'
    BY <2>1 DEF SeekerInv, OnTheWay, Tgt!positions, Tgt!Follows
  <2>6. QED
    BY <2>1, <2>3, <2>4, <2>5 DEF SeekerInv, Retrying
<1>4. ASSUME NEW b \in Bases, Tgt!OnPositionEvent(b)
      PROVE  SeekerInv'
  <2>1. /\ echo[b] # <<>> /\ memory' = [memory EXCEPT ![b] = Head(echo[b])]
        /\ echo' = [echo EXCEPT ![b] = Tail(echo[b])]
        /\ UNCHANGED <<Tgt!file_vars, modified, Tgt!thread, hash, account, listed, crashes, Tgt!history>>
    BY <1>4 DEF Tgt!OnPositionEvent
  <2>2. Head(echo[b]) \in Int /\ Tail(echo[b]) \in Seq(Int)
    BY <1>0, <2>1, HeadTailProperties
  <2>3. memory' \in [Bases -> Int] /\ echo' \in [Bases -> Seq(Int)]
    BY <1>0, <2>1, <2>2
  <2>4. Tgt!TypeOK'
    BY <2>1, <2>3 DEF SeekerInv, Tgt!TypeOK, Tgt!file_vars, Tgt!thread, Tgt!history
  <2>5. followed' \in [Bases -> Following] /\ Accounted' /\ OnTheWay'
    BY <2>1 DEF SeekerInv, Accounted, OnTheWay, Tgt!thread, Tgt!history, Tgt!Follows
  <2>6. QED
    BY <2>1, <2>4, <2>5 DEF SeekerInv, Retrying, Tgt!thread
<1>5. QED
  BY <1>1, <1>2, <1>3, <1>4

LEMMA SeekerCrashes ==
  ASSUME Tgt!TargetSeekerAssumption, SeekerInv, Tgt!Crash
  PROVE  SeekerInv'
<1>1. crashes' \in 0..MaxCrashes
  BY DEF Tgt!Crash, SeekerInv, Tgt!TypeOK, Tgt!TargetSeekerAssumption
<1>2. orders' \in [Bases -> Int] /\ echo' \in [Bases -> Seq(Int)]
  BY EmptySeq DEF Tgt!Crash, Tgt!None
<1>3. Tgt!TypeOK'
  BY <1>1, <1>2 DEF Tgt!Crash, SeekerInv, Tgt!TypeOK, Tgt!file_vars
<1>4. Tgt!Nothing \in [Bases -> Following] /\ \A b \in Bases : Tgt!Nothing[b].any
  BY DEF Tgt!Nothing, Following
<1>5. followed' \in [Bases -> Following]
  BY <1>4 DEF Tgt!Crash, SeekerInv
<1>6. Accounted'
  BY DEF Tgt!Crash, SeekerInv, Accounted
<1>7. OnTheWay'
  BY <1>4 DEF Tgt!Crash, SeekerInv, OnTheWay, Tgt!Follows
<1>8. QED
  BY <1>3, <1>5, <1>6, <1>7 DEF SeekerInv, Tgt!Crash, Retrying

LEMMA SeekerStep ==
  ASSUME Tgt!TargetSeekerAssumption, SeekerInv, [Tgt!Next]_(Tgt!vars)
  PROVE  SeekerInv'
  BY SeekerIdles, SeekerBuilds, SeekerSets, SeekerSends, SeekerCrashes DEF Tgt!Next

LEMMA SeekerSafe ==
  ASSUME SeekerInv
  PROVE  Tgt!FollowsTargets
  BY DEF SeekerInv, Accounted, OnTheWay, Tgt!FollowsTargets

\* The component is one of its own in the composition, and rests while another runs.
LEMMA ServicesKeepSeeker ==
  ASSUME ServicesAssumption, SeekerInv, [ServicesNext]_services
  PROVE  SeekerInv'
<1>1. Tgt!TargetSeekerAssumption
  BY DEF ServicesAssumption
<1>2. Tgt!Next \/ UNCHANGED tgt
  BY DEF ServicesNext, services
<1>3. [Tgt!Next]_(Tgt!vars)
  BY <1>2 DEF tgt, Tgt!vars, Tgt!file_vars, Tgt!thread,
     Tgt!positions, Tgt!history
<1>4. QED
  BY <1>1, <1>3, SeekerStep

\* The stored position of a base is what was sent for it and what a crash kept from being
\* sent, and between updates it has the side of the target last read: over any edits of the
\* file, retries, sizes that make no lot and restarts (target_seeker.py).
THEOREM SeekerFollows == ASSUME ServicesAssumption PROVE ServicesSpec => []FollowsTargets
<1>1. ServicesInit => SeekerInv
  BY SeekerInit DEF ServicesInit, ServicesAssumption
<1>2. SeekerInv /\ [ServicesNext]_services => SeekerInv'
  BY ServicesKeepSeeker
<1>3. SeekerInv => FollowsTargets
  BY SeekerSafe DEF ServicesAssumption, FollowsTargets
<1>4. QED
  BY <1>1, <1>2, <1>3, PTL DEF ServicesSpec

-----------------------------------------------------------------------------
(* The daemons                                                                *)
\* A set of naturals that is bounded, and not empty, has a greatest element.
LEMMA GreatestOfNat ==
  ASSUME NEW S \in SUBSET Nat, NEW n \in Nat, \A y \in S : y <= n, S # {}
  PROVE  \E x \in S : \A y \in S : y <= x
<1> DEFINE T == {m..n : m \in S}
<1>1. T \subseteq FiniteSubsetsOf(Nat) /\ T # {}
  <2>1. \A m \in Nat : IsFiniteSet(m..n) /\ m..n \in SUBSET Nat
    BY FS_Interval
  <2>2. QED
    BY <2>1 DEF FiniteSubsetsOf
<1>2. PICK t \in T : \A u \in T : <<u, t>> \notin StrictSubsetOrdering(Nat)
  <2> HIDE DEF T
  <2>1. QED
    BY <1>1, FS_StrictSubsetOrderingWellFounded, WFMin
<1>3. PICK x \in S : t = x..n
  BY <1>2
<1>4. ASSUME NEW y \in S, x < y PROVE FALSE
  <2>1. x \in x..n /\ x \notin y..n /\ y..n \subseteq x..n /\ x..n \subseteq Nat
    BY <1>4
  <2>2. <<y..n, x..n>> \in StrictSubsetOrdering(Nat)
    BY <2>1 DEF StrictSubsetOrdering
  <2>3. QED
    BY <1>2, <1>3, <2>2
<1>5. QED
  BY <1>4

\* What is counted in Daemons is counted here.
LEMMA SameCounts ==
  /\ \A S : Fh!Cardinality(S) = Cardinality(S)
  /\ \A S : Fh!IsFiniteSet(S) = IsFiniteSet(S)
<1>1. ASSUME NEW S PROVE Fh!Cardinality(S) = Cardinality(S)
  BY DEF Cardinality, Fh!Cardinality, IsFiniteSet, Fh!IsFiniteSet
<1>2. ASSUME NEW S PROVE Fh!IsFiniteSet(S) = IsFiniteSet(S)
  BY DEF IsFiniteSet, Fh!IsFiniteSet
<1>3. QED
  BY <1>1, <1>2

\* A set in some order has each of its elements at one place.
LEMMA SetInOrder ==
  ASSUME NEW S, IsFiniteSet(S)
  PROVE  /\ Fh!SetToSeq(S) \in [1..Cardinality(S) -> S]
         /\ Cardinality(S) \in Nat
         /\ Len(Fh!SetToSeq(S)) = Cardinality(S)
         /\ \A i, j \in 1..Cardinality(S) : Fh!SetToSeq(S)[i] = Fh!SetToSeq(S)[j] => i = j
         /\ \A x \in S : \E i \in 1..Cardinality(S) : Fh!SetToSeq(S)[i] = x
<1> DEFINE n == Cardinality(S)
<1>1. n \in Nat /\ ExistsBijection(1..n, S)
  BY FS_CardinalityType
<1>2. PICK f \in [1..n -> S] : \A i, j \in 1..n : f[i] = f[j] => i = j
  BY <1>1 DEF ExistsBijection, Bijection, Injection, Surjection, IsInjective
<1>3. PICK g \in [1..n -> S] : g = Fh!SetToSeq(S) /\ Fh!IsInjective(g)
  <2>1. Fh!SetToSeq(S) = CHOOSE h \in [1..n -> S] : Fh!IsInjective(h)
    BY SameCounts DEF Fh!SetToSeq
  <2>2. Fh!IsInjective(f)
    BY <1>2 DEF Fh!IsInjective
  <2>3. QED
    BY <2>1, <2>2
<1>4. \A i, j \in 1..n : g[i] = g[j] => i = j
  BY <1>3 DEF Fh!IsInjective
<1>5. IsFiniteSet(1..n) /\ Cardinality(1..n) = n
  BY <1>1, FS_Interval
<1>6. g \in Injection(1..n, S)
  BY <1>3, <1>4 DEF Injection, IsInjective
<1>7. g \in Surjection(1..n, S)
  BY <1>5, <1>6, FS_Injection
<1>8. QED
  BY <1>1, <1>3, <1>4, <1>7 DEF Surjection

-----------------------------------------------------------------------------
\* Where the k-th of n pieces of a list of m begins, the first of which are the longer ones
PieceStart(m, n, k) == (k - 1) * (m \div n) + (IF k - 1 < m % n THEN k - 1 ELSE m % n) + 1
Piece(m, n, k) == PieceStart(m, n, k)..PieceStart(m, n, k + 1) - 1

LEMMA PieceSizes ==
  ASSUME NEW m \in Nat, NEW n \in Nat \ {0}
  PROVE  /\ m \div n \in Nat /\ m % n \in Nat /\ m % n < n
         /\ n * (m \div n) + (m % n) = m
<1>1. m % n = m - n * (m \div n)
  OBVIOUS
<1>2. m \div n \in Nat /\ m % n \in Nat /\ m % n < n
  OBVIOUS
<1>3. n * (m \div n) \in Nat
  BY <1>2
<1>4. QED
  BY <1>1, <1>2, <1>3

LEMMA LaterPlaces ==
  ASSUME NEW j \in Nat, NEW k \in Nat, NEW s \in Nat, j <= k
  PROVE  j * s \in Nat /\ k * s \in Nat /\ j * s <= k * s
  OBVIOUS

LEMMA PiecesFollow ==
  ASSUME NEW m \in Nat, NEW n \in Nat \ {0}
  PROVE  /\ \A k \in 1..(n + 1) : PieceStart(m, n, k) \in Nat
         /\ \A j, k \in 1..(n + 1) : j <= k => PieceStart(m, n, j) <= PieceStart(m, n, k)
         /\ PieceStart(m, n, 1) = 1 /\ PieceStart(m, n, n + 1) = m + 1
<1> DEFINE s == m \div n
           r == m % n
           short(k) == IF k - 1 < r THEN k - 1 ELSE r
<1>1. s \in Nat /\ r \in Nat /\ r < n /\ n * s + r = m
  BY PieceSizes
<1>2. \A k : PieceStart(m, n, k) = (k - 1) * s + short(k) + 1
  BY DEF PieceStart
<1> HIDE DEF s, r
<1>3. ASSUME NEW k \in 1..(n + 1)
      PROVE  k - 1 \in Nat /\ (k - 1) * s \in Nat /\ short(k) \in Nat
  <2>1. k - 1 \in Nat
    OBVIOUS
  <2>2. QED
    BY <1>1, <2>1, LaterPlaces
<1>4. ASSUME NEW j \in 1..(n + 1), NEW k \in 1..(n + 1), j <= k
      PROVE  (j - 1) * s <= (k - 1) * s /\ short(j) <= short(k)
  <2>1. j - 1 \in Nat /\ k - 1 \in Nat /\ j - 1 <= k - 1
    BY <1>4
  <2>2. QED
    BY <1>1, <2>1, LaterPlaces
<1>5. PieceStart(m, n, 1) = 1
  <2>1. (1 - 1) * s = 0 /\ short(1) = 0
    BY <1>1
  <2>2. QED
    BY <1>2, <2>1
<1>6. PieceStart(m, n, n + 1) = m + 1
  <2>1. n + 1 - 1 = n /\ short(n + 1) = r /\ n * s \in Nat
    BY <1>1
  <2>2. PieceStart(m, n, n + 1) = n * s + r + 1
    BY <1>2, <2>1
  <2>3. QED
    BY <1>1, <2>2
<1> HIDE DEF short
<1>7. \A k \in 1..(n + 1) : PieceStart(m, n, k) \in Nat
  BY <1>2, <1>3
<1>8. ASSUME NEW j \in 1..(n + 1), NEW k \in 1..(n + 1), j <= k
      PROVE  PieceStart(m, n, j) <= PieceStart(m, n, k)
  <2> DEFINE a == (j - 1) * s
             b == (k - 1) * s
  <2>1. a \in Nat /\ b \in Nat /\ a <= b /\ short(j) \in Nat /\ short(k) \in Nat
        /\ short(j) <= short(k)
    BY <1>3, <1>4, <1>8
  <2>2. PieceStart(m, n, j) = a + short(j) + 1 /\ PieceStart(m, n, k) = b + short(k) + 1
    BY <1>2
  <2> HIDE DEF a, b
  <2>3. QED
    BY <2>1, <2>2
<1>9. QED
  BY <1>5, <1>6, <1>7, <1>8

\* Each place of the list is in one piece.
LEMMA OnePiece ==
  ASSUME NEW m \in Nat, NEW n \in Nat \ {0}
  PROVE  /\ \A i \in 1..m : \E k \in 1..n : i \in Piece(m, n, k)
         /\ \A k \in 1..n : Piece(m, n, k) \subseteq 1..m
         /\ \A j, k \in 1..n : j # k => Piece(m, n, j) \cap Piece(m, n, k) = {}
<1>1. /\ \A k \in 1..(n + 1) : PieceStart(m, n, k) \in Nat
      /\ \A j, k \in 1..(n + 1) : j <= k => PieceStart(m, n, j) <= PieceStart(m, n, k)
      /\ PieceStart(m, n, 1) = 1 /\ PieceStart(m, n, n + 1) = m + 1
  BY PiecesFollow
<1>2. ASSUME NEW i \in 1..m PROVE \E k \in 1..n : i \in Piece(m, n, k)
  <2> DEFINE B == {k \in 1..n : PieceStart(m, n, k) <= i}
  <2>1. B \in SUBSET Nat /\ B # {} /\ \A k \in B : k <= n
    BY <1>1
  <2>2. PICK x \in B : \A k \in B : k <= x
    <3> HIDE DEF B
    <3>1. QED
      BY <2>1, GreatestOfNat
  <2>3. PICK k \in 1..n : /\ PieceStart(m, n, k) <= i
                         /\ \A l \in 1..n : PieceStart(m, n, l) <= i => l <= k
    BY <2>2
  <2>4. i < PieceStart(m, n, k + 1)
    <3>1. CASE k = n
      BY <1>1, <3>1
    <3>2. CASE k # n
      <4>1. k + 1 \in 1..n /\ ~(k + 1 <= k)
        BY <3>2
      <4>2. PieceStart(m, n, k + 1) \in Nat
        BY <1>1
      <4>3. QED
        BY <2>3, <4>1, <4>2
    <3>3. QED
      BY <3>1, <3>2
  <2>5. PieceStart(m, n, k) \in Nat /\ PieceStart(m, n, k + 1) \in Nat
    BY <1>1
  <2>6. QED
    BY <2>3, <2>4, <2>5 DEF Piece
<1>3. ASSUME NEW k \in 1..n PROVE Piece(m, n, k) \subseteq 1..m
  <2>1. /\ PieceStart(m, n, k) \in Nat /\ PieceStart(m, n, k + 1) \in Nat
        /\ 1 <= PieceStart(m, n, k) /\ PieceStart(m, n, k + 1) <= m + 1
    <3>1. k \in 1..(n + 1) /\ k + 1 \in 1..(n + 1) /\ 1 \in 1..(n + 1) /\ n + 1 \in 1..(n + 1)
      OBVIOUS
    <3>2. QED
      BY <1>1, <3>1
  <2>2. QED
    BY <2>1 DEF Piece
<1>4. ASSUME NEW j \in 1..n, NEW k \in 1..n, j < k
      PROVE  Piece(m, n, j) \cap Piece(m, n, k) = {}
  <2>1. /\ PieceStart(m, n, k) \in Nat /\ PieceStart(m, n, j + 1) \in Nat
        /\ PieceStart(m, n, j + 1) <= PieceStart(m, n, k)
    <3>1. k \in 1..(n + 1) /\ j + 1 \in 1..(n + 1) /\ j + 1 <= k
      BY <1>4
    <3>2. QED
      BY <1>1, <3>1
  <2>2. ASSUME NEW i \in Piece(m, n, j), i \in Piece(m, n, k) PROVE FALSE
    <3>1. i \in Int /\ i <= PieceStart(m, n, j + 1) - 1 /\ PieceStart(m, n, k) <= i
      BY <2>2 DEF Piece
    <3>2. QED
      BY <2>1, <3>1
  <2>3. QED
    BY <2>2
<1>5. ASSUME NEW j \in 1..n, NEW k \in 1..n, j # k
      PROVE  Piece(m, n, j) \cap Piece(m, n, k) = {}
  <2>1. j < k \/ k < j
    BY <1>5
  <2>2. QED
    BY <1>4, <2>1
<1>6. QED
  BY <1>2, <1>3, <1>5

\* Every instrument is given to one feed.
LEMMA GroupsOfIds ==
  ASSUME Fh!DaemonsAssumption, NEW chans, IsFiniteSet(chans), NEW ids, IsFiniteSet(ids)
  PROVE  /\ \A i \in ids : \E g \in Fh!InstrIdGroups(chans, ids) : i \in g
         /\ \A g \in Fh!InstrIdGroups(chans, ids) : g \subseteq ids
         /\ \A g, h \in Fh!InstrIdGroups(chans, ids) : g # h => g \cap h = {}
<1> DEFINE list == Fh!SetToSeq(ids)
           m == Cardinality(ids)
           n == (Cardinality(chans) * Cardinality(ids)) \div MaxPerHandler + 1
           piece(k) == {list[j] : j \in Piece(m, n, k)}
<1>1. /\ list \in [1..m -> ids] /\ m \in Nat /\ Len(list) = m
      /\ \A i, j \in 1..m : list[i] = list[j] => i = j
      /\ \A x \in ids : \E i \in 1..m : list[i] = x
  BY SetInOrder
<1>2. n \in Nat \ {0}
  <2>1. Cardinality(chans) \in Nat /\ MaxPerHandler \in Nat \ {0}
    BY FS_CardinalityType DEF Fh!DaemonsAssumption
  <2>2. Cardinality(chans) * m \in Nat
    BY <1>1, <2>1
  <2>3. (Cardinality(chans) * m) \div MaxPerHandler \in Nat
    BY <2>1, <2>2, PieceSizes
  <2>4. QED
    BY <2>3
<1>3. Fh!InstrIdGroups(chans, ids) = {piece(k) : k \in 1..n}
  BY <1>1, SameCounts DEF Fh!InstrIdGroups, Piece, PieceStart
<1> HIDE DEF list, m, n
<1>4. /\ \A i \in 1..m : \E k \in 1..n : i \in Piece(m, n, k)
      /\ \A k \in 1..n : Piece(m, n, k) \subseteq 1..m
      /\ \A j, k \in 1..n : j # k => Piece(m, n, j) \cap Piece(m, n, k) = {}
  BY <1>1, <1>2, OnePiece
<1>5. ASSUME NEW x \in ids PROVE \E g \in Fh!InstrIdGroups(chans, ids) : x \in g
  <2>1. PICK i \in 1..m : list[i] = x
    BY <1>1
  <2>2. PICK k \in 1..n : i \in Piece(m, n, k)
    BY <1>4
  <2>3. x \in piece(k)
    BY <2>1, <2>2
  <2>4. QED
    BY <1>3, <2>3
<1>6. ASSUME NEW k \in 1..n PROVE piece(k) \subseteq ids
  <2>1. Piece(m, n, k) \subseteq 1..m
    BY <1>4
  <2>2. QED
    BY <1>1, <2>1
<1>7. ASSUME NEW j \in 1..n, NEW k \in 1..n, piece(j) # piece(k)
      PROVE  piece(j) \cap piece(k) = {}
  <2>1. j # k
    BY <1>7
  <2>2. /\ Piece(m, n, j) \subseteq 1..m /\ Piece(m, n, k) \subseteq 1..m
        /\ Piece(m, n, j) \cap Piece(m, n, k) = {}
    BY <1>4, <2>1
  <2>3. ASSUME NEW x, x \in piece(j), x \in piece(k) PROVE FALSE
    <3>1. PICK a \in Piece(m, n, j) : list[a] = x
      BY <2>3
    <3>2. PICK b \in Piece(m, n, k) : list[b] = x
      BY <2>3
    <3>3. a = b
      BY <1>1, <2>2, <3>1, <3>2
    <3>4. QED
      BY <2>2, <3>3
  <2>4. QED
    BY <2>3
<1> HIDE DEF piece
<1>8. QED
  BY <1>3, <1>5, <1>6, <1>7

-----------------------------------------------------------------------------
\* The channels of a process are one group, ...
IsGroup(cs) ==
  \/ cs = Private \/ cs = {Trades, Liquidations}
  \/ \E c : c \notin Private /\ c # Trades /\ cs = {c}

\* ... of an exchange that is clear no group of a command is part of another, and of one that
\* is not the liquidations have a group beside that of the trades, ...
Apart(work, clear) ==
  /\ \A v, w \in work : v[1] = w[1] /\ v[2] \subseteq w[2] =>
       v = w \/ (w[1] \notin clear /\ w[2] = {Trades, Liquidations})
  /\ \A w \in work : w[1] \notin clear => <<w[1], {Liquidations}>> \in work

\* ... and of a command for APIs none has the code of a clear exchange begin with its own.
ApartApis(work, clear) ==
  \A v, w \in work : v[2] = {} /\ (w[1] \in clear /\ w[1] \in Longer[v[1]] => w[1] = v[1])

FeedFor(w, i) ==
  \E p \in feeds : p.nr = given /\ p.exchange = w[1] /\ p.chans = w[2] /\ i \in p.ids
ApiFor(w, i) == \E p \in apis : p.nr = given /\ p.exchange = w[1] /\ i \in p.ids

CommandTyped ==
  /\ active \subseteq Ids /\ command.ids \subseteq Ids
  /\ pending \subseteq command.asked
  /\ command.asked \subseteq Exchanges \X SUBSET Fh!Channels
  /\ command.kind \in {"none", "feeds", "stop_feeds", "apis", "stop_apis"}

\* What a command asks for does not undo itself, ...
CommandApart ==
  /\ command.kind \in {"feeds", "stop_feeds"} => \A w \in command.asked : IsGroup(w[2])
  /\ command.kind = "feeds" => Apart(command.asked, command.clear)
  /\ command.kind = "apis" => ApartApis(command.asked, command.clear)
  /\ pending # {} => (~unkilled => command.kill) /\ (~bereft => command.ids \subseteq active)

\* ... so that what it has done of it runs.
CommandDone ==
  ~bereft =>
    \A w \in command.asked \ pending, i \in command.ids : ExchangeOf[i] = w[1] =>
      /\ /\ command.kind = "feeds" /\ <<w[1], w[2] \subseteq Public>> \in Supported
         /\ w[1] \in command.clear \/ w[2] # {Trades, Liquidations}
         => FeedFor(w, i)
      /\ command.kind = "apis" /\ w[1] \in command.clear => ApiFor(w, i)

OneApi == \A p, q \in apis : p.exchange = q.exchange => p = q

Beside(p, q) == p.chans \cap q.chans \subseteq {Liquidations} \/ p.ids \cap q.ids = {}
FeedsBeside ==
  /\ \A p \in feeds : IsGroup(p.chans)
  /\ ~unkilled => \A p, q \in feeds : p # q /\ p.exchange = q.exchange => Beside(p, q)

DaemonsInv == CommandTyped /\ CommandApart /\ CommandDone /\ OneApi /\ FeedsBeside

LEMMA DaemonsInit == ASSUME Fh!DaemonsAssumption, Fh!Init PROVE DaemonsInv
<1>1. /\ active = Ids /\ feeds = {} /\ apis = {} /\ pending = {}
      /\ command.kind = "none" /\ command.ids = {} /\ command.asked = {}
  BY DEF Fh!Init, Fh!Idle, Fh!None
<1>2. QED
  BY <1>1 DEF DaemonsInv, CommandTyped, CommandApart, CommandDone, OneApi, FeedsBeside

\* The groups of some channels
LEMMA GroupIsOne == ASSUME NEW c PROVE IsGroup(Fh!GroupOf(c)) /\ c \in Fh!GroupOf(c)
<1>1. CASE c \in Private
  BY <1>1 DEF Fh!GroupOf, IsGroup
<1>2. CASE c \notin Private /\ c = Trades
  BY <1>2 DEF Fh!GroupOf, IsGroup
<1>3. CASE c \notin Private /\ c # Trades
  BY <1>3 DEF Fh!GroupOf, IsGroup
<1>4. QED
  BY <1>1, <1>2, <1>3

LEMMA GroupsApart ==
  ASSUME Fh!DaemonsAssumption, NEW c, NEW d, Fh!GroupOf(c) \subseteq Fh!GroupOf(d)
  PROVE  \/ Fh!GroupOf(c) = Fh!GroupOf(d)
         \/ c = Liquidations /\ d = Trades
<1>1. /\ Trades \in Public /\ Liquidations \in Public /\ Public \cap Private = {}
      /\ Trades \notin Private /\ Liquidations \notin Private
  BY DEF Fh!DaemonsAssumption
<1>2. c \in Fh!GroupOf(c) /\ c \in Fh!GroupOf(d)
  BY GroupIsOne
<1>3. CASE d \in Private
  <2>1. d # Trades
    BY <1>1, <1>3
  <2>2. Fh!GroupOf(d) = Private
    BY <1>3, <2>1 DEF Fh!GroupOf
  <2>3. c \in Private /\ c # Trades
    BY <1>1, <1>2, <2>2
  <2>4. Fh!GroupOf(c) = Private
    BY <2>3 DEF Fh!GroupOf
  <2>5. QED
    BY <2>2, <2>4
<1>4. CASE d = Trades
  <2>1. Fh!GroupOf(d) = {Trades, Liquidations}
    BY <1>1, <1>4 DEF Fh!GroupOf
  <2>2. QED
    BY <1>2, <1>4, <2>1
<1>5. CASE d \notin Private /\ d # Trades
  <2>1. Fh!GroupOf(d) = {d}
    BY <1>5 DEF Fh!GroupOf
  <2>2. QED
    BY <1>2, <2>1
<1>6. QED
  BY <1>3, <1>4, <1>5

GroupsAre(groups, stop, twice) ==
  /\ \A g \in groups : IsGroup(g) /\ g \subseteq Fh!Channels
  /\ ~stop => \A g, h \in groups : g \subseteq h =>
       g = h \/ (twice /\ h = {Trades, Liquidations})
  /\ ~stop /\ twice => {Liquidations} \in groups

LEMMA GroupsAsked ==
  ASSUME Fh!DaemonsAssumption, NEW chans \in SUBSET Fh!Channels, NEW modes,
         NEW stop \in BOOLEAN, NEW first \in BOOLEAN
  PROVE  GroupsAre(Fh!ChannelsGroups(chans, modes, stop, first), stop,
                   Fh!Twice(chans, modes, first))
<1> DEFINE named == IF stop /\ chans = {} /\ modes = {} THEN Fh!Channels
                    ELSE chans \cup Fh!OfModes(modes)
           twice == Fh!Twice(chans, modes, first)
           alone == Trades \notin named \/ stop \/ twice
           taken == IF alone THEN named ELSE named \ {Liquidations}
           groups == Fh!ChannelsGroups(chans, modes, stop, first)
<1>1. groups = {Fh!GroupOf(c) : c \in taken}
  BY DEF Fh!ChannelsGroups
<1>2. taken \subseteq Fh!Channels
  BY DEF Fh!OfModes, Fh!Channels
<1>3. ASSUME NEW c \in taken PROVE Fh!GroupOf(c) \subseteq Fh!Channels
  <2>1. c \in Fh!Channels
    BY <1>2
  <2>2. QED
    BY <2>1 DEF Fh!GroupOf, Fh!Channels, Fh!DaemonsAssumption
<1>4. ASSUME ~stop, ~twice
      PROVE  \/ ~ (Trades \in taken /\ Liquidations \in taken)
             \/ Trades = Liquidations
  BY <1>4
<1>5. ASSUME ~stop, twice
      PROVE  {Liquidations} \in groups
  <2>1. Liquidations \in taken
    BY <1>5 DEF Fh!Twice, Fh!OfModes, Fh!DaemonsAssumption
  <2>2. Fh!GroupOf(Liquidations) = {Liquidations}
    BY DEF Fh!GroupOf, Fh!DaemonsAssumption
  <2>3. QED
    BY <1>1, <2>1, <2>2
<1>6. Fh!GroupOf(Trades) = {Trades, Liquidations}
  BY DEF Fh!GroupOf, Fh!DaemonsAssumption
<1> HIDE DEF taken, groups, twice
<1>7. ASSUME ~stop, NEW c \in taken, NEW d \in taken, Fh!GroupOf(c) \subseteq Fh!GroupOf(d)
      PROVE  Fh!GroupOf(c) = Fh!GroupOf(d) \/ (twice /\ Fh!GroupOf(d) = {Trades, Liquidations})
  BY <1>4, <1>6, <1>7, GroupsApart
<1>8. /\ \A g \in groups : IsGroup(g) /\ g \subseteq Fh!Channels
      /\ ~stop => \A g, h \in groups : g \subseteq h =>
           g = h \/ (twice /\ h = {Trades, Liquidations})
  BY <1>1, <1>3, <1>7, GroupIsOne
<1>9. QED
  BY <1>5, <1>8 DEF groups, twice, GroupsAre

\* A command given
LEMMA CommandGiven ==
  ASSUME Fh!DaemonsAssumption, DaemonsInv, NEW verb, NEW ids, NEW kill, NEW first, NEW asked,
         NEW clear, Fh!Give(verb, ids, kill, first, asked, clear),
         verb \in {"feeds", "stop_feeds", "apis", "stop_apis"}, ids \subseteq active,
         asked \subseteq Exchanges \X SUBSET Fh!Channels,
         verb \in {"feeds", "stop_feeds"} => \A w \in asked : IsGroup(w[2]),
         verb = "feeds" => Apart(asked, clear),
         verb = "apis" => ApartApis(asked, clear),
         unkilled => unkilled', ~unkilled' => kill
  PROVE  DaemonsInv'
<1>1. /\ pending' = asked /\ UNCHANGED <<active, feeds, apis>>
      /\ command' = [kind |-> verb, ids |-> ids, kill |-> kill, first |-> first,
                     asked |-> asked, clear |-> clear]
  BY DEF Fh!Give
<1>2. /\ command'.kind = verb /\ command'.ids = ids /\ command'.kill = kill
      /\ command'.asked = asked /\ command'.clear = clear
  BY <1>1
<1>3. CommandTyped'
  BY <1>1, <1>2 DEF DaemonsInv, CommandTyped, Fh!Channels
<1>4. CommandApart'
  BY <1>1, <1>2 DEF CommandApart, Apart, ApartApis, IsGroup
<1>5. CommandDone'
  BY <1>1, <1>2 DEF CommandDone
<1>6. OneApi'
  BY <1>1 DEF DaemonsInv, OneApi
<1>7. FeedsBeside'
  BY <1>1 DEF DaemonsInv, FeedsBeside, IsGroup, Beside
<1>8. QED
  BY <1>3, <1>4, <1>5, <1>6, <1>7 DEF DaemonsInv

LEMMA ExchangesOf ==
  ASSUME Fh!DaemonsAssumption, DaemonsInv, NEW ids \in SUBSET active
  PROVE  {ExchangeOf[i] : i \in ids} \subseteq Exchanges
  BY DEF Fh!DaemonsAssumption, DaemonsInv, CommandTyped

FeedsWork(exchs, first, chans, modes) ==
  ({first} \X Fh!ChannelsGroups(chans, modes, FALSE, TRUE))
    \cup ((exchs \ {first}) \X Fh!ChannelsGroups(chans, modes, FALSE, FALSE))
FeedsClear(exchs, first, chans, modes) == {e \in exchs : ~Fh!Twice(chans, modes, e = first)}

LEMMA FeedsAsked ==
  ASSUME Fh!DaemonsAssumption, NEW exchs \in SUBSET Exchanges, NEW first \in exchs,
         NEW chans \in SUBSET Fh!Channels, NEW modes
  PROVE  /\ FeedsWork(exchs, first, chans, modes) \subseteq Exchanges \X SUBSET Fh!Channels
         /\ \A w \in FeedsWork(exchs, first, chans, modes) : IsGroup(w[2])
         /\ Apart(FeedsWork(exchs, first, chans, modes), FeedsClear(exchs, first, chans, modes))
<1> DEFINE one == Fh!ChannelsGroups(chans, modes, FALSE, TRUE)
           more == Fh!ChannelsGroups(chans, modes, FALSE, FALSE)
           asked == ({first} \X one) \cup ((exchs \ {first}) \X more)
           clear == FeedsClear(exchs, first, chans, modes)
           twiceone == Fh!Twice(chans, modes, TRUE)
           twicemore == Fh!Twice(chans, modes, FALSE)
           pair == {Trades, Liquidations}
<1>1. /\ \A g \in one \cup more : IsGroup(g) /\ g \subseteq Fh!Channels
      /\ \A g, h \in one : g \subseteq h => g = h \/ (twiceone /\ h = pair)
      /\ \A g, h \in more : g \subseteq h => g = h \/ (twicemore /\ h = pair)
      /\ twiceone => {Liquidations} \in one
      /\ twicemore => {Liquidations} \in more
  <2> DEFINE no == FALSE
             yes == TRUE
  <2>1. no \in BOOLEAN /\ yes \in BOOLEAN /\ ~no
    OBVIOUS
  <2>2. /\ one = Fh!ChannelsGroups(chans, modes, no, yes) /\ twiceone = Fh!Twice(chans, modes, yes)
        /\ more = Fh!ChannelsGroups(chans, modes, no, no) /\ twicemore = Fh!Twice(chans, modes, no)
    OBVIOUS
  <2> HIDE DEF no, yes, one, more, twiceone, twicemore
  <2>3. GroupsAre(one, no, twiceone)
    BY <2>1, <2>2, GroupsAsked
  <2>4. GroupsAre(more, no, twicemore)
    BY <2>1, <2>2, GroupsAsked
  <2>5. QED
    BY <2>1, <2>3, <2>4 DEF GroupsAre
<1>2. \A e \in exchs : e \notin clear => IF e = first THEN twiceone ELSE twicemore
  BY DEF Fh!Twice, FeedsClear
<1>3. clear \subseteq exchs /\ \A e \in clear : IF e = first THEN ~twiceone ELSE ~twicemore
  BY DEF Fh!Twice, FeedsClear
<1> HIDE DEF one, more, clear, twiceone, twicemore
<1>4. \A w \in asked : /\ w[1] \in exchs /\ w = <<w[1], w[2]>>
                       /\ IF w[1] = first THEN w[2] \in one ELSE w[2] \in more
  OBVIOUS
<1>5. \A e \in exchs : \A g : (IF e = first THEN g \in one ELSE g \in more) => <<e, g>> \in asked
  OBVIOUS
<1>6. asked \subseteq Exchanges \X SUBSET Fh!Channels /\ \A w \in asked : IsGroup(w[2])
  BY <1>1, <1>4
<1> HIDE DEF asked, pair
<1>7. ASSUME NEW v \in asked, NEW w \in asked, v[1] = w[1], v[2] \subseteq w[2], v # w
      PROVE  w[1] \notin clear /\ w[2] = pair
  <2>1. v[2] # w[2]
    BY <1>4, <1>7
  <2>2. CASE w[1] = first
    BY <1>1, <1>3, <1>4, <1>7, <2>1, <2>2
  <2>3. CASE w[1] # first
    BY <1>1, <1>3, <1>4, <1>7, <2>1, <2>3
  <2>4. QED
    BY <2>2, <2>3
<1>8. ASSUME NEW w \in asked, w[1] \notin clear
      PROVE  <<w[1], {Liquidations}>> \in asked
  BY <1>1, <1>2, <1>4, <1>5, <1>8
<1>9. Apart(asked, clear)
  BY <1>7, <1>8 DEF Apart, pair
<1>10. QED
  BY <1>6, <1>9 DEF asked, clear, one, more, FeedsWork

LEMMA FeedsStarted ==
  ASSUME Fh!DaemonsAssumption, DaemonsInv, NEW ids \in SUBSET active, NEW ask \in Asks,
         NEW no_kill \in BOOLEAN, Fh!StartFeeds(ids, ask[1], ask[2], no_kill)
  PROVE  DaemonsInv'
<1> DEFINE exchs == {ExchangeOf[i] : i \in ids}
           verb == "feeds"
           kill == ~no_kill
<1>1. PICK first \in exchs :
        Fh!Give(verb, ids, kill, first, FeedsWork(exchs, first, ask[1], ask[2]),
                FeedsClear(exchs, first, ask[1], ask[2]))
  BY DEF Fh!StartFeeds, FeedsWork, FeedsClear
<1>2. unkilled' = (unkilled \/ no_kill) /\ (~unkilled' => kill) /\ (unkilled => unkilled')
  BY DEF Fh!StartFeeds
<1>3. exchs \in SUBSET Exchanges /\ ask[1] \in SUBSET Fh!Channels
  BY ExchangesOf DEF Fh!DaemonsAssumption, Fh!Channels
<1>4. verb = "feeds" /\ verb # "apis" /\ verb \in {"feeds", "stop_feeds", "apis", "stop_apis"}
  OBVIOUS
<1> HIDE DEF exchs, verb, kill
<1> DEFINE asked == FeedsWork(exchs, first, ask[1], ask[2])
           clear == FeedsClear(exchs, first, ask[1], ask[2])
<1>5. /\ asked \subseteq Exchanges \X SUBSET Fh!Channels
      /\ \A w \in asked : IsGroup(w[2])
      /\ Apart(asked, clear)
  BY <1>3, FeedsAsked
<1>6. Fh!Give(verb, ids, kill, first, asked, clear)
  BY <1>1
<1> HIDE DEF asked, clear
<1>7. /\ verb \in {"feeds", "stop_feeds"} => \A w \in asked : IsGroup(w[2])
      /\ verb = "feeds" => Apart(asked, clear)
      /\ verb = "apis" => ApartApis(asked, clear)
  BY <1>4, <1>5
<1>8. ids \subseteq active
  OBVIOUS
<1>9. QED
  BY <1>2, <1>4, <1>5, <1>6, <1>7, <1>8, CommandGiven, Zenon

LEMMA FeedsStopped ==
  ASSUME Fh!DaemonsAssumption, DaemonsInv, NEW exchs \in SUBSET Exchanges, NEW ask \in Asks,
         Fh!StopFeeds(exchs, ask[1], ask[2])
  PROVE  DaemonsInv'
<1> DEFINE verb == "stop_feeds"
           none == {}
           yes == TRUE
           groups == Fh!ChannelsGroups(ask[1], ask[2], yes, yes)
           asked == exchs \X groups
<1>1. Fh!Give(verb, none, yes, Fh!None, asked, none) /\ UNCHANGED unkilled
  BY DEF Fh!StopFeeds
<1>2. ask[1] \in SUBSET Fh!Channels
  BY DEF Fh!DaemonsAssumption, Fh!Channels
<1>3. /\ none \subseteq active /\ yes \in BOOLEAN /\ yes
      /\ verb \in {"feeds", "stop_feeds"} /\ verb # "feeds" /\ verb # "apis"
  OBVIOUS
<1> HIDE DEF verb, none, yes
<1>4. \A g \in groups : IsGroup(g) /\ g \subseteq Fh!Channels
  <2> DEFINE twice == Fh!Twice(ask[1], ask[2], yes)
  <2> HIDE DEF groups, twice
  <2>1. GroupsAre(groups, yes, twice)
    BY <1>2, <1>3, GroupsAsked DEF groups, twice
  <2>2. QED
    BY <2>1 DEF GroupsAre
<1> HIDE DEF groups
<1>5. asked \subseteq Exchanges \X SUBSET Fh!Channels /\ \A w \in asked : IsGroup(w[2])
  BY <1>4
<1> HIDE DEF asked
<1>6. /\ verb \in {"feeds", "stop_feeds", "apis", "stop_apis"}
      /\ verb \in {"feeds", "stop_feeds"} => \A w \in asked : IsGroup(w[2])
      /\ verb = "feeds" => Apart(asked, none)
      /\ verb = "apis" => ApartApis(asked, none)
      /\ unkilled => unkilled'
      /\ ~unkilled' => yes
  BY <1>1, <1>3, <1>5
<1>7. QED
  BY <1>1, <1>3, <1>5, <1>6, CommandGiven, Zenon

LEMMA ApisStarted ==
  ASSUME Fh!DaemonsAssumption, DaemonsInv, NEW ids \in SUBSET active, Fh!StartApis(ids)
  PROVE  DaemonsInv'
<1> DEFINE exchs == {ExchangeOf[i] : i \in ids}
           asked == exchs \X {{}}
           clear == {e \in exchs : \A f \in exchs : e \in Longer[f] => f = e}
<1>1. Fh!Give("apis", ids, TRUE, Fh!None, asked, clear) /\ UNCHANGED unkilled
  BY DEF Fh!StartApis
<1>2. exchs \in SUBSET Exchanges
  BY ExchangesOf
<1> HIDE DEF exchs
<1>3. asked \subseteq Exchanges \X SUBSET Fh!Channels
  BY <1>2
<1>4. \A w \in asked : w[1] \in exchs /\ w[2] = {}
  OBVIOUS
<1>5. ApartApis(asked, clear)
  BY <1>4 DEF ApartApis
<1> HIDE DEF asked, clear
<1>6. QED
  BY <1>1, <1>3, <1>5, CommandGiven

LEMMA ApisStopped ==
  ASSUME Fh!DaemonsAssumption, DaemonsInv, NEW exchs \in SUBSET Exchanges, Fh!StopApis(exchs)
  PROVE  DaemonsInv'
<1> DEFINE verb == "stop_apis"
           asked == exchs \X {{}}
           none == {}
           yes == TRUE
<1>1. Fh!Give(verb, none, yes, Fh!None, asked, none) /\ UNCHANGED unkilled
  BY Zenon DEF Fh!StopApis
<1>2. asked \subseteq Exchanges \X SUBSET Fh!Channels
  OBVIOUS
<1>3. /\ none \subseteq active /\ yes
      /\ verb \in {"apis", "stop_apis"} /\ verb \notin {"feeds", "stop_feeds"}
      /\ verb # "apis"
  OBVIOUS
<1> HIDE DEF verb, asked, none, yes
<1>4. /\ verb \in {"feeds", "stop_feeds", "apis", "stop_apis"}
      /\ verb \in {"feeds", "stop_feeds"} => \A w \in asked : IsGroup(w[2])
      /\ verb = "feeds" => Apart(asked, none)
      /\ verb = "apis" => ApartApis(asked, none)
      /\ unkilled => unkilled'
      /\ ~unkilled' => yes
  BY <1>1, <1>3
<1>5. QED
  BY <1>1, <1>2, <1>3, <1>4, CommandGiven, Zenon

\* What a feed process is started with
LEMMA FeedStarts ==
  ASSUME NEW e, NEW chans, NEW ids, NEW p \in Fh!Feed(e, chans, ids)
  PROVE  p.nr = given /\ p.exchange = e /\ p.chans = chans /\ p.ids = ids \cap active
  BY DEF Fh!Feed

LEMMA FeedIsStarted ==
  ASSUME NEW e, NEW chans, NEW ids, NEW i \in ids, i \in active,
         <<e, chans \subseteq Public>> \in Supported
  PROVE  \E p \in Fh!Feed(e, chans, ids) : i \in p.ids
<1> DEFINE p == [nr |-> given, exchange |-> e, chans |-> chans, ids |-> ids \cap active]
<1>1. i \in p.ids
  OBVIOUS
<1>2. p \in Fh!Feed(e, chans, ids)
  BY <1>1 DEF Fh!Feed
<1>3. QED
  BY <1>1, <1>2

\* A new feed is beside all that its command did not kill, ...
LEMMA BesideOlder ==
  ASSUME Fh!DaemonsAssumption, NEW p, NEW q, IsGroup(p.chans), IsGroup(q.chans),
         ~ (p.chans \subseteq q.chans)
  PROVE  p.chans \cap q.chans \subseteq {Liquidations}
<1>1. Trades \notin Private /\ Liquidations \notin Private
  BY DEF Fh!DaemonsAssumption
<1>2. CASE p.chans = Private
  BY <1>1, <1>2 DEF IsGroup
<1>3. CASE p.chans = {Trades, Liquidations}
  BY <1>1, <1>3 DEF IsGroup
<1>4. CASE \E c : c \notin Private /\ c # Trades /\ p.chans = {c}
  BY <1>4
<1>5. QED
  BY <1>2, <1>3, <1>4 DEF IsGroup

LEMMA FeedsSpawned ==
  ASSUME Fh!DaemonsAssumption, DaemonsInv, NEW work \in pending,
         Fh!SpawnFeeds(work[1], work[2])
  PROVE  DaemonsInv'
<1> DEFINE e == work[1]
           chans == work[2]
           ids == {i \in command.ids : ExchangeOf[i] = e}
           spared == IF command.kill THEN feeds \ Fh!KilledFeeds(e, chans) ELSE feeds
           groups == Fh!InstrIdGroups(chans, ids)
           new == IF command.kind = "feeds" THEN UNION {Fh!Feed(e, chans, g) : g \in groups}
                  ELSE {}
<1>1. /\ command.kind \in {"feeds", "stop_feeds"}
      /\ pending' = pending \ {<<e, chans>>} /\ feeds' = spared \cup new
      /\ UNCHANGED <<active, apis, command, given, mishaps, unkilled, bereft>>
  BY DEF Fh!SpawnFeeds
<1>2. /\ CommandTyped /\ CommandApart /\ CommandDone /\ OneApi /\ FeedsBeside
  BY DEF DaemonsInv
<1>3. /\ work \in Exchanges \X SUBSET Fh!Channels /\ work = <<e, chans>>
      /\ work \in command.asked
  BY <1>2 DEF CommandTyped
<1>4. /\ \A i \in ids : \E g \in groups : i \in g
      /\ \A g \in groups : g \subseteq ids
      /\ \A g, h \in groups : g # h => g \cap h = {}
  <2>1. chans \subseteq Public \cup Private /\ ids \subseteq Ids
    BY <1>2, <1>3 DEF CommandTyped, Fh!Channels
  <2>2. IsFiniteSet(chans) /\ IsFiniteSet(ids)
    BY <2>1, SameCounts, FS_Subset DEF Fh!DaemonsAssumption
  <2> HIDE DEF chans, ids
  <2>3. QED
    BY <2>2, GroupsOfIds
<1>5. /\ IsGroup(chans)
      /\ (~unkilled => command.kill)
      /\ (~bereft => command.ids \subseteq active)
  BY <1>1, <1>2, <1>3 DEF CommandApart
<1> HIDE DEF groups
<1>6. \A p \in new : /\ p.nr = given /\ p.exchange = e /\ p.chans = chans
                     /\ \E g \in groups : p \in Fh!Feed(e, chans, g) /\ p.ids = g \cap active
  BY FeedStarts
<1>7. CommandTyped'
  BY <1>1, <1>2 DEF CommandTyped, Fh!Channels
<1>8. CommandApart'
  BY <1>1, <1>2 DEF CommandApart, Apart, ApartApis, IsGroup
<1>9. CommandDone'
  <2> SUFFICES ASSUME ~bereft, command.kind = "feeds",
                      NEW w \in command.asked \ pending', NEW i \in command.ids,
                      ExchangeOf[i] = w[1], <<w[1], w[2] \subseteq Public>> \in Supported,
                      w[1] \in command.clear \/ w[2] # {Trades, Liquidations}
               PROVE  FeedFor(w, i)'
    BY <1>1 DEF CommandDone
  <2>1. CASE w = work
    <3>1. i \in ids /\ i \in active
      BY <1>5, <2>1
    <3>2. PICK g \in groups : i \in g
      BY <1>4, <3>1
    <3>3. PICK p \in Fh!Feed(e, chans, g) : i \in p.ids
      BY <2>1, <3>1, <3>2, FeedIsStarted
    <3>4. p \in feeds'
      BY <1>1, <3>3
    <3>5. p.nr = given /\ p.exchange = e /\ p.chans = chans
      BY FeedStarts
    <3>6. QED
      BY <1>1, <2>1, <3>3, <3>4, <3>5 DEF FeedFor
  <2>2. CASE w # work
    <3>1. w \in command.asked \ pending
      BY <1>1, <1>3, <2>2
    <3>2. FeedFor(w, i)
      BY <1>2, <3>1 DEF CommandDone
    <3>3. PICK p \in feeds : /\ p.nr = given /\ p.exchange = w[1] /\ p.chans = w[2]
                             /\ i \in p.ids
      BY <3>2 DEF FeedFor
    <3>4. ~ (work[1] = w[1] /\ work[2] \subseteq w[2])
      BY <1>2, <1>3, <2>2 DEF CommandApart, Apart
    <3>5. p \in feeds'
      BY <1>1, <3>3, <3>4 DEF Fh!KilledFeeds
    <3>6. QED
      BY <1>1, <3>3, <3>5 DEF FeedFor
  <2>3. QED
    BY <2>1, <2>2
<1>10. OneApi'
  BY <1>1, <1>2 DEF OneApi
<1>11. FeedsBeside'
  <2>1. \A p \in feeds' : IsGroup(p.chans)
    BY <1>1, <1>2, <1>5, <1>6 DEF FeedsBeside
  <2>2. ASSUME NEW p \in new, NEW q \in spared, ~unkilled, q.exchange = e
        PROVE  p.chans \cap q.chans \subseteq {Liquidations}
    <3>1. q \in feeds /\ ~ (chans \subseteq q.chans)
      BY <1>5, <2>2 DEF Fh!KilledFeeds
    <3>2. IsGroup(q.chans)
      BY <1>2, <3>1 DEF FeedsBeside
    <3>3. QED
      BY <1>5, <1>6, <3>1, <3>2, BesideOlder
  <2>3. ASSUME NEW p \in new, NEW q \in new, p # q PROVE p.ids \cap q.ids = {}
    <3>1. PICK g \in groups : p \in Fh!Feed(e, chans, g) /\ p.ids = g \cap active
      BY <1>6
    <3>2. PICK h \in groups : q \in Fh!Feed(e, chans, h) /\ q.ids = h \cap active
      BY <1>6
    <3>3. g # h
      BY <2>3, <3>1, <3>2 DEF Fh!Feed
    <3>4. g \cap h = {}
      BY <1>4, <3>3
    <3>5. QED
      BY <3>1, <3>2, <3>4
  <2> HIDE DEF new
  <2>4. ASSUME ~unkilled, NEW p \in feeds', NEW q \in feeds', p # q, p.exchange = q.exchange
        PROVE  Beside(p, q)
    <3>1. CASE p \in spared /\ q \in spared
      <4>1. p \in feeds /\ q \in feeds
        BY <3>1
      <4>2. QED
        BY <1>2, <2>4, <4>1 DEF FeedsBeside
    <3>2. CASE p \in new /\ q \in spared
      <4>1. q.exchange = e
        BY <1>6, <2>4, <3>2
      <4>2. QED
        BY <2>2, <2>4, <3>2, <4>1 DEF Beside
    <3>3. CASE p \in spared /\ q \in new
      <4>1. p.exchange = e
        BY <1>6, <2>4, <3>3
      <4>2. q.chans \cap p.chans \subseteq {Liquidations}
        BY <2>2, <2>4, <3>3, <4>1
      <4>3. QED
        BY <4>2 DEF Beside
    <3>4. CASE p \in new /\ q \in new
      BY <2>3, <2>4, <3>4 DEF Beside
    <3>5. QED
      BY <1>1, <3>1, <3>2, <3>3, <3>4
  <2>5. QED
    BY <1>1, <2>1, <2>4 DEF FeedsBeside, Beside, IsGroup
<1>12. QED
  BY <1>7, <1>8, <1>9, <1>10, <1>11 DEF DaemonsInv

LEMMA ApiSpawned ==
  ASSUME Fh!DaemonsAssumption, DaemonsInv, NEW e, Fh!SpawnApi(e)
  PROVE  DaemonsInv'
<1> DEFINE ids == {i \in command.ids : ExchangeOf[i] = e}
           p0 == [nr |-> given, exchange |-> e, chans |-> {}, ids |-> ids \cap active]
           spared == {p \in apis : p.exchange \notin Longer[e]}
           new == {p \in (IF command.kind = "apis" THEN {p0} ELSE {}) : p.ids # {}}
<1>1. /\ command.kind \in {"apis", "stop_apis"} /\ <<e, {}>> \in pending
      /\ pending' = pending \ {<<e, {}>>} /\ apis' = spared \cup new
      /\ UNCHANGED <<active, feeds, command, given, mishaps, unkilled, bereft>>
  BY DEF Fh!SpawnApi
<1>2. /\ CommandTyped /\ CommandApart /\ CommandDone /\ OneApi /\ FeedsBeside
  BY DEF DaemonsInv
<1>3. <<e, {}>> \in command.asked /\ e \in Exchanges
  BY <1>1, <1>2 DEF CommandTyped
<1>4. e \in Longer[e]
  BY <1>3 DEF Fh!DaemonsAssumption
<1>5. \A p \in new : p = p0
  OBVIOUS
<1>6. p0.nr = given /\ p0.exchange = e /\ p0.ids = ids \cap active
  OBVIOUS
<1>7. CommandTyped'
  BY <1>1, <1>2 DEF CommandTyped, Fh!Channels
<1>8. CommandApart'
  BY <1>1, <1>2 DEF CommandApart, Apart, ApartApis, IsGroup
<1>9. CommandDone'
  <2> SUFFICES ASSUME ~bereft, command.kind = "apis",
                      NEW w \in command.asked \ pending', NEW i \in command.ids,
                      ExchangeOf[i] = w[1], w[1] \in command.clear
               PROVE  ApiFor(w, i)'
    BY <1>1 DEF CommandDone
  <2>1. ApartApis(command.asked, command.clear)
    BY <1>2 DEF CommandApart
  <2>2. CASE w = <<e, {}>>
    <3>1. i \in ids /\ i \in active
      BY <1>1, <1>2, <2>2 DEF CommandApart
    <3>2. i \in p0.ids
      BY <1>6, <3>1
    <3>3. p0 \in new
      BY <3>2
    <3>4. p0 \in apis'
      BY <1>1, <3>3
    <3> HIDE DEF p0
    <3>5. w[1] = e
      BY <2>2
    <3>6. QED
      BY <1>1, <1>6, <3>2, <3>4, <3>5 DEF ApiFor
  <2>3. CASE w # <<e, {}>>
    <3>1. w \in command.asked \ pending
      BY <1>1, <2>3
    <3>2. ApiFor(w, i)
      BY <1>2, <3>1 DEF CommandDone
    <3>3. PICK p \in apis : p.nr = given /\ p.exchange = w[1] /\ i \in p.ids
      BY <3>2 DEF ApiFor
    <3>4. w \in Exchanges \X SUBSET Fh!Channels /\ w = <<w[1], w[2]>> /\ w[2] = {}
      BY <1>2, <2>1 DEF CommandTyped, ApartApis
    <3>5. w[1] # e
      BY <2>3, <3>4
    <3>6. w[1] \notin Longer[e]
      <4>1. <<e, {}>>[1] = e
        OBVIOUS
      <4>2. QED
        BY <1>3, <2>1, <3>5, <4>1 DEF ApartApis
    <3>7. p \in apis'
      BY <1>1, <3>3, <3>6
    <3>8. QED
      BY <1>1, <3>3, <3>7 DEF ApiFor
  <2>4. QED
    BY <2>2, <2>3
<1>10. OneApi'
  <2>1. \A p \in spared : p \in apis /\ p.exchange # e
    BY <1>4
  <2> HIDE DEF spared, new, p0
  <2>2. QED
    BY <1>1, <1>2, <1>5, <1>6, <2>1 DEF OneApi
<1>11. FeedsBeside'
  BY <1>1, <1>2 DEF FeedsBeside, Beside, IsGroup
<1>12. QED
  BY <1>7, <1>8, <1>9, <1>10, <1>11 DEF DaemonsInv

LEMMA ProcessDied == ASSUME DaemonsInv, NEW p \in feeds \cup apis, Fh!Die(p) PROVE DaemonsInv'
<1>1. /\ feeds' = feeds \ {p} /\ apis' = apis \ {p} /\ bereft' = (bereft \/ p.nr = given)
      /\ UNCHANGED <<active, pending, command, given, unkilled>>
  BY DEF Fh!Die
<1>2. /\ CommandTyped /\ CommandApart /\ CommandDone /\ OneApi /\ FeedsBeside
  BY DEF DaemonsInv
<1>3. CommandTyped'
  BY <1>1, <1>2 DEF CommandTyped, Fh!Channels
<1>4. CommandApart'
  BY <1>1, <1>2 DEF CommandApart, Apart, ApartApis, IsGroup
<1>5. CommandDone'
  <2>1. ~bereft' => ~bereft /\ p.nr # given
    BY <1>1
  <2>2. \A w, i : p.nr # given /\ FeedFor(w, i) => FeedFor(w, i)'
    BY <1>1 DEF FeedFor
  <2>3. \A w, i : p.nr # given /\ ApiFor(w, i) => ApiFor(w, i)'
    BY <1>1 DEF ApiFor
  <2>4. QED
    BY <1>1, <1>2, <2>1, <2>2, <2>3 DEF CommandDone
<1>6. OneApi'
  BY <1>1, <1>2 DEF OneApi
<1>7. FeedsBeside'
  BY <1>1, <1>2 DEF FeedsBeside, Beside, IsGroup
<1>8. QED
  BY <1>3, <1>4, <1>5, <1>6, <1>7 DEF DaemonsInv

LEMMA InstrumentDelisted ==
  ASSUME DaemonsInv, NEW i \in Ids, Fh!Delist(i)
  PROVE  DaemonsInv'
<1>1. /\ active' = active \ {i} /\ bereft' = (bereft \/ pending # {})
      /\ UNCHANGED <<feeds, apis, pending, command, given, unkilled>>
  BY DEF Fh!Delist
<1>2. /\ CommandTyped /\ CommandApart /\ CommandDone /\ OneApi /\ FeedsBeside
  BY DEF DaemonsInv
<1>3. CommandTyped'
  BY <1>1, <1>2 DEF CommandTyped, Fh!Channels
<1>4. CommandApart'
  <2>1. ~bereft' => ~bereft /\ pending = {}
    BY <1>1
  <2>2. pending' = pending /\ command' = command /\ unkilled' = unkilled
    BY <1>1
  <2>3. QED
    BY <1>2, <2>1, <2>2 DEF CommandApart, Apart, ApartApis, IsGroup
<1>5. CommandDone'
  BY <1>1, <1>2 DEF CommandDone, FeedFor, ApiFor
<1>6. OneApi'
  BY <1>1, <1>2 DEF OneApi
<1>7. FeedsBeside'
  BY <1>1, <1>2 DEF FeedsBeside, Beside, IsGroup
<1>8. QED
  BY <1>3, <1>4, <1>5, <1>6, <1>7 DEF DaemonsInv

LEMMA DaemonsStep ==
  ASSUME Fh!DaemonsAssumption, DaemonsInv, [Fh!Next]_(Fh!vars)
  PROVE  DaemonsInv'
<1>1. active \subseteq Ids
  BY DEF DaemonsInv, CommandTyped
<1>2. ASSUME NEW ids \in SUBSET Ids, NEW ask \in Asks, NEW no_kill \in BOOLEAN,
             Fh!StartFeeds(Fh!FromIds(ids), ask[1], ask[2], no_kill)
      PROVE  DaemonsInv'
  <2>1. Fh!FromIds(ids) \in SUBSET active
    BY DEF Fh!FromIds
  <2>2. QED
    BY <1>2, <2>1, FeedsStarted
<1>3. ASSUME NEW ask \in Asks, Fh!StartFeeds(Fh!FromInfos(Exchanges), ask[1], ask[2], FALSE)
      PROVE  DaemonsInv'
  <2> DEFINE no == FALSE
  <2>1. Fh!FromInfos(Exchanges) \in SUBSET active /\ no \in BOOLEAN
    BY DEF Fh!FromInfos
  <2>2. Fh!StartFeeds(Fh!FromInfos(Exchanges), ask[1], ask[2], no)
    BY <1>3
  <2> HIDE DEF no
  <2>3. QED
    BY <2>1, <2>2, FeedsStarted
<1>4. ASSUME NEW exchs \in SUBSET Exchanges, NEW ask \in Asks,
             Fh!StopFeeds(exchs, ask[1], ask[2])
      PROVE  DaemonsInv'
  BY <1>4, FeedsStopped
<1>5. ASSUME NEW exchs \in SUBSET Exchanges, Fh!StartApis(Fh!FromInfos(exchs))
      PROVE  DaemonsInv'
  <2>1. Fh!FromInfos(exchs) \in SUBSET active
    BY DEF Fh!FromInfos
  <2>2. QED
    BY <1>5, <2>1, ApisStarted
<1>6. ASSUME NEW exchs \in SUBSET Exchanges,
             Fh!StopApis(IF exchs = {} THEN Exchanges ELSE exchs)
      PROVE  DaemonsInv'
  <2> DEFINE stopped == IF exchs = {} THEN Exchanges ELSE exchs
  <2>1. stopped \in SUBSET Exchanges
    OBVIOUS
  <2> HIDE DEF stopped
  <2>2. Fh!StopApis(stopped)
    BY <1>6 DEF stopped
  <2>3. QED
    BY <2>1, <2>2, ApisStopped
<1>7. ASSUME NEW work \in pending, Fh!SpawnFeeds(work[1], work[2]) \/ Fh!SpawnApi(work[1])
      PROVE  DaemonsInv'
  BY <1>7, FeedsSpawned, ApiSpawned
<1>8. CASE UNCHANGED Fh!vars
  <2>1. UNCHANGED <<active, feeds, apis, pending, command, given, unkilled, bereft>>
    BY <1>8 DEF Fh!vars
  <2>2. QED
    BY <2>1 DEF DaemonsInv, CommandTyped, CommandApart, CommandDone, OneApi, FeedsBeside,
       Apart, ApartApis, IsGroup, Beside, FeedFor, ApiFor, Fh!Channels
<1>9. QED
  BY <1>2, <1>3, <1>4, <1>5, <1>6, <1>7, <1>8, ProcessDied, InstrumentDelisted DEF Fh!Next

LEMMA DaemonsSafe == ASSUME Fh!DaemonsAssumption, DaemonsInv PROVE Fh!StartedOnce
<1>1. ASSUME pending = {}, ~bereft, NEW w \in command.asked, NEW i \in command.ids,
             ExchangeOf[i] = w[1], command.kind = "feeds",
             <<w[1], w[2] \subseteq Public>> \in Supported, NEW c \in w[2],
             w[1] \in command.clear \/ c # Trades
      PROVE  \E p \in Fh!Feeding(w[1], c, i) : p.nr = given
  <2>1. CASE w[1] \in command.clear \/ w[2] # {Trades, Liquidations}
    BY <1>1, <2>1 DEF DaemonsInv, CommandDone, FeedFor, Fh!Feeding
  <2>2. CASE w[1] \notin command.clear /\ w[2] = {Trades, Liquidations}
    <3> DEFINE v == <<w[1], {Liquidations}>>
    <3>1. c = Liquidations /\ c # Trades
      BY <1>1, <2>2
    <3>2. v \in command.asked
      BY <1>1, <2>2 DEF DaemonsInv, CommandApart, Apart
    <3>3. v[1] = w[1] /\ v[2] = {Liquidations} /\ v[2] # {Trades, Liquidations} /\ c \in v[2]
      BY <3>1
    <3>4. w[2] \subseteq Public /\ v[2] \subseteq Public
      BY <2>2, <3>3 DEF Fh!DaemonsAssumption
    <3>5. <<v[1], v[2] \subseteq Public>> \in Supported
      BY <1>1, <3>3, <3>4
    <3> HIDE DEF v
    <3>6. FeedFor(v, i)
      BY <1>1, <3>2, <3>3, <3>5 DEF DaemonsInv, CommandDone
    <3>7. QED
      BY <3>3, <3>6 DEF FeedFor, Fh!Feeding
  <2>3. QED
    BY <2>1, <2>2
<1>2. ASSUME pending = {}, ~bereft, NEW w \in command.asked, NEW i \in command.ids,
             ExchangeOf[i] = w[1], command.kind = "apis", w[1] \in command.clear
      PROVE  \E p \in apis : p.exchange = w[1] /\ i \in p.ids /\ p.nr = given
  BY <1>2 DEF DaemonsInv, CommandDone, ApiFor
<1>3. QED
  BY <1>1, <1>2 DEF Fh!StartedOnce, DaemonsInv, OneApi, FeedsBeside, Beside

\* The component is one of its own in the composition, and rests while another runs.
LEMMA ServicesKeepDaemons ==
  ASSUME ServicesAssumption, DaemonsInv, [ServicesNext]_services
  PROVE  DaemonsInv'
<1>1. Fh!DaemonsAssumption
  BY DEF ServicesAssumption
<1>2. Fh!Next \/ UNCHANGED daemons
  BY DEF ServicesNext, services
<1>3. [Fh!Next]_(Fh!vars)
  BY <1>2 DEF daemons, Fh!vars
<1>4. QED
  BY <1>1, <1>3, DaemonsStep

\* Whichever exchange of a command comes first and however the groups of channels of each are
\* gone through, processes die and instruments are delisted between two steps of it: when the
\* command is over all it asked for that has a class is served by a process of its own, which
\* its kills have spared, but for the trades where the liquidations are named twice, as they are
\* at every exchange after the first when a mode adds to the channels of the command, and for
\* an API whose exchange's code begins with that of another of the command.  An exchange never
\* has two APIs, and no two feeds of an exchange have a channel and an instrument in common, but
\* for the liquidations and after a command told to kill nothing (start_fh,
\* get_channels_groups, start_api and feed_handler).
THEOREM DaemonsStartedOnce == ASSUME ServicesAssumption PROVE ServicesSpec => []StartedOnce
<1>1. ServicesInit => DaemonsInv
  BY DaemonsInit DEF ServicesInit, ServicesAssumption
<1>2. DaemonsInv /\ [ServicesNext]_services => DaemonsInv'
  BY ServicesKeepDaemons
<1>3. DaemonsInv => StartedOnce
  BY DaemonsSafe DEF StartedOnce
<1>4. QED
  BY <1>1, <1>2, <1>3, PTL DEF ServicesSpec

-----------------------------------------------------------------------------
(* The targets of the hour                                                    *)
\* A series has candles that have closed, each once.
IsSeries(s, n) ==
  /\ s \in Seq(0..LastHour) /\ Hourly!IsInjective(s) /\ Len(s) >= 1
  /\ \A k \in 1..Len(s) : s[k] < n

HoursInv ==
  /\ Hourly!TypeOK /\ candles \in [Assets -> Seq(0..LastHour)]
  /\ \A a \in Assets : /\ Since[a] < closed[a] /\ closed[a] < hourly
                       /\ IsSeries(candles[a], hourly)

LEMMA LoadIsSeries ==
  ASSUME NEW a, NEW n \in 0..LastHour, LastHour \in Nat, Since[a] \in Nat, closed[a] \in Nat,
         Since[a] < closed[a], closed[a] < n
  PROVE  IsSeries(Hourly!LoadCandles(a), n)
<1> DEFINE s == Hourly!LoadCandles(a)
           m == closed[a] - Since[a] + 1
<1>1. s = [k \in 1..m |-> Since[a] + k - 1] /\ m \in Nat /\ m >= 1
  BY DEF Hourly!LoadCandles
<1>2. \A k \in 1..m : s[k] = Since[a] + k - 1 /\ s[k] \in 0..LastHour /\ s[k] < n
  BY <1>1
<1>3. s \in [1..m -> 0..LastHour]
  BY <1>1, <1>2
<1> HIDE DEF s, m
<1>4. s \in Seq(0..LastHour) /\ Len(s) = m /\ DOMAIN s = 1..m
  BY <1>1, <1>3
<1>5. Hourly!IsInjective(s)
  BY <1>2, <1>4 DEF Hourly!IsInjective
<1>6. QED
  BY <1>1, <1>2, <1>4, <1>5 DEF IsSeries, s

\* What a series is, its places being those of a sequence
LEMMA SeriesIs ==
  ASSUME NEW s, NEW n \in 0..LastHour, IsSeries(s, n)
  PROVE  /\ s \in Seq(0..LastHour) /\ Len(s) \in Nat /\ Len(s) >= 1 /\ DOMAIN s = 1..Len(s)
         /\ \A k \in 1..Len(s) : s[k] < n /\ s[k] \in 0..LastHour
         /\ \A j, k \in 1..Len(s) : s[j] = s[k] => j = k
<1>1. s \in Seq(0..LastHour) /\ Len(s) >= 1 /\ \A k \in 1..Len(s) : s[k] < n
  BY DEF IsSeries
<1>2. Len(s) \in Nat /\ DOMAIN s = 1..Len(s) /\ \A k \in 1..Len(s) : s[k] \in 0..LastHour
  BY <1>1, LenProperties, ElementOfSeq
<1>3. \A j, k \in DOMAIN s : s[j] = s[k] => j = k
  BY DEF IsSeries, Hourly!IsInjective
<1>4. QED
  BY <1>1, <1>2, <1>3

LEMMA TailIsSeries ==
  ASSUME NEW s, NEW n \in 0..LastHour, IsSeries(s, n), Window \in Nat, Window > 3
  PROVE  IsSeries(Hourly!Tail2000(s), n)
<1>1. /\ s \in Seq(0..LastHour) /\ Len(s) \in Nat /\ Len(s) >= 1 /\ DOMAIN s = 1..Len(s)
      /\ \A k \in 1..Len(s) : s[k] < n /\ s[k] \in 0..LastHour
      /\ \A j, k \in 1..Len(s) : s[j] = s[k] => j = k
  BY SeriesIs
<1>2. CASE Len(s) <= Window
  BY <1>2 DEF Hourly!Tail2000
<1>3. CASE ~(Len(s) <= Window)
  <2> DEFINE t == SubSeq(s, Len(s) - Window + 1, Len(s))
             d == Len(s) - Window
  <2>1. d \in Nat /\ d + 1 \in 1..Len(s) /\ Len(s) = d + Window
    BY <1>1, <1>3
  <2>2. /\ t \in Seq(0..LastHour) /\ Len(t) = Window /\ \A k \in 1..Window : t[k] = s[d + k]
    BY <1>1, <2>1, SubSeqProperties
  <2> HIDE DEF t, d
  <2>3. \A k \in 1..Window : d + k \in 1..Len(s)
    BY <2>1
  <2>4. Hourly!IsInjective(t)
    <3>1. DOMAIN t = 1..Window
      BY <2>2
    <3>2. ASSUME NEW j \in 1..Window, NEW k \in 1..Window, t[j] = t[k] PROVE j = k
      <4>1. d + j = d + k
        BY <1>1, <2>2, <2>3, <3>2
      <4>2. QED
        BY <4>1, <2>1
    <3>3. QED
      BY <3>1, <3>2 DEF Hourly!IsInjective
  <2>5. IsSeries(t, n)
    BY <1>1, <2>2, <2>3, <2>4 DEF IsSeries
  <2>6. QED
    BY <1>3, <2>5 DEF Hourly!Tail2000, t
<1>4. QED
  BY <1>2, <1>3

LEMMA AddedIsSeries ==
  ASSUME NEW a, NEW s, NEW n \in 0..LastHour, NEW t \in 0..n - 1, IsSeries(s, n), LastHour \in Nat,
         Window \in Nat, Window > 3, Since[a] \in Nat, closed[a] \in Nat,
         Since[a] < closed[a], closed[a] < n
  PROVE  IsSeries(Hourly!Added(a, s, t), n)
<1> DEFINE r == IF t > Hourly!Last(s) + 2 THEN Hourly!LoadCandles(a) ELSE s
<1>1. IsSeries(r, n)
  BY LoadIsSeries
<1>2. Hourly!Added(a, s, t) \in {r, Hourly!Tail2000(r), Hourly!Tail2000(Append(r, t))}
  BY DEF Hourly!Added
<1>3. t \notin Hourly!Range(r) => IsSeries(Append(r, t), n)
  <2> HIDE DEF r
  <2>1. /\ r \in Seq(0..LastHour) /\ Len(r) \in Nat /\ DOMAIN r = 1..Len(r)
        /\ \A k \in 1..Len(r) : r[k] < n
        /\ \A j, k \in 1..Len(r) : r[j] = r[k] => j = k
    BY <1>1, SeriesIs
  <2>2. /\ Append(r, t) \in Seq(0..LastHour) /\ Len(Append(r, t)) = Len(r) + 1
        /\ \A k \in 1..Len(r) : Append(r, t)[k] = r[k]
        /\ Append(r, t)[Len(r) + 1] = t
    BY <2>1
  <2>3. DOMAIN Append(r, t) = 1..Len(r) + 1
    BY <2>1, <2>2
  <2>4. ASSUME t \notin Hourly!Range(r) PROVE Hourly!IsInjective(Append(r, t))
    <3>1. \A k \in 1..Len(r) : r[k] # t
      BY <2>1, <2>4 DEF Hourly!Range
    <3>2. ASSUME NEW j \in 1..Len(r) + 1, NEW k \in 1..Len(r) + 1, Append(r, t)[j] = Append(r, t)[k]
          PROVE  j = k
      <4>1. (j \in 1..Len(r) \/ j = Len(r) + 1) /\ (k \in 1..Len(r) \/ k = Len(r) + 1)
        BY <2>1
      <4>2. QED
        BY <2>1, <2>2, <3>1, <3>2, <4>1
    <3>3. QED
      BY <2>3, <3>2 DEF Hourly!IsInjective
  <2>5. \A k \in 1..Len(Append(r, t)) : Append(r, t)[k] < n
    BY <2>1, <2>2
  <2>6. QED
    BY <2>1, <2>2, <2>4, <2>5 DEF IsSeries
<1>4. ASSUME t \notin Hourly!Range(r) PROVE IsSeries(Hourly!Added(a, s, t), n)
  <2>1. IsSeries(Append(r, t), n)
    BY <1>3, <1>4
  <2> HIDE DEF r
  <2>2. QED
    BY <1>1, <1>2, <2>1, TailIsSeries
<1>5. ASSUME t \in Hourly!Range(r) PROVE IsSeries(Hourly!Added(a, s, t), n)
  <2>1. Hourly!Added(a, s, t) \in {r, Hourly!Tail2000(r)}
    BY <1>5 DEF Hourly!Added
  <2> HIDE DEF r
  <2>2. QED
    BY <1>1, <2>1, TailIsSeries
<1>6. QED
  BY <1>4, <1>5

LEMMA HoursInit == ASSUME Hourly!TargetSentinelAssumption, Hourly!Init PROVE HoursInv
<1>1. /\ Start \in Nat /\ LastHour \in Nat /\ Start <= LastHour
      /\ \A a \in Assets : Since[a] \in 0..Start - 3
  BY DEF Hourly!TargetSentinelAssumption
<1>2. /\ hourly = Start /\ beat = Start /\ closed \in [Assets -> {Start - 2, Start - 1}]
      /\ wire = [a \in Assets |-> Start - 1]
      /\ candles = [a \in Assets |-> Hourly!LoadCandles(a)]
      /\ heartbeat = "idle" /\ retry = 0 /\ written = Hourly!NoFile
  BY DEF Hourly!Init
<1>3. ASSUME NEW a \in Assets
      PROVE  /\ Since[a] \in Nat /\ closed[a] \in 0..LastHour /\ wire[a] \in 0..LastHour
             /\ Since[a] < closed[a] /\ closed[a] < hourly
             /\ candles[a] = Hourly!LoadCandles(a) /\ IsSeries(candles[a], hourly)
  <2>1. /\ Since[a] \in Nat /\ closed[a] \in 0..LastHour /\ wire[a] \in 0..LastHour
        /\ Since[a] < closed[a] /\ closed[a] < hourly /\ hourly \in 0..LastHour
        /\ candles[a] = Hourly!LoadCandles(a)
    BY <1>1, <1>2, <1>3
  <2>2. IsSeries(candles[a], hourly)
    BY <1>1, <2>1, LoadIsSeries
  <2>3. QED
    BY <2>1, <2>2
<1>4. \A a \in Assets : candles[a] \in Seq(0..LastHour) /\ Hourly!IsInjective(candles[a])
  BY <1>3 DEF IsSeries
<1>5. candles \in [Assets -> Seq(0..LastHour)]
  BY <1>2, <1>4
<1>6. DOMAIN written.targets = {}
  BY <1>2 DEF Hourly!NoFile
<1>7. Hourly!TypeOK
  <2>1. closed \in [Assets -> 0..LastHour] /\ wire \in [Assets -> 0..LastHour]
    BY <1>2, <1>3
  <2>2. QED
    BY <1>1, <1>2, <1>4, <1>6, <2>1, 0 \in 0..MaxRetries DEF Hourly!TypeOK, Hourly!Hours, Hourly!TargetSentinelAssumption
<1>8. QED
  BY <1>3, <1>5, <1>7 DEF HoursInv

\* A step that leaves the file as it is
LEMMA HoursHeard ==
  ASSUME Hourly!TargetSentinelAssumption, HoursInv, NEW a \in Assets, NEW t \in 0..hourly,
         Hourly!OnCandleEvent(a, t)
  PROVE  HoursInv'
<1>1. /\ LastHour \in Nat /\ Window \in Nat /\ Window > 3 /\ \A b \in Assets : Since[b] \in Nat
      /\ \A b \in Assets : Since[b] \in 0..Start - 3
  BY DEF Hourly!TargetSentinelAssumption
<1>2. /\ Hourly!TypeOK /\ candles \in [Assets -> Seq(0..LastHour)]
      /\ hourly \in 0..LastHour /\ closed \in [Assets -> 0..LastHour]
      /\ \A b \in Assets : /\ Since[b] < closed[b] /\ closed[b] < hourly
                           /\ IsSeries(candles[b], hourly)
  BY DEF HoursInv, Hourly!TypeOK, Hourly!Hours
<1>3. /\ t \in (wire[a] - 1)..(hourly - 1) /\ wire' = [wire EXCEPT ![a] = t + 1]
      /\ candles' = [candles EXCEPT ![a] = Hourly!Added(a, candles[a], t)]
      /\ UNCHANGED <<hourly, closed, heartbeat, retry, beat, written>>
  BY DEF Hourly!OnCandleEvent
<1>4. t \in 0..hourly - 1 /\ t + 1 \in 0..LastHour
  <2>1. wire[a] \in 0..LastHour
    BY <1>2 DEF Hourly!TypeOK, Hourly!Hours
  <2>2. QED
    BY <1>1, <1>2, <1>3, <2>1
<1>5. IsSeries(Hourly!Added(a, candles[a], t), hourly)
  <2>1. closed[a] \in Nat
    BY <1>2
  <2>2. QED
    BY <1>1, <1>2, <1>4, <2>1, AddedIsSeries
<1>6. candles' \in [Assets -> Seq(0..LastHour)]
  BY <1>2, <1>3, <1>5 DEF IsSeries
<1>7. \A b \in Assets : IsSeries(candles'[b], hourly)
  BY <1>2, <1>3, <1>5
<1>8. Hourly!TypeOK'
  <2>1. wire' \in [Assets -> 0..LastHour]
    BY <1>2, <1>3, <1>4 DEF Hourly!TypeOK, Hourly!Hours
  <2>2. \A b \in Assets : candles'[b] \in Seq(0..LastHour) /\ Hourly!IsInjective(candles'[b])
    BY <1>7 DEF IsSeries
  <2>3. QED
    BY <1>2, <1>3, <2>1, <2>2 DEF Hourly!TypeOK, Hourly!Hours
<1>9. QED
  BY <1>2, <1>3, <1>6, <1>7, <1>8 DEF HoursInv, IsSeries

LEMMA HoursStep ==
  ASSUME Hourly!TargetSentinelAssumption, HoursInv, [Hourly!Next]_(Hourly!vars)
  PROVE  HoursInv'
<1>1. /\ Hourly!TypeOK /\ candles \in [Assets -> Seq(0..LastHour)]
      /\ hourly \in 0..LastHour /\ closed \in [Assets -> 0..LastHour] /\ LastHour \in Nat
      /\ \A b \in Assets : /\ Since[b] < closed[b] /\ closed[b] < hourly
                           /\ IsSeries(candles[b], hourly)
      /\ \A b \in Assets : Since[b] \in Nat
  BY DEF HoursInv, Hourly!TypeOK, Hourly!Hours, Hourly!TargetSentinelAssumption
<1>2. ASSUME UNCHANGED <<hourly, closed, candles>>, Hourly!TypeOK' PROVE HoursInv'
  BY <1>1, <1>2 DEF HoursInv, IsSeries
<1>3. CASE Hourly!Tick
  <2>1. /\ hourly < LastHour /\ hourly' = hourly + 1
        /\ UNCHANGED <<closed, wire, candles, heartbeat, retry, beat, written>>
    BY <1>3 DEF Hourly!Tick
  <2>2. Hourly!TypeOK'
    BY <1>1, <2>1 DEF Hourly!TypeOK, Hourly!Hours
  <2>3. \A b \in Assets : closed[b] < hourly + 1 /\ IsSeries(candles[b], hourly + 1)
    <3>1. ASSUME NEW b \in Assets PROVE IsSeries(candles[b], hourly + 1)
      <4>1. IsSeries(candles[b], hourly)
        BY <1>1
      <4>2. \A k \in 1..Len(candles[b]) : candles[b][k] < hourly + 1
        BY <1>1, <4>1, SeriesIs
      <4>3. QED
        BY <4>1, <4>2 DEF IsSeries
    <3>2. QED
      BY <1>1, <3>1
  <2>4. QED
    BY <1>1, <2>1, <2>2, <2>3 DEF HoursInv, IsSeries
<1>4. CASE Hourly!UpdateTargets \/ Hourly!Retry \/ Hourly!GiveUp
  <2>1. UNCHANGED <<hourly, closed, wire, candles, written>>
    BY <1>4 DEF Hourly!UpdateTargets, Hourly!Retry, Hourly!GiveUp
  <2>2. heartbeat' \in {"idle", "waiting", "ended"} /\ retry' \in 0..MaxRetries /\ beat' \in 0..LastHour
    BY <1>1, <1>4 DEF Hourly!UpdateTargets, Hourly!Retry, Hourly!GiveUp, Hourly!TypeOK,
       Hourly!Hours, Hourly!TargetSentinelAssumption
  <2>3. Hourly!TypeOK'
    BY <1>1, <2>1, <2>2 DEF Hourly!TypeOK, Hourly!Hours
  <2>4. QED
    BY <1>2, <2>1, <2>3
<1>5. ASSUME NEW a \in Assets, Hourly!Store(a) PROVE HoursInv'
  <2>1. /\ closed[a] < hourly - 1 /\ closed' = [closed EXCEPT ![a] = @ + 1]
        /\ UNCHANGED <<hourly, wire, candles, heartbeat, retry, beat, written>>
    BY <1>5 DEF Hourly!Store
  <2>2. closed' \in [Assets -> 0..LastHour]
    BY <1>1, <2>1
  <2>3. \A b \in Assets : Since[b] < closed'[b] /\ closed'[b] < hourly
    BY <1>1, <2>1
  <2>4. Hourly!TypeOK'
    BY <1>1, <2>1, <2>2 DEF Hourly!TypeOK, Hourly!Hours
  <2>5. QED
    BY <1>1, <2>1, <2>3, <2>4 DEF HoursInv, IsSeries
<1>6. ASSUME NEW scores, Hourly!SaveTargets(scores) PROVE HoursInv'
  <2>1. /\ heartbeat' \in {"ended", "idle"} /\ UNCHANGED <<hourly, closed, wire, candles, retry, beat>>
    BY <1>6 DEF Hourly!SaveTargets
  <2>2. \A a \in DOMAIN written'.targets : a \in Assets /\ written'.targets[a] \in {-1, 0, 1}
    <3>1. CASE written' = written
      BY <1>1, <3>1 DEF Hourly!TypeOK
    <3>2. CASE written'.targets = [a \in Hourly!Selected |->
                 IF Hourly!Cardinality(Hourly!Kept) <= Rolling THEN 0 ELSE Hourly!Signal(a, scores)]
      <4>1. \A a : Hourly!Signal(a, scores) \in {-1, 0, 1}
        BY DEF Hourly!Signal
      <4>2. Hourly!Selected \subseteq Assets
        BY DEF Hourly!Selected
      <4>3. QED
        BY <3>2, <4>1, <4>2
    <3>3. QED
      BY <1>6, <3>1, <3>2 DEF Hourly!SaveTargets
  <2>3. Hourly!TypeOK'
    BY <1>1, <2>1, <2>2 DEF Hourly!TypeOK, Hourly!Hours
  <2>4. QED
    BY <1>2, <2>1, <2>3
<1>7. CASE UNCHANGED Hourly!vars
  <2>1. UNCHANGED <<hourly, closed, wire, candles, heartbeat, retry, beat, written>>
    BY <1>7 DEF Hourly!vars
  <2>2. Hourly!TypeOK'
    BY <1>1, <2>1 DEF Hourly!TypeOK, Hourly!Hours
  <2>3. QED
    BY <1>2, <2>1, <2>2
<1>8. ASSUME NEW a \in Assets, NEW t \in 0..hourly, Hourly!OnCandleEvent(a, t) PROVE HoursInv'
  BY <1>8, HoursHeard
<1>9. QED
  BY <1>3, <1>4, <1>5, <1>6, <1>7, <1>8 DEF Hourly!Next

-----------------------------------------------------------------------------
\* A set of numbers that is bounded has its least and its greatest.
LEMMA MaxIs ==
  ASSUME NEW n \in Nat, NEW S \in SUBSET (-1..n), S # {}
  PROVE  Hourly!Max(S) \in S /\ \A y \in S : y <= Hourly!Max(S)
<1> DEFINE T == {y + 1 : y \in S}
<1>1. T \in SUBSET Nat /\ T # {} /\ \A y \in T : y <= n + 1
  <2>1. \A y \in S : y \in -1..n
    OBVIOUS
  <2>2. \A y \in S : y \in Int /\ y + 1 \in Nat /\ y + 1 <= n + 1
    BY <2>1
  <2>3. QED
    BY <2>2
<1>2. PICK x \in T : \A y \in T : y <= x
  <2> HIDE DEF T
  <2>1. n + 1 \in Nat
    OBVIOUS
  <2>2. QED
    BY <1>1, <2>1, GreatestOfNat
<1>3. x - 1 \in S /\ \A y \in S : x - 1 >= y
  <2>1. PICK z \in S : x = z + 1
    BY <1>2
  <2>2. \A y \in S : y \in Int /\ y + 1 \in T
    OBVIOUS
  <2> HIDE DEF T
  <2>3. x - 1 = z
    BY <2>1, <2>2
  <2>4. \A y \in S : z >= y
    BY <1>2, <2>1, <2>2
  <2>5. QED
    BY <2>3, <2>4
<1> HIDE DEF T
<1>4. Hourly!Max(S) \in S /\ \A y \in S : Hourly!Max(S) >= y
  BY <1>3 DEF Hourly!Max
<1>5. QED
  BY <1>4

LEMMA MinIs ==
  ASSUME NEW n \in Nat, NEW S \in SUBSET (0..n), S # {}
  PROVE  Hourly!Min(S) \in S /\ \A y \in S : Hourly!Min(S) <= y
<1> DEFINE T == {n - y : y \in S}
<1>1. T \in SUBSET Nat /\ T # {} /\ \A y \in T : y <= n
  <2>1. \A y \in S : y \in 0..n
    OBVIOUS
  <2>2. \A y \in S : y \in Int /\ n - y \in Nat /\ n - y <= n
    BY <2>1
  <2>3. QED
    BY <2>2
<1>2. PICK x \in T : \A y \in T : y <= x
  <2> HIDE DEF T
  <2>1. QED
    BY <1>1, GreatestOfNat
<1>3. n - x \in S /\ \A y \in S : n - x <= y
  <2>1. PICK z \in S : x = n - z
    BY <1>2
  <2>2. \A y \in S : y \in Int /\ n - y \in T
    OBVIOUS
  <2> HIDE DEF T
  <2>3. n - x = z
    BY <2>1, <2>2
  <2>4. \A y \in S : z <= y
    BY <1>2, <2>1, <2>2
  <2>5. QED
    BY <2>3, <2>4
<1> HIDE DEF T
<1>4. QED
  BY <1>3 DEF Hourly!Min

\* Where all have the last candle, it is the last row.
LEMMA RowsAre ==
  ASSUME HoursInv, Hourly!HasLastData, LastHour \in Nat
  PROVE  /\ Hourly!Rows \subseteq 0..hourly - 1 /\ hourly \in Nat
         /\ \A a \in Assets : /\ Hourly!Last(candles[a]) = hourly - 1
                              /\ hourly - 1 \in Hourly!Range(candles[a])
                              /\ Hourly!Range(candles[a]) \subseteq Hourly!Rows
         /\ \A t \in Hourly!Rows : \E a \in Assets : t \in Hourly!Range(candles[a])
<1>1. hourly \in 0..LastHour /\ \A a \in Assets : IsSeries(candles[a], hourly)
  BY DEF HoursInv, Hourly!TypeOK, Hourly!Hours
<1>2. ASSUME NEW a \in Assets
      PROVE  /\ Hourly!Range(candles[a]) \subseteq 0..hourly - 1
             /\ Hourly!Last(candles[a]) = hourly - 1 /\ hourly - 1 \in Hourly!Range(candles[a])
  <2> DEFINE s == candles[a]
  <2>1. /\ Len(s) \in Nat /\ Len(s) >= 1 /\ DOMAIN s = 1..Len(s)
        /\ \A k \in 1..Len(s) : s[k] < hourly /\ s[k] \in 0..LastHour
    BY <1>1, SeriesIs
  <2>2. s[Len(s)] >= hourly - 1
    BY DEF Hourly!HasLastData, Hourly!Last
  <2> HIDE DEF s
  <2>3. Len(s) \in 1..Len(s) /\ s[Len(s)] = hourly - 1
    BY <1>1, <2>1, <2>2
  <2>4. Hourly!Range(s) \subseteq 0..hourly - 1 /\ hourly - 1 \in Hourly!Range(s)
    BY <1>1, <2>1, <2>3 DEF Hourly!Range
  <2>5. QED
    BY <2>3, <2>4 DEF s, Hourly!Last
<1>3. QED
  BY <1>1, <1>2 DEF Hourly!Rows

\* The row before a row
LEMMA BeforeIs ==
  ASSUME NEW n \in Nat, Hourly!Rows \subseteq 0..n, NEW t \in Hourly!Rows
  PROVE  /\ Hourly!Before(t) \in {r \in Hourly!Rows : r < t} \cup {-1}
         /\ \A r \in Hourly!Rows : r < t => r <= Hourly!Before(t)
<1> DEFINE S == {r \in Hourly!Rows : r < t} \cup {-1}
<1>1. S \in SUBSET (-1..n) /\ S # {}
  <2>1. -1 \in -1..n /\ 0..n \subseteq -1..n
    OBVIOUS
  <2>2. QED
    BY <2>1
<1>2. Hourly!Before(t) = Hourly!Max(S)
  BY DEF Hourly!Before
<1>3. \A r \in Hourly!Rows : r < t => r \in S
  OBVIOUS
<1> HIDE DEF S
<1>4. Hourly!Before(t) \in S /\ \A r \in S : r <= Hourly!Before(t)
  BY <1>1, <1>2, MaxIs
<1>5. QED
  BY <1>3, <1>4 DEF S

\* The rows kept come after the first return, whose row is after another.
LEMMA KeptAre ==
  ASSUME HoursInv, Hourly!HasLastData, LastHour \in Nat, Hourly!Kept # {}
  PROVE  /\ Hourly!Max(Hourly!Kept) = hourly - 1
         /\ \E first \in Hourly!Rows, b \in Assets :
              /\ Hourly!Before(first) \in Hourly!Range(candles[b])
              /\ Hourly!Before(first) \in Nat /\ Hourly!Before(first) < first
              /\ \A t \in Hourly!Kept : t \in Hourly!Rows /\ first < t
<1> DEFINE n == hourly - 1
           first == Hourly!Min(Hourly!Returns)
<1>1. /\ Hourly!Rows \subseteq 0..n /\ hourly \in Nat
      /\ \A a \in Assets : n \in Hourly!Range(candles[a]) /\ Hourly!Range(candles[a]) \subseteq Hourly!Rows
      /\ \A t \in Hourly!Rows : \E a \in Assets : t \in Hourly!Range(candles[a])
  BY RowsAre
<1> HIDE DEF n
<1>2. PICK k \in Hourly!Kept : TRUE
  OBVIOUS
<1>3. Hourly!Returns \subseteq Hourly!Rows /\ k \in Hourly!Returns /\ k # first
  BY <1>2 DEF Hourly!Kept, Hourly!Returns
<1>4. n \in Nat /\ n \in Hourly!Rows
  <2>1. k \in 0..n /\ n \in Int
    BY <1>1, <1>3 DEF n
  <2>2. \E a \in Assets : TRUE
    BY <1>1, <1>3
  <2>3. QED
    BY <1>1, <2>1, <2>2
<1>5. first \in Hourly!Returns /\ \A y \in Hourly!Returns : first <= y
  <2>1. Hourly!Returns \in SUBSET (0..n) /\ Hourly!Returns # {}
    BY <1>1, <1>3
  <2>2. QED
    BY <1>4, <2>1, MinIs
<1> HIDE DEF first
<1>6. \A t \in Hourly!Kept : t \in Hourly!Returns /\ t # first
  BY DEF Hourly!Kept, first
<1>7. \A t \in Hourly!Kept : t \in Hourly!Rows /\ first < t
  BY <1>1, <1>3, <1>5, <1>6
<1>8. PICK b \in Assets : Hourly!HasReturn(b, first)
  BY <1>5 DEF Hourly!Returns
<1>9. Hourly!Before(first) \in Hourly!Rows /\ Hourly!Before(first) \in Hourly!Range(candles[b])
  BY <1>1, <1>8 DEF Hourly!HasReturn
<1>10. Hourly!Before(first) \in Nat /\ Hourly!Before(first) < first
  <2>1. /\ first \in Hourly!Rows
        /\ Hourly!Before(first) \in {r \in Hourly!Rows : r < first} \cup {-1}
    BY <1>1, <1>3, <1>4, <1>5, BeforeIs
  <2>2. Hourly!Before(first) \in 0..n
    BY <1>1, <1>9
  <2>3. QED
    BY <2>1, <2>2
<1>11. n \in Hourly!Kept
  <2>1. first < n
    <3>1. k \in 0..n /\ first \in 0..n /\ first < k
      BY <1>1, <1>2, <1>3, <1>5, <1>7
    <3>2. QED
      BY <1>4, <3>1
  <2>2. Hourly!Before(n) \in Hourly!Rows
    <3>1. first <= Hourly!Before(n)
      BY <1>1, <1>3, <1>4, <1>5, <2>1, BeforeIs
    <3>2. Hourly!Before(n) # -1
      BY <1>1, <1>3, <1>5, <3>1
    <3>3. QED
      BY <1>1, <1>4, <3>2, BeforeIs
  <2>3. PICK a \in Assets : Hourly!Before(n) \in Hourly!Range(candles[a])
    BY <1>1, <2>2
  <2>4. n \in Hourly!Returns
    BY <1>1, <1>4, <2>3 DEF Hourly!Returns, Hourly!HasReturn
  <2>5. QED
    BY <1>1, <1>3, <1>5, <2>1, <2>4 DEF Hourly!Kept, first
<1>12. Hourly!Max(Hourly!Kept) = n
  <2>1. Hourly!Kept \in SUBSET (-1..n) /\ Hourly!Kept # {}
    <3>1. 0..n \subseteq -1..n
      BY <1>4
    <3>2. Hourly!Kept \subseteq 0..n
      BY <1>1, <1>7
    <3>3. QED
      BY <1>2, <3>1, <3>2
  <2>2. Hourly!Max(Hourly!Kept) \in Hourly!Kept /\ n <= Hourly!Max(Hourly!Kept)
    BY <1>4, <1>11, <2>1, MaxIs
  <2>3. Hourly!Max(Hourly!Kept) \in 0..n
    BY <1>1, <1>7, <2>2
  <2>4. QED
    BY <1>4, <2>2, <2>3
<1>13. QED
  BY <1>3, <1>5, <1>7, <1>9, <1>10, <1>12 DEF n

\* An asset without a hole has every return kept, or another's rows begin two hours before.
LEMMA GaplessIsSelected ==
  ASSUME HoursInv, Hourly!HasLastData, LastHour \in Nat, Hourly!Kept # {},
         NEW a \in Assets, Hourly!Gapless(candles[a])
  PROVE  \/ a \in Hourly!Selected
         \/ \E b \in Assets : Hourly!Min(Hourly!Range(candles[b])) <= Hourly!Min(Hourly!Range(candles[a])) - 2
<1> DEFINE n == hourly - 1
           least(b) == Hourly!Min(Hourly!Range(candles[b]))
<1>1. /\ Hourly!Rows \subseteq 0..n /\ hourly \in Nat
      /\ \A b \in Assets : /\ Hourly!Last(candles[b]) = n /\ n \in Hourly!Range(candles[b])
                           /\ Hourly!Range(candles[b]) \subseteq Hourly!Rows
  BY RowsAre
<1>2. PICK first \in Hourly!Rows, b \in Assets :
        /\ Hourly!Before(first) \in Hourly!Range(candles[b])
        /\ Hourly!Before(first) \in Nat /\ Hourly!Before(first) < first
        /\ \A t \in Hourly!Kept : t \in Hourly!Rows /\ first < t
  BY KeptAre
<1> HIDE DEF n
<1>3. n \in Nat
  <2>1. n \in Int /\ first \in 0..n
    BY <1>1 DEF n
  <2>2. QED
    BY <2>1
<1>4. \A c \in Assets : least(c) \in Hourly!Range(candles[c]) /\ \A y \in Hourly!Range(candles[c]) : least(c) <= y
  <2>1. \A c \in Assets : Hourly!Range(candles[c]) \in SUBSET (0..n) /\ Hourly!Range(candles[c]) # {}
    BY <1>1
  <2>2. QED
    BY <1>3, <2>1, MinIs
<1>5. Hourly!Range(candles[a]) = least(a)..n
  BY <1>1 DEF Hourly!Gapless
<1>6. least(a) \in Nat /\ least(b) \in Nat /\ least(b) <= Hourly!Before(first)
  <2>1. least(a) \in 0..n /\ least(b) \in 0..n
    BY <1>1, <1>4
  <2>2. least(b) <= Hourly!Before(first)
    BY <1>2, <1>4
  <2> HIDE DEF least
  <2>3. QED
    BY <1>3, <2>1, <2>2
<1> HIDE DEF least
<1>7. ASSUME a \notin Hourly!Selected PROVE least(b) <= least(a) - 2
  <2>1. PICK t \in Hourly!Kept : ~Hourly!HasReturn(a, t)
    BY <1>7 DEF Hourly!Selected
  <2>2. t \in Hourly!Rows /\ first < t /\ t \in 0..n /\ first \in 0..n
    BY <1>1, <1>2, <2>1
  <2>3. first <= Hourly!Before(t) /\ Hourly!Before(t) < t /\ Hourly!Before(t) \in Int
    <3>1. /\ Hourly!Before(t) \in {r \in Hourly!Rows : r < t} \cup {-1}
          /\ first <= Hourly!Before(t)
      BY <1>1, <1>3, <2>2, BeforeIs
    <3>2. Hourly!Before(t) \in 0..n \/ Hourly!Before(t) = -1
      BY <1>1, <3>1
    <3>3. QED
      BY <1>3, <2>2, <3>1, <3>2
  <2>4. t < least(a) \/ Hourly!Before(t) < least(a)
    <3>1. t \notin least(a)..n \/ Hourly!Before(t) \notin least(a)..n
      BY <1>5, <2>1 DEF Hourly!HasReturn
    <3>2. QED
      BY <1>3, <1>6, <2>2, <2>3, <3>1
  <2>5. QED
    BY <1>2, <1>6, <2>2, <2>3, <2>4
<1>8. QED
  BY <1>7 DEF least

-----------------------------------------------------------------------------
\* The sum of a function is that of its first value and of the rest.
LEMMA SumUnfolds ==
  ASSUME NEW f
  PROVE  Hourly!SumFunction(f) =
           (CHOOSE iter : iter = [s \in SUBSET DOMAIN f |->
              IF s = {} THEN 0
              ELSE f[CHOOSE x \in s : TRUE] + iter[s \ {CHOOSE x \in s : TRUE}]])[DOMAIN f]
  BY Zenon DEF Hourly!SumFunction, Hourly!SumFunctionOnSet, Hourly!FoldFunctionOnSet, Hourly!MapThenFoldSet

Having(f, s, v) == {x \in s : f[x] = v}
SignsIn(f, s) == Cardinality(Having(f, s, 1)) - Cardinality(Having(f, s, -1))

LEMMA SignsStep ==
  ASSUME NEW f, NEW s, IsFiniteSet(s), NEW x \in s, f[x] \in {-1, 0, 1}
  PROVE  /\ SignsIn(f, s) \in Int
         /\ SignsIn(f, s) = f[x] + SignsIn(f, s \ {x})
<1>1. ASSUME NEW v
      PROVE  /\ Cardinality(Having(f, s, v)) \in Nat
             /\ Cardinality(Having(f, s \ {x}, v)) =
                  IF f[x] = v THEN Cardinality(Having(f, s, v)) - 1 ELSE Cardinality(Having(f, s, v))
  <2>1. IsFiniteSet(Having(f, s, v))
    BY FS_Subset DEF Having
  <2>2. Having(f, s \ {x}, v) = Having(f, s, v) \ {x} /\ (x \in Having(f, s, v) <=> f[x] = v)
    BY DEF Having
  <2>3. QED
    BY <2>1, <2>2, FS_CardinalityType, FS_RemoveElement
<1> DEFINE a(v) == Cardinality(Having(f, s, v))
           b(v) == Cardinality(Having(f, s \ {x}, v))
<1>2. \A v : a(v) \in Nat /\ b(v) = IF f[x] = v THEN a(v) - 1 ELSE a(v)
  BY <1>1
<1>3. SignsIn(f, s) = a(1) - a(-1) /\ SignsIn(f, s \ {x}) = b(1) - b(-1)
  BY DEF SignsIn
<1> HIDE DEF a, b
<1>4. /\ a(1) \in Nat /\ a(-1) \in Nat
      /\ b(1) = IF f[x] = 1 THEN a(1) - 1 ELSE a(1)
      /\ b(-1) = IF f[x] = -1 THEN a(-1) - 1 ELSE a(-1)
  BY <1>2
<1>5. QED
  BY <1>3, <1>4

\* Of signs it is by how many the positive are more than the negative.
LEMMA SumOfSigns ==
  ASSUME NEW S, IsFiniteSet(S), NEW f \in [S -> {-1, 0, 1}]
  PROVE  Hourly!SumFunction(f) = SignsIn(f, S)
<1> DEFINE any(s) == CHOOSE x \in s : TRUE
           Sums(g) == g = [s \in SUBSET S |-> IF s = {} THEN 0 ELSE f[any(s)] + g[s \ {any(s)}]]
           g == CHOOSE h : Sums(h)
           h == [s \in SUBSET S |-> SignsIn(f, s)]
<1>1. \A s \in SUBSET S : IsFiniteSet(s)
  BY FS_Subset
<1>2. \A s : s # {} => any(s) \in s
  OBVIOUS
<1>3. SignsIn(f, {}) = 0
  <2>1. Having(f, {}, 1) = {} /\ Having(f, {}, -1) = {}
    BY DEF Having
  <2>2. QED
    BY <2>1, FS_EmptySet DEF SignsIn
<1> HIDE DEF any
<1>4. \A s \in SUBSET S : s # {} => SignsIn(f, s) = f[any(s)] + SignsIn(f, s \ {any(s)})
  BY <1>1, <1>2, SignsStep
<1>5. Sums(h)
  <2>1. \A s \in SUBSET S : h[s] = IF s = {} THEN 0 ELSE f[any(s)] + h[s \ {any(s)}]
    BY <1>3, <1>4
  <2>2. QED
    BY <2>1, Zenon
<1> HIDE DEF h
<1>6. Sums(g)
  BY <1>5, Zenon
<1> HIDE DEF g
<1>7. \A s \in SUBSET S : g[s] = IF s = {} THEN 0 ELSE f[any(s)] + g[s \ {any(s)}]
  BY <1>6, Zenon
<1> DEFINE Bad == {s \in SUBSET S : g[s] # SignsIn(f, s)}
<1>8. ASSUME Bad # {} PROVE FALSE
  <2>1. Bad \subseteq FiniteSubsetsOf(S)
    BY <1>1 DEF FiniteSubsetsOf
  <2>2. PICK s \in Bad : \A t \in Bad : <<t, s>> \notin StrictSubsetOrdering(S)
    <3> HIDE DEF Bad
    <3>1. QED
      BY <1>8, <2>1, FS_StrictSubsetOrderingWellFounded, WFMin
  <2>3. s \in SUBSET S /\ g[s] # SignsIn(f, s)
    BY <2>2
  <2>4. s # {}
    BY <1>3, <1>7, <2>3
  <2> DEFINE t == s \ {any(s)}
  <2>5. t \in SUBSET S /\ <<t, s>> \in StrictSubsetOrdering(S)
    BY <1>2, <2>3, <2>4 DEF StrictSubsetOrdering
  <2>6. g[t] = SignsIn(f, t)
    BY <2>2, <2>5
  <2>7. g[s] = f[any(s)] + g[t] /\ SignsIn(f, s) = f[any(s)] + SignsIn(f, t)
    BY <1>4, <1>7, <2>3, <2>4
  <2>8. QED
    BY <2>3, <2>6, <2>7
<1>9. g[S] = SignsIn(f, S)
  BY <1>8
<1>10. Hourly!SumFunction(f) = g[S]
  <2>1. DOMAIN f = S
    OBVIOUS
  <2>2. QED
    BY <2>1, SumUnfolds, Zenon DEF g, any
<1>11. QED
  BY <1>9, <1>10

-----------------------------------------------------------------------------
\* What is counted in TargetSentinel is counted here.
LEMMA HourlyCounts == \A S : Hourly!Cardinality(S) = Cardinality(S) /\ (Hourly!IsFiniteSet(S) <=> IsFiniteSet(S))
<1>1. ASSUME NEW S PROVE Hourly!Cardinality(S) = Cardinality(S)
  BY DEF Cardinality, Hourly!Cardinality, IsFiniteSet, Hourly!IsFiniteSet
<1>2. ASSUME NEW S PROVE Hourly!IsFiniteSet(S) <=> IsFiniteSet(S)
  BY DEF IsFiniteSet, Hourly!IsFiniteSet
<1>3. QED
  BY <1>1, <1>2

Below(f, a) == {b \in DOMAIN f : f[b] < f[a]}
Level(f, a) == {b \in DOMAIN f : f[b] = f[a]}

LEMMA RankIs ==
  ASSUME NEW S, IsFiniteSet(S), NEW f \in [S -> Int], NEW a \in S
  PROVE  /\ Hourly!Rank(a, f) = 2 * Cardinality(Below(f, a)) + Cardinality(Level(f, a)) + 1
         /\ IsFiniteSet(Below(f, a)) /\ IsFiniteSet(Level(f, a))
         /\ Cardinality(Below(f, a)) \in Nat /\ Cardinality(Level(f, a)) \in Nat
         /\ Cardinality(Level(f, a)) >= 1
<1>1. /\ Below(f, a) = {b \in DOMAIN f : f[b] < f[a]} /\ Level(f, a) = {b \in DOMAIN f : f[b] = f[a]}
      /\ Below(f, a) \in SUBSET S /\ Level(f, a) \in SUBSET S /\ a \in Level(f, a)
  BY DEF Below, Level
<1>2. IsFiniteSet(Below(f, a)) /\ IsFiniteSet(Level(f, a))
  BY <1>1, FS_Subset
<1>3. Cardinality(Below(f, a)) \in Nat /\ Cardinality(Level(f, a)) \in Nat
  BY <1>2, FS_CardinalityType
<1>4. Cardinality(Level(f, a)) # 0
  BY <1>1, <1>2, FS_EmptySet
<1>5. Hourly!Rank(a, f) = 2 * Cardinality(Below(f, a)) + Cardinality(Level(f, a)) + 1
  BY <1>1, HourlyCounts DEF Hourly!Rank
<1>6. QED
  BY <1>2, <1>3, <1>4, <1>5

\* The higher the score the higher the rank.
LEMMA RankGrows ==
  ASSUME NEW S, IsFiniteSet(S), NEW f \in [S -> Int], NEW a \in S, NEW b \in S, f[a] < f[b]
  PROVE  /\ Hourly!Rank(a, f) \in Int /\ Hourly!Rank(b, f) \in Int
         /\ Hourly!Rank(a, f) < Hourly!Rank(b, f)
         /\ Cardinality(Below(f, a)) < Cardinality(Below(f, b))
<1> DEFINE A == Below(f, a)
           L == Level(f, a)
           B == Below(f, b)
<1>1. /\ IsFiniteSet(A) /\ IsFiniteSet(L) /\ IsFiniteSet(B)
      /\ Cardinality(A) \in Nat /\ Cardinality(L) \in Nat /\ Cardinality(B) \in Nat
      /\ Cardinality(L) >= 1 /\ Cardinality(Level(f, b)) \in Nat /\ Cardinality(Level(f, b)) >= 1
      /\ Hourly!Rank(a, f) = 2 * Cardinality(A) + Cardinality(L) + 1
      /\ Hourly!Rank(b, f) = 2 * Cardinality(B) + Cardinality(Level(f, b)) + 1
  BY RankIs
<1>2. A \cup L \in SUBSET B /\ A \cap L = {}
  <2>1. \A c \in S : f[c] \in Int
    OBVIOUS
  <2>2. QED
    BY <2>1 DEF Below, Level
<1> HIDE DEF A, L, B
<1>3. Cardinality(A \cup L) = Cardinality(A) + Cardinality(L)
  <2>1. Cardinality(A \cup L) = Cardinality(A) + Cardinality(L) - Cardinality(A \cap L)
    BY <1>1, FS_Union
  <2>2. Cardinality(A \cap L) = 0
    BY <1>2, FS_EmptySet
  <2>3. QED
    BY <1>1, <2>1, <2>2
<1>4. Cardinality(A \cup L) <= Cardinality(B)
  BY <1>1, <1>2, FS_Subset
<1>5. /\ Hourly!Rank(a, f) \in Int /\ Hourly!Rank(b, f) \in Int
      /\ Hourly!Rank(a, f) < Hourly!Rank(b, f) /\ Cardinality(A) < Cardinality(B)
  BY <1>1, <1>3, <1>4
<1>6. QED
  BY <1>5 DEF A, B

Minus(f) == [b \in DOMAIN f |-> -f[b]]
Share(f) == 2 * Threshold * Hourly!Cardinality(DOMAIN f)
\* What is bought for its scores, and sold for the same turned round
Bought(f) == {a \in DOMAIN f : 10 * Hourly!Rank(a, f) <= Share(f)}

LEMMA SignalIs ==
  ASSUME NEW S, NEW f \in [S -> Int], NEW a \in S
  PROVE  /\ Hourly!Signal(a, f) = (IF a \in Bought(f) THEN 1 ELSE 0) - (IF a \in Bought(Minus(f)) THEN 1 ELSE 0)
         /\ Minus(f) \in [S -> Int] /\ Share(Minus(f)) = Share(f)
<1>1. Minus(f) \in [S -> Int] /\ DOMAIN Minus(f) = DOMAIN f /\ DOMAIN f = S
  BY DEF Minus
<1>2. Share(Minus(f)) = Share(f)
  BY <1>1 DEF Share
<1>3. Hourly!Signal(a, f) = (IF 10 * Hourly!Rank(a, f) <= Share(f) THEN 1 ELSE 0)
                              - (IF 10 * Hourly!Rank(a, Minus(f)) <= Share(f) THEN 1 ELSE 0)
  BY Zenon DEF Hourly!Signal, Share, Minus
<1>4. QED
  BY <1>1, <1>2, <1>3 DEF Bought

LEMMA SignalFalls ==
  ASSUME NEW S, IsFiniteSet(S), NEW f \in [S -> Int], NEW a \in S, NEW b \in S, f[a] < f[b],
         Threshold \in Nat
  PROVE  Hourly!Signal(a, f) >= Hourly!Signal(b, f)
<1>1. /\ Hourly!Rank(a, f) \in Int /\ Hourly!Rank(b, f) \in Int
      /\ Hourly!Rank(a, f) < Hourly!Rank(b, f)
  BY RankGrows
<1>2. Minus(f) \in [S -> Int] /\ Share(Minus(f)) = Share(f) /\ DOMAIN f = S /\ DOMAIN Minus(f) = S
  BY SignalIs
<1>3. Minus(f)[b] < Minus(f)[a]
  <2>1. f[a] \in Int /\ f[b] \in Int /\ Minus(f)[a] = -f[a] /\ Minus(f)[b] = -f[b]
    BY DEF Minus
  <2>2. QED
    BY <2>1
<1>4. /\ Hourly!Rank(a, Minus(f)) \in Int /\ Hourly!Rank(b, Minus(f)) \in Int
      /\ Hourly!Rank(b, Minus(f)) < Hourly!Rank(a, Minus(f))
  BY <1>2, <1>3, RankGrows
<1>5. Share(f) \in Int
  <2>1. Hourly!Cardinality(DOMAIN f) \in Nat
    BY <1>2, HourlyCounts, FS_CardinalityType
  <2>2. QED
    BY <2>1 DEF Share
<1>6. b \in Bought(f) => a \in Bought(f)
  BY <1>1, <1>2, <1>5 DEF Bought
<1>7. a \in Bought(Minus(f)) => b \in Bought(Minus(f))
  BY <1>2, <1>4, <1>5 DEF Bought
<1>8. /\ Hourly!Signal(a, f) = (IF a \in Bought(f) THEN 1 ELSE 0) - (IF a \in Bought(Minus(f)) THEN 1 ELSE 0)
      /\ Hourly!Signal(b, f) = (IF b \in Bought(f) THEN 1 ELSE 0) - (IF b \in Bought(Minus(f)) THEN 1 ELSE 0)
  BY SignalIs
<1>9. QED
  BY <1>6, <1>7, <1>8

\* Where no scores are equal, the places of the assets are all from the first to the last.
LEMMA PlacesCount ==
  ASSUME NEW S, IsFiniteSet(S), NEW f \in [S -> Int], \A a, b \in S : f[a] = f[b] => a = b
  PROVE  Cardinality(Bought(f)) =
           Cardinality({i \in 0..Cardinality(S) - 1 : 10 * (2 * i + 2) <= Share(f)})
<1> DEFINE n == Cardinality(S)
           p == [a \in S |-> Cardinality(Below(f, a))]
<1>1. n \in Nat /\ IsFiniteSet(0..n - 1) /\ Cardinality(0..n - 1) = n
  <2>1. n \in Nat
    BY FS_CardinalityType
  <2> HIDE DEF n
  <2>2. QED
    BY <2>1, FS_Interval
<1>2. ASSUME NEW a \in S
      PROVE  p[a] \in 0..n - 1 /\ Hourly!Rank(a, f) = 2 * p[a] + 2
  <2>1. /\ Hourly!Rank(a, f) = 2 * Cardinality(Below(f, a)) + Cardinality(Level(f, a)) + 1
        /\ Cardinality(Below(f, a)) \in Nat
    BY RankIs
  <2>2. Level(f, a) = {a}
    BY DEF Level
  <2>3. Cardinality(Level(f, a)) = 1
    BY <2>2, FS_Singleton
  <2>4. Cardinality(Below(f, a)) <= n - 1
    <3>1. Below(f, a) \in SUBSET (S \ {a})
      <4>1. f[a] \in Int /\ ~(f[a] < f[a])
        OBVIOUS
      <4>2. QED
        BY <4>1 DEF Below
    <3>2. IsFiniteSet(S \ {a}) /\ Cardinality(S \ {a}) = n - 1
      BY FS_RemoveElement
    <3>3. QED
      BY <3>1, <3>2, FS_Subset
  <2> HIDE DEF n
  <2>5. QED
    BY <1>1, <2>1, <2>3, <2>4
<1>3. \A a, b \in S : p[a] = p[b] => a = b
  <2>1. ASSUME NEW a \in S, NEW b \in S, f[a] < f[b] PROVE p[a] < p[b]
    BY <2>1, RankGrows
  <2>2. \A a \in S : p[a] \in Int /\ f[a] \in Int
    BY <1>1, <1>2
  <2> HIDE DEF p
  <2>3. QED
    BY <2>1, <2>2
<1>4. p \in [S -> 0..n - 1]
  BY <1>2
<1> HIDE DEF p
<1>5. p \in Surjection(S, 0..n - 1)
  <2>1. p \in Injection(S, 0..n - 1)
    BY <1>3, <1>4, Fun_IsInj
  <2> DEFINE T == 0..n - 1
  <2>2. p \in Injection(S, T) /\ IsFiniteSet(T) /\ Cardinality(S) = Cardinality(T)
    BY <1>1, <2>1
  <2> HIDE DEF T, n
  <2>3. p \in Surjection(S, T)
    BY <2>2, FS_Injection
  <2>4. QED
    BY <2>3 DEF T
<1>6. \A i \in 0..n - 1 : \E a \in S : p[a] = i
  BY <1>5, Fun_SurjectionProperties
<1> DEFINE I == {i \in 0..n - 1 : 10 * (2 * i + 2) <= Share(f)}
           q == [a \in Bought(f) |-> p[a]]
<1> HIDE DEF n
<1>7. Bought(f) = {a \in S : 10 * (2 * p[a] + 2) <= Share(f)}
  BY <1>2 DEF Bought
<1>8. q \in Bijection(Bought(f), I)
  <2>1. q \in [Bought(f) -> I]
    BY <1>4, <1>7
  <2>2. \A a, b \in Bought(f) : q[a] = q[b] => a = b
    BY <1>3, <1>7
  <2>3. \A i \in I : \E a \in Bought(f) : q[a] = i
    BY <1>6, <1>7
  <2> HIDE DEF q, I
  <2>4. QED
    BY <2>1, <2>2, <2>3, Fun_IsBij
<1>9. IsFiniteSet(Bought(f))
  BY <1>7, FS_Subset
<1> HIDE DEF I, q
<1>10. Cardinality(I) = Cardinality(Bought(f))
  BY <1>8, <1>9, Fun_ExistsBij, FS_Bijection
<1>11. QED
  BY <1>10 DEF I, n

\* As many are sold as are bought, and those that are both count for nothing.
LEMMA AsManySold ==
  ASSUME NEW S, IsFiniteSet(S), NEW f \in [S -> Int], \A a, b \in S : f[a] = f[b] => a = b
  PROVE  Hourly!SumFunction([a \in S |-> Hourly!Signal(a, f)]) = 0
<1> DEFINE g == [a \in S |-> Hourly!Signal(a, f)]
           B == Bought(f)
           C == Bought(Minus(f))
<1>1. Minus(f) \in [S -> Int] /\ Share(Minus(f)) = Share(f)
  <2>1. DOMAIN f = S
    OBVIOUS
  <2>2. QED
    BY <2>1 DEF Minus, Share
<1>2. \A a, b \in S : Minus(f)[a] = Minus(f)[b] => a = b
  <2>1. \A a \in S : f[a] \in Int /\ Minus(f)[a] = -f[a]
    BY DEF Minus
  <2>2. ASSUME NEW a \in S, NEW b \in S, Minus(f)[a] = Minus(f)[b] PROVE f[a] = f[b]
    BY <2>1, <2>2
  <2>3. QED
    BY <2>2
<1>3. Cardinality(B) = Cardinality(C)
  <2> DEFINE F == Minus(f)
  <2>1. F \in [S -> Int] /\ \A a, b \in S : F[a] = F[b] => a = b
    BY <1>1, <1>2
  <2> HIDE DEF F
  <2>2. Cardinality(Bought(F)) =
           Cardinality({i \in 0..Cardinality(S) - 1 : 10 * (2 * i + 2) <= Share(F)})
    BY <2>1, PlacesCount
  <2>3. Cardinality(Bought(f)) =
           Cardinality({i \in 0..Cardinality(S) - 1 : 10 * (2 * i + 2) <= Share(f)})
    BY PlacesCount
  <2>4. QED
    BY <1>1, <2>2, <2>3 DEF F
<1>4. \A a \in S : g[a] = (IF a \in B THEN 1 ELSE 0) - (IF a \in C THEN 1 ELSE 0)
  BY SignalIs
<1>5. B \in SUBSET S /\ C \in SUBSET S /\ IsFiniteSet(B) /\ IsFiniteSet(C)
  <2>1. B \in SUBSET S /\ C \in SUBSET S
    BY <1>1 DEF Bought
  <2>2. QED
    BY <2>1, FS_Subset
<1> HIDE DEF B, C
<1>6. g \in [S -> {-1, 0, 1}]
  BY <1>4
<1>7. Having(g, S, 1) = B \ C /\ Having(g, S, -1) = C \ B
  BY <1>4, <1>5 DEF Having
<1>8. /\ Cardinality(B \ C) = Cardinality(B) - Cardinality(B \cap C)
      /\ Cardinality(C \ B) = Cardinality(C) - Cardinality(C \cap B)
  BY <1>5, FS_Difference
<1>9. B \cap C = C \cap B
  OBVIOUS
<1>10. Cardinality(B) \in Nat /\ Cardinality(B \cap C) \in Nat
  BY <1>5, FS_Intersection, FS_CardinalityType
<1> HIDE DEF g
<1>11. SignsIn(g, S) = 0
  <2>1. SignsIn(g, S) = Cardinality(B \ C) - Cardinality(C \ B)
    BY <1>7 DEF SignsIn
  <2>2. Cardinality(C \cap B) = Cardinality(B \cap C)
    BY <1>9
  <2>3. QED
    BY <1>3, <1>8, <1>10, <2>1, <2>2
<1>12. QED
  BY <1>6, <1>11, SumOfSigns DEF g

LEMMA HoursKeepTargets ==
  ASSUME Hourly!TargetSentinelAssumption, HoursInv, Hourly!Next, written' # written
  PROVE  /\ written'.stamp = hourly - 1
         /\ \A a \in Assets : Hourly!Gapless(candles[a]) =>
              \/ a \in DOMAIN written'.targets
              \/ \E b \in Assets : Hourly!Min(Hourly!Range(candles[b])) <= Hourly!Min(Hourly!Range(candles[a])) - 2
         /\ \A a, b \in DOMAIN written'.targets :
              written'.scores[a] < written'.scores[b] => written'.targets[a] >= written'.targets[b]
         /\ Hourly!IsInjective(written'.scores) => Hourly!SumFunction(written'.targets) = 0
<1> DEFINE S == Hourly!Selected
           few == Hourly!Cardinality(Hourly!Kept) <= Rolling
<1>1. PICK scores \in [S -> Scores] : Hourly!SaveTargets(scores)
  BY DEF Hourly!Next, Hourly!Tick, Hourly!UpdateTargets, Hourly!Retry, Hourly!GiveUp,
     Hourly!Store, Hourly!OnCandleEvent
<1>2. /\ Hourly!HasLastData /\ Hourly!Kept # {}
      /\ written'.stamp = Hourly!Max(Hourly!Kept) /\ written'.scores = scores
      /\ written'.targets = [a \in S |-> IF few THEN 0 ELSE Hourly!Signal(a, scores)]
  BY <1>1 DEF Hourly!SaveTargets
<1>3. LastHour \in Nat /\ Threshold \in Nat /\ Scores \subseteq Int /\ IsFiniteSet(Assets)
  BY HourlyCounts DEF Hourly!TargetSentinelAssumption
<1>4. S \in SUBSET Assets /\ IsFiniteSet(S) /\ scores \in [S -> Int]
  <2>1. S \in SUBSET Assets
    BY DEF Hourly!Selected
  <2>2. IsFiniteSet(S)
    BY <1>3, <2>1, FS_Subset
  <2>3. QED
    BY <1>1, <1>3, <2>1, <2>2
<1>5. written'.stamp = hourly - 1
  BY <1>2, <1>3, KeptAre
<1>6. ASSUME NEW a \in Assets, Hourly!Gapless(candles[a])
      PROVE  \/ a \in DOMAIN written'.targets
             \/ \E b \in Assets : Hourly!Min(Hourly!Range(candles[b])) <= Hourly!Min(Hourly!Range(candles[a])) - 2
  BY <1>2, <1>3, <1>6, GaplessIsSelected
<1> HIDE DEF S, few
<1>7. DOMAIN written'.targets = S
  BY <1>2
<1>8. ASSUME NEW a \in S, NEW b \in S, scores[a] < scores[b]
      PROVE  written'.targets[a] >= written'.targets[b]
  <2>1. Hourly!Signal(a, scores) >= Hourly!Signal(b, scores)
    BY <1>3, <1>4, <1>8, SignalFalls
  <2>2. QED
    BY <1>2, <2>1
<1>9. ASSUME Hourly!IsInjective(scores) PROVE Hourly!SumFunction(written'.targets) = 0
  <2>1. \A a, b \in S : scores[a] = scores[b] => a = b
    BY <1>4, <1>9 DEF Hourly!IsInjective
  <2>2. CASE ~few
    <3>1. written'.targets = [a \in S |-> Hourly!Signal(a, scores)]
      BY <1>2, <2>2
    <3>2. QED
      BY <1>4, <2>1, <3>1, AsManySold
  <2>3. CASE few
    <3> DEFINE g == [a \in S |-> 0]
    <3>1. written'.targets = g /\ g \in [S -> {-1, 0, 1}]
      BY <1>2, <2>3
    <3>2. Having(g, S, 1) = {} /\ Having(g, S, -1) = {}
      BY DEF Having
    <3> HIDE DEF g
    <3>3. SignsIn(g, S) = 0
      BY <3>2, FS_EmptySet DEF SignsIn
    <3>4. QED
      BY <1>4, <3>1, <3>3, SumOfSigns
  <2>4. QED
    BY <2>2, <2>3
<1>10. QED
  BY <1>2, <1>5, <1>6, <1>7, <1>8, <1>9

LEMMA ServicesKeepHours ==
  ASSUME ServicesAssumption, HoursInv, [ServicesNext]_services
  PROVE  /\ HoursInv'
         /\ Hourly!Next \/ UNCHANGED hours
<1>1. Hourly!TargetSentinelAssumption
  BY DEF ServicesAssumption
<1>2. Hourly!Next \/ UNCHANGED hours
  BY DEF ServicesNext, services
<1>3. [Hourly!Next]_(Hourly!vars)
  BY <1>2 DEF hours, Hourly!vars
<1>4. QED
  BY <1>1, <1>2, <1>3, HoursStep

\* Through candles lost, repeated and late and series loaded again in between, the targets
\* written are of the hour that closed last; an asset whose candles have no hole has one,
\* unless another's begin two hours or more before its own; the lower of two scores is not
\* sold while the other is not, and as many are bought as sold where no scores are equal
\* (target_sentinel.py).
THEOREM TargetsAlwaysOfCandles == ASSUME ServicesAssumption PROVE ServicesSpec => TargetsOfCandles
<1>1. ServicesInit => HoursInv
  BY HoursInit DEF ServicesInit, ServicesAssumption
<1>2. HoursInv /\ [ServicesNext]_services => HoursInv'
  BY ServicesKeepHours
<1>3. HoursInv /\ [ServicesNext]_services =>
       [written' # written =>
          /\ written'.stamp = hourly - 1
          /\ \A a \in Assets : Hourly!Gapless(candles[a]) =>
               \/ a \in DOMAIN written'.targets
               \/ \E b \in Assets : Hourly!Min(Hourly!Range(candles[b])) <= Hourly!Min(Hourly!Range(candles[a])) - 2
          /\ \A a, b \in DOMAIN written'.targets :
               written'.scores[a] < written'.scores[b] => written'.targets[a] >= written'.targets[b]
          /\ Hourly!IsInjective(written'.scores) => Hourly!SumFunction(written'.targets) = 0]_(Hourly!vars)
  <2> SUFFICES ASSUME HoursInv, [ServicesNext]_services, written' # written
               PROVE  /\ written'.stamp = hourly - 1
                      /\ \A a \in Assets : Hourly!Gapless(candles[a]) =>
                           \/ a \in DOMAIN written'.targets
                           \/ \E b \in Assets : Hourly!Min(Hourly!Range(candles[b])) <= Hourly!Min(Hourly!Range(candles[a])) - 2
                      /\ \A a, b \in DOMAIN written'.targets :
                           written'.scores[a] < written'.scores[b] => written'.targets[a] >= written'.targets[b]
                      /\ Hourly!IsInjective(written'.scores) => Hourly!SumFunction(written'.targets) = 0
    OBVIOUS
  <2>1. Hourly!Next
    BY ServicesKeepHours DEF hours
  <2>2. Hourly!TargetSentinelAssumption
    BY DEF ServicesAssumption
  <2>3. QED
    BY <2>1, <2>2, HoursKeepTargets
<1>4. QED
  BY <1>1, <1>2, <1>3, PTL DEF ServicesSpec, TargetsOfCandles, Hourly!TargetsOfCandles

-----------------------------------------------------------------------------
(* The types of all                                                           *)
\* What the daemons' invariant leaves out of their types
ProcessesTyped ==
  /\ feeds \subseteq Fh!Process /\ apis \subseteq Fh!Process
  /\ command.kill \in BOOLEAN /\ command.clear \subseteq Exchanges
  /\ command.first \in Exchanges \cup {Fh!None}
  /\ given \in 0..MaxCommands /\ mishaps \in 0..MaxMishaps
  /\ unkilled \in BOOLEAN /\ bereft \in BOOLEAN

LEMMA DaemonsAreTyped == ASSUME DaemonsInv, ProcessesTyped PROVE Fh!TypeOK
  BY DEF DaemonsInv, CommandTyped, ProcessesTyped, Fh!TypeOK, Fh!None

LEMMA CommandIsTyped ==
  ASSUME Fh!DaemonsAssumption, ProcessesTyped, NEW verb, NEW ids, NEW kill \in BOOLEAN,
         NEW first \in Exchanges \cup {Fh!None}, NEW asked, NEW clear \in SUBSET Exchanges,
         Fh!Give(verb, ids, kill, first, asked, clear), unkilled' \in BOOLEAN
  PROVE  ProcessesTyped'
<1>1. /\ given < MaxCommands /\ given' = given + 1 /\ bereft' = FALSE
      /\ command'.kill = kill /\ command'.first = first /\ command'.clear = clear
      /\ UNCHANGED <<feeds, apis, mishaps>>
  BY DEF Fh!Give
<1>2. given' \in 0..MaxCommands
  BY <1>1 DEF ProcessesTyped, Fh!DaemonsAssumption
<1>3. QED
  BY <1>1, <1>2 DEF ProcessesTyped, Fh!Process, Fh!Channels

LEMMA SpawnedAreTyped ==
  ASSUME Fh!DaemonsAssumption, DaemonsInv, ProcessesTyped, NEW work \in pending,
         Fh!SpawnFeeds(work[1], work[2]) \/ Fh!SpawnApi(work[1])
  PROVE  ProcessesTyped'
<1> DEFINE e == work[1]
           chans == work[2]
<1>1. work \in Exchanges \X SUBSET Fh!Channels /\ active \subseteq Ids
  BY DEF DaemonsInv, CommandTyped
<1>2. e \in Exchanges /\ chans \subseteq Fh!Channels /\ given \in 0..MaxCommands
  BY <1>1 DEF ProcessesTyped
<1> HIDE DEF e, chans
<1>3. ASSUME Fh!SpawnFeeds(e, chans) PROVE ProcessesTyped'
  <2> DEFINE groups == Fh!InstrIdGroups(chans, {i \in command.ids : ExchangeOf[i] = e})
  <2>1. /\ \A p \in feeds' : p \in feeds \/ \E g \in groups : p \in Fh!Feed(e, chans, g)
        /\ UNCHANGED <<apis, command, given, mishaps, unkilled, bereft>>
    BY <1>3 DEF Fh!SpawnFeeds
  <2> HIDE DEF groups
  <2>2. ASSUME NEW g \in groups, NEW p \in Fh!Feed(e, chans, g) PROVE p \in Fh!Process
    <3>1. p = [nr |-> given, exchange |-> e, chans |-> chans, ids |-> g \cap active]
      BY <2>2 DEF Fh!Feed
    <3>2. QED
      BY <1>1, <1>2, <3>1 DEF Fh!Process
  <2>3. QED
    BY <2>1, <2>2 DEF ProcessesTyped, Fh!Process, Fh!Channels
<1>4. ASSUME Fh!SpawnApi(e) PROVE ProcessesTyped'
  <2> DEFINE p0 == [nr |-> given, exchange |-> e, chans |-> {},
                    ids |-> {i \in command.ids : ExchangeOf[i] = e} \cap active]
  <2>1. /\ \A p \in apis' : p \in apis \/ p = p0
        /\ UNCHANGED <<feeds, command, given, mishaps, unkilled, bereft>>
    BY <1>4 DEF Fh!SpawnApi
  <2>2. p0 \in Fh!Process
    BY <1>1, <1>2 DEF Fh!Process
  <2> HIDE DEF p0
  <2>3. QED
    BY <2>1, <2>2 DEF ProcessesTyped, Fh!Process, Fh!Channels
<1>5. QED
  BY <1>3, <1>4 DEF e, chans

LEMMA ProcessesStep ==
  ASSUME Fh!DaemonsAssumption, DaemonsInv, ProcessesTyped, [Fh!Next]_(Fh!vars)
  PROVE  ProcessesTyped'
<1> USE DEF Fh!Process, Fh!Channels
<1>1. unkilled \in BOOLEAN /\ FALSE \in BOOLEAN
  BY DEF ProcessesTyped
<1>2. ASSUME NEW ids \in SUBSET active, NEW chans, NEW modes, NEW no_kill \in BOOLEAN,
             Fh!StartFeeds(ids, chans, modes, no_kill)
      PROVE  ProcessesTyped'
  <2> DEFINE exchs == {ExchangeOf[i] : i \in ids}
             kill == ~no_kill
             verb == "feeds"
  <2>1. PICK first \in exchs :
          Fh!Give(verb, ids, kill, first, FeedsWork(exchs, first, chans, modes),
                  FeedsClear(exchs, first, chans, modes))
    BY <1>2 DEF Fh!StartFeeds, FeedsWork, FeedsClear
  <2>2. unkilled' = (unkilled \/ no_kill)
    BY <1>2 DEF Fh!StartFeeds
  <2>3. kill \in BOOLEAN /\ unkilled' \in BOOLEAN
    BY <1>1, <2>2
  <2>4. exchs \subseteq Exchanges
    BY ExchangesOf
  <2> HIDE DEF verb, kill, exchs
  <2> DEFINE asked == FeedsWork(exchs, first, chans, modes)
             clear == FeedsClear(exchs, first, chans, modes)
  <2>5. Fh!Give(verb, ids, kill, first, asked, clear)
    BY <2>1
  <2>6. first \in Exchanges \cup {Fh!None} /\ clear \in SUBSET Exchanges
    BY <2>4 DEF FeedsClear
  <2> HIDE DEF asked, clear
  <2>7. QED
    BY <2>3, <2>5, <2>6, CommandIsTyped, Zenon
<1>3. ASSUME NEW exchs, NEW chans, NEW modes, Fh!StopFeeds(exchs, chans, modes)
      PROVE  ProcessesTyped'
  <2> DEFINE verb == "stop_feeds"
             none == {}
             yes == TRUE
             asked == exchs \X Fh!ChannelsGroups(chans, modes, TRUE, TRUE)
  <2>1. Fh!Give(verb, none, yes, Fh!None, asked, none) /\ unkilled' = unkilled
    BY <1>3, Zenon DEF Fh!StopFeeds
  <2>2. /\ yes \in BOOLEAN /\ unkilled' \in BOOLEAN /\ none \in SUBSET Exchanges
        /\ Fh!None \in Exchanges \cup {Fh!None}
    BY <1>1, <2>1
  <2> HIDE DEF verb, none, yes, asked
  <2>3. QED
    BY <2>1, <2>2, CommandIsTyped, Zenon
<1>4. ASSUME NEW ids \in SUBSET active, Fh!StartApis(ids) PROVE ProcessesTyped'
  <2> DEFINE exchs == {ExchangeOf[i] : i \in ids}
             verb == "apis"
             yes == TRUE
             asked == exchs \X {{}}
             clear == {e \in exchs : \A f \in exchs : e \in Longer[f] => f = e}
  <2>1. Fh!Give(verb, ids, yes, Fh!None, asked, clear) /\ unkilled' = unkilled
    BY <1>4, Zenon DEF Fh!StartApis
  <2>2. exchs \subseteq Exchanges
    BY ExchangesOf
  <2> HIDE DEF exchs
  <2>3. /\ yes \in BOOLEAN /\ unkilled' \in BOOLEAN /\ clear \in SUBSET Exchanges
        /\ Fh!None \in Exchanges \cup {Fh!None}
    BY <1>1, <2>1, <2>2
  <2> HIDE DEF verb, yes, asked, clear
  <2>4. QED
    BY <2>1, <2>3, CommandIsTyped, Zenon
<1>5. ASSUME NEW exchs, Fh!StopApis(exchs) PROVE ProcessesTyped'
  <2> DEFINE verb == "stop_apis"
             none == {}
             yes == TRUE
             asked == exchs \X {{}}
  <2>1. Fh!Give(verb, none, yes, Fh!None, asked, none) /\ unkilled' = unkilled
    BY <1>5, Zenon DEF Fh!StopApis
  <2>2. /\ yes \in BOOLEAN /\ unkilled' \in BOOLEAN /\ none \in SUBSET Exchanges
        /\ Fh!None \in Exchanges \cup {Fh!None}
    BY <1>1, <2>1
  <2> HIDE DEF verb, none, yes, asked
  <2>3. QED
    BY <2>1, <2>2, CommandIsTyped, Zenon
<1>6. ASSUME NEW work \in pending, Fh!SpawnFeeds(work[1], work[2]) \/ Fh!SpawnApi(work[1])
      PROVE  ProcessesTyped'
  BY <1>6, SpawnedAreTyped
<1>7. ASSUME NEW p \in feeds \cup apis, Fh!Die(p) PROVE ProcessesTyped'
  <2>1. /\ mishaps < MaxMishaps /\ mishaps' = mishaps + 1
        /\ feeds' = feeds \ {p} /\ apis' = apis \ {p} /\ bereft' = (bereft \/ p.nr = given)
        /\ UNCHANGED <<command, given, unkilled>>
    BY <1>7 DEF Fh!Die
  <2>2. mishaps' \in 0..MaxMishaps
    BY <2>1 DEF ProcessesTyped, Fh!DaemonsAssumption
  <2>3. bereft' \in BOOLEAN
    BY <2>1 DEF ProcessesTyped
  <2>4. QED
    BY <2>1, <2>2, <2>3 DEF ProcessesTyped
<1>8. ASSUME NEW i \in Ids, Fh!Delist(i) PROVE ProcessesTyped'
  <2>1. /\ mishaps < MaxMishaps /\ mishaps' = mishaps + 1
        /\ bereft' = (bereft \/ pending # {})
        /\ UNCHANGED <<feeds, apis, command, given, unkilled>>
    BY <1>8 DEF Fh!Delist
  <2>2. mishaps' \in 0..MaxMishaps
    BY <2>1 DEF ProcessesTyped, Fh!DaemonsAssumption
  <2>3. bereft' \in BOOLEAN
    BY <2>1 DEF ProcessesTyped
  <2>4. QED
    BY <2>1, <2>2, <2>3 DEF ProcessesTyped
<1>9. CASE UNCHANGED Fh!vars
  BY <1>9 DEF Fh!vars, ProcessesTyped
<1>10. /\ \A ids : Fh!FromIds(ids) \in SUBSET active
       /\ \A exchs : Fh!FromInfos(exchs) \in SUBSET active
  BY DEF Fh!FromIds, Fh!FromInfos
<1>11. QED
  BY <1>1, <1>2, <1>3, <1>4, <1>5, <1>6, <1>7, <1>8, <1>9, <1>10 DEF Fh!Next

\* What the invariant of the markets leaves out of their types
FeesTyped ==
  /\ venue \in Venues /\ IsFiniteSet(quoted) /\ Cardinality(quoted) <= MaxListed
  /\ \A f \in fee_ids : f \in Norm!Fees
  /\ \A r \in coded : /\ r.maker \in Norm!Fees /\ r.taker \in Norm!Fees
                      /\ r.status \in {"active", "inactive"}
  /\ passes \in 0..MaxPasses /\ moves \in 0..MaxChanges

\* What is counted in NormalizedCodes is counted here.
LEMMA SameCountsOfMarkets ==
  /\ \A S : Norm!Cardinality(S) = Cardinality(S)
  /\ \A S : Norm!IsFiniteSet(S) = IsFiniteSet(S)
<1>1. ASSUME NEW S PROVE Norm!Cardinality(S) = Cardinality(S)
  BY DEF Cardinality, Norm!Cardinality, IsFiniteSet, Norm!IsFiniteSet
<1>2. ASSUME NEW S PROVE Norm!IsFiniteSet(S) = IsFiniteSet(S)
  BY DEF IsFiniteSet, Norm!IsFiniteSet
<1>3. QED
  BY <1>1, <1>2

LEMMA MarketsAreTyped == ASSUME MarketsInv, FeesTyped PROVE Norm!TypeOK
<1>1. /\ settled \subseteq Norm!Loaders(venue)
      /\ loader # Norm!Idle => /\ loader.loader \in Norm!Loaders(venue)
                               /\ loader.todo \subseteq Taken(loader.loader)
  BY DEF MarketsInv, RowsWritten
<1>2. /\ loader.loader \in Norm!Loaders(venue) \cup {"none"}
      /\ loader.todo \subseteq Norm!Fetched(venue, quoted)
  <2>1. CASE loader = Norm!Idle
    BY <2>1 DEF Norm!Idle
  <2>2. CASE loader # Norm!Idle
    BY <1>1, <2>2 DEF Taken
  <2>3. QED
    BY <2>1, <2>2
<1>3. Norm!Cardinality(quoted) <= MaxListed
  BY SameCountsOfMarkets DEF FeesTyped
<1>4. QED
  BY <1>1, <1>2, <1>3 DEF FeesTyped, Norm!TypeOK

LEMMA BoundsOfMarkets ==
  ASSUME Norm!NormalizedCodesAssumption
  PROVE  /\ IsFiniteSet(Markets)
         /\ MaxListed \in Nat /\ MaxPasses \in Nat /\ MaxChanges \in Nat
<1>1. Norm!IsFiniteSet(Markets) /\ MaxListed \in Nat /\ MaxPasses \in Nat /\ MaxChanges \in Nat
  BY Zenon DEF Norm!NormalizedCodesAssumption
<1>2. QED
  BY <1>1, SameCountsOfMarkets

LEMMA FeesInit == ASSUME Norm!NormalizedCodesAssumption, Norm!Init PROVE FeesTyped
<1>1. /\ venue \in Venues /\ fee_ids = {} /\ coded = {} /\ passes = 0 /\ moves = 0
      /\ \E n \in 1..MaxListed : quoted \in SUBSET Markets /\ Norm!Cardinality(quoted) = n
  BY DEF Norm!Init, Norm!kSubset
<1>2. IsFiniteSet(quoted)
  BY <1>1, BoundsOfMarkets, FS_Subset
<1>3. Cardinality(quoted) <= MaxListed
  BY <1>1, SameCountsOfMarkets, BoundsOfMarkets
<1>4. QED
  BY <1>1, <1>2, <1>3, BoundsOfMarkets DEF FeesTyped

LEMMA FeeIsTyped ==
  ASSUME MarketsInv, FeesTyped, NEW l \in Norm!Loaders(venue),
         NEW m \in Norm!Fetched(venue, quoted), NEW t \in {"maker", "taker"}
  PROVE  Norm!FeeDb(l, t, Norm!Percent(l, m, t)) \in Norm!Fees
<1>1. PICK n \in quoted : m = n \/ m = [n EXCEPT !.type = "future", !.expiry = 0,
                                                 !.contract = "linear", !.settle = ""]
  BY FetchedIsListed
<1>2. n \in MarketType
  BY DEF MarketsInv, MarketsListed, Listed
<1>3. m.fee \in [maker : Nat, taker : Nat]
  BY <1>1, <1>2 DEF MarketType
<1>4. m.fee[t] \in Nat
  BY <1>3
<1>5. Norm!Percent(l, m, t) \in Nat
  BY <1>4 DEF Norm!Percent
<1>6. l \in UNION {Norm!Loaders(v) : v \in Venues}
  BY DEF FeesTyped
<1>7. QED
  BY <1>5, <1>6 DEF Norm!FeeDb, Norm!Fees

LEMMA FeesStep ==
  ASSUME Norm!NormalizedCodesAssumption, MarketsInv, FeesTyped, [Norm!Next]_(Norm!vars)
  PROVE  FeesTyped'
<1> USE DEF Norm!Fees
<1>1. ASSUME NEW l, NEW types, Norm!LoadCodes(l, types) PROVE FeesTyped'
  <2>1. /\ passes < MaxPasses /\ passes' = passes + 1 /\ fee_ids' = {}
        /\ UNCHANGED <<venue, quoted, coded, moves>>
    BY <1>1 DEF Norm!LoadCodes
  <2>2. passes' \in 0..MaxPasses
    BY <2>1, BoundsOfMarkets DEF FeesTyped
  <2>3. QED
    BY <2>1, <2>2 DEF FeesTyped
<1>2. ASSUME NEW m \in loader.todo, Norm!FormatInstr(m) PROVE FeesTyped'
  <2> DEFINE l == loader.loader
             fee(t) == Norm!FeeDb(l, t, Norm!Percent(l, m, t))
  <2>1. l \in Norm!Loaders(venue) /\ m \in Norm!Fetched(venue, quoted)
    <3>1. loader # Norm!Idle
      BY <1>2 DEF Norm!Idle
    <3>2. QED
      BY <1>2, <3>1 DEF MarketsInv, RowsWritten, Taken
  <2>2. fee("maker") \in Norm!Fees /\ fee("taker") \in Norm!Fees
    BY <2>1, FeeIsTyped
  <2>3. /\ UNCHANGED <<venue, quoted, passes, moves>>
        /\ \/ UNCHANGED <<fee_ids, coded>>
           \/ /\ fee_ids' = {fee("taker")}
              /\ \A r \in coded' :
                   r \in coded \/ r = [code |-> Norm!InstrCode(l, m), name |-> m.name,
                                       status |-> Norm!InstrStatus(l, m),
                                       maker |-> fee("maker"), taker |-> fee("taker"),
                                       decimals |-> Norm!Decimals(l, m)]
    BY <1>2 DEF Norm!FormatInstr, Norm!Upserted, Norm!FeeId
  <2>4. Norm!InstrStatus(l, m) \in {"active", "inactive"}
    BY DEF Norm!InstrStatus
  <2> HIDE DEF fee, l
  <2>5. QED
    BY <2>2, <2>3, <2>4 DEF FeesTyped
<1>3. ASSUME Norm!Finish PROVE FeesTyped'
  BY <1>3 DEF Norm!Finish, FeesTyped
<1>4. ASSUME NEW m \in quoted, Norm!Change(m) PROVE FeesTyped'
  <2> DEFINE n == [m EXCEPT !.active = ~@, !.tradeable = ~@, !.fee = [@ EXCEPT !["taker"] = 4]]
  <2>1. /\ moves < MaxChanges /\ moves' = moves + 1 /\ quoted' = (quoted \ {m}) \cup {n}
        /\ UNCHANGED <<venue, fee_ids, coded, passes>>
    BY <1>4 DEF Norm!Change
  <2>2. moves' \in 0..MaxChanges
    BY <2>1, BoundsOfMarkets DEF FeesTyped
  <2> HIDE DEF n
  <2>3. /\ IsFiniteSet(quoted \ {m})
        /\ Cardinality(quoted) \in Nat /\ Cardinality(quoted \ {m}) = Cardinality(quoted) - 1
    BY FS_CardinalityType, FS_RemoveElement DEF FeesTyped
  <2>4. IsFiniteSet(quoted') /\ Cardinality(quoted') <= Cardinality(quoted)
    BY <2>1, <2>3, FS_AddElement
  <2>5. Cardinality(quoted') <= MaxListed
    BY <2>3, <2>4, FS_CardinalityType, BoundsOfMarkets DEF FeesTyped
  <2>6. QED
    BY <2>1, <2>2, <2>4, <2>5 DEF FeesTyped
<1>5. CASE UNCHANGED Norm!vars
  BY <1>5 DEF Norm!vars, FeesTyped
<1>6. QED
  BY <1>1, <1>2, <1>3, <1>4, <1>5 DEF Norm!Next

\* Each of the services keeps its state of its type: the balances, buffers, series and tables
\* that the handlers write, whatever the order of their steps, and the fees and the statuses
\* that the loaders derive from the markets of a venue.
THEOREM ServicesAreTyped == ASSUME ServicesAssumption PROVE ServicesSpec => []ServicesTyped
<1> DEFINE Bounds == /\ who = "db" => IInv
                     /\ who = "daemons" => ProcessesTyped
                     /\ who = "markets" => FeesTyped
           Alone == who \in {"db", "sentinel", "dispatch", "recorder", "balances", "codes",
                             "targets", "daemons", "markets", "hours", "files"}
           Values == BalancesInv /\ SentinelInv /\ RecorderInv /\ FilesInv
           Services == DispatchInv /\ CodesInv /\ (who = "markets" => MarketsInv) /\ SeekerInv
                         /\ DaemonsInv /\ HoursInv
           Inv == Alone /\ Bounds /\ Values /\ Services
<1>1. ServicesInit => Inv
  <2> SUFFICES ASSUME ServicesInit PROVE Inv
    OBVIOUS
  <2>1. Values
    BY BalancesInit, SentinelInit, RecorderInit, FilesInit DEF ServicesInit, ServicesAssumption
  <2>2. Services
    BY DispatchInit, CodesInit, MarketsInit, SeekerInit, DaemonsInit, HoursInit
       DEF ServicesInit, ServicesAssumption
  <2>3. Bounds
    <3>1. IInv
      BY DbInit DEF ServicesInit, ServicesAssumption
    <3>2. ProcessesTyped
      <4>1. /\ feeds = {} /\ apis = {} /\ command.kill = FALSE /\ command.clear = {}
            /\ command.first = Fh!None
            /\ given = 0 /\ mishaps = 0 /\ unkilled = FALSE /\ bereft = FALSE
        BY DEF ServicesInit, Fh!Init, Fh!Idle
      <4>2. MaxCommands \in Nat /\ MaxMishaps \in Nat
        BY DEF ServicesAssumption, Fh!DaemonsAssumption
      <4>3. given \in 0..MaxCommands /\ mishaps \in 0..MaxMishaps
        BY <4>1, <4>2
      <4>4. /\ command.kill \in BOOLEAN /\ command.clear \subseteq Exchanges
            /\ command.first \in Exchanges \cup {Fh!None}
            /\ unkilled \in BOOLEAN /\ bereft \in BOOLEAN
        BY <4>1, Zenon
      <4>5. feeds \subseteq Fh!Process /\ apis \subseteq Fh!Process
        BY <4>1, Zenon
      <4>6. QED
        BY <4>3, <4>4, <4>5 DEF ProcessesTyped
    <3>3. who = "markets" => FeesTyped
      BY FeesInit DEF ServicesInit, ServicesAssumption
    <3>4. QED
      BY <3>1, <3>2, <3>3
  <2>4. Alone
    BY DEF ServicesInit
  <2>5. QED
    BY <2>1, <2>2, <2>3, <2>4
<1>2. Inv /\ [ServicesNext]_services => Inv'
  <2> SUFFICES ASSUME Inv, [ServicesNext]_services PROVE Inv'
    OBVIOUS
  <2>1. who' = who
    BY DEF ServicesNext, services
  <2>2. Values'
    BY ServicesKeepBalances, ServicesKeepSentinel, ServicesKeepRecords
  <2>3. Services'
    BY ServicesKeepDispatch, ServicesKeepCodes, ServicesKeepMarkets, ServicesKeepSeeker,
       ServicesKeepDaemons, ServicesKeepHours
  <2>4. who = "db" => IInv'
    <3>1. who = "db" => [Next]_vars
      BY DEF ServicesNext, services
    <3>2. QED
      BY <3>1, StepKeeps DEF ServicesAssumption
  <2>5. who = "daemons" => ProcessesTyped'
    <3>1. Fh!Next \/ UNCHANGED daemons
      BY DEF ServicesNext, services
    <3>2. [Fh!Next]_(Fh!vars)
      BY <3>1 DEF daemons, Fh!vars
    <3>3. QED
      BY <3>2, ProcessesStep DEF ServicesAssumption
  <2>6. who = "markets" => FeesTyped'
    <3>1. Norm!Next \/ UNCHANGED norm
      BY DEF ServicesNext, services
    <3>2. [Norm!Next]_(Norm!vars)
      BY <3>1 DEF norm, Norm!vars
    <3>3. QED
      BY <3>2, FeesStep DEF ServicesAssumption
  <2>7. QED
    BY <2>1, <2>2, <2>3, <2>4, <2>5, <2>6
<1>3. Inv => ServicesTyped
  <2> SUFFICES ASSUME Inv PROVE ServicesTyped
    OBVIOUS
  <2>1. /\ Sent!TypeOK /\ Disp!TypeOK /\ Rec!TypeOK /\ Bal!TypeOK /\ CodesDb!TypeOK
        /\ Tgt!TypeOK /\ Hourly!TypeOK /\ Files!TypeOK
    BY DEF BalancesInv, SentinelInv, RecorderInv, FilesInv, DispatchInv, CodesInv, SeekerInv,
           HoursInv
  <2>2. /\ who = "db" => TypeOK
        /\ who = "daemons" => Fh!TypeOK
        /\ who = "markets" => Norm!TypeOK
    BY DaemonsAreTyped, MarketsAreTyped DEF IInv
  <2>3. QED
    BY <2>1, <2>2 DEF ServicesTyped
<1>4. QED
  BY <1>1, <1>2, <1>3, PTL DEF ServicesSpec

===============================================================================
