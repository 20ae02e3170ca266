------------------------ MODULE InstrOrdersCacheProofs ------------------------
(***************************************************************************)
(* What the merge of two records of an order guarantees, and that a cache  *)
(* entry built with it is the newest of the updates it absorbed, for every *)
(* set of updates.                                                         *)
(***************************************************************************)
EXTENDS InstrOrdersCache, TLAPS

\* latest_status compares by position in a list: every status has one, and no
\* two statuses share it.
LEMMA RankInjective ==
  ASSUME NEW s \in Status, NEW t \in Status
  PROVE  /\ Rank[s] \in Nat
         /\ Rank[s] = Rank[t] => s = t
  BY DEF Status, Rank

\* __or__ returns one of its two operands.
LEMMA MergeSelects ==
  ASSUME NEW a, NEW b
  PROVE  Merge(a, b) = a \/ Merge(a, b) = b
  BY DEF Merge

\* A merge is final exactly when one of the two records is: no later status,
\* whatever its rank, reopens an order.
LEMMA MergeFinal ==
  ASSUME NEW a \in Order, NEW b \in Order
  PROVE  IsFinal(Merge(a, b)) <=> IsFinal(a) \/ IsFinal(b)
  BY DEF Merge, KeepsSelf, IsFinal

\* NotOlder is reflexive and transitive, so "newest" is well defined.
LEMMA NotOlderReflexive ==
  ASSUME NEW a \in Order
  PROVE  NotOlder(a, a)
  BY DEF NotOlder, Order

LEMMA NotOlderTransitive ==
  ASSUME NEW a \in Order, NEW b \in Order, NEW c \in Order,
         NotOlder(a, b), NotOlder(b, c)
  PROVE  NotOlder(a, c)
<1>1. /\ a.st \in Status /\ b.st \in Status /\ c.st \in Status
      /\ a.filled \in Int /\ b.filled \in Int /\ c.filled \in Int
      /\ a.time \in Nat /\ b.time \in Nat /\ c.time \in Nat
  BY DEF Order
<1>2. /\ Rank[a.st] \in Nat /\ Rank[b.st] \in Nat /\ Rank[c.st] \in Nat
      /\ Rank[a.st] = Rank[c.st] => a.st = c.st
  BY <1>1, RankInjective
<1>3. QED
  BY <1>1, <1>2 DEF NotOlder

\* Of two records neither of which is final, the merge is not older than
\* either.
LEMMA MergeNotOlder ==
  ASSUME NEW a \in Order, NEW b \in Order, ~IsFinal(a), ~IsFinal(b)
  PROVE  NotOlder(Merge(a, b), a) /\ NotOlder(Merge(a, b), b)
<1>1. /\ a.st \in Status /\ b.st \in Status
      /\ a.filled \in Int /\ b.filled \in Int
      /\ a.time \in Nat /\ b.time \in Nat
  BY DEF Order
<1>2. /\ Rank[a.st] \in Nat /\ Rank[b.st] \in Nat
      /\ Rank[a.st] = Rank[b.st] => a.st = b.st
  BY <1>1, RankInjective
<1>3. KeepsSelf(a, b) <=> LaterStatus(a, b)
  BY DEF KeepsSelf, IsFinal, LaterStatus
<1>4. CASE KeepsSelf(a, b)
  <2>1. Merge(a, b) = a
    BY <1>4 DEF Merge
  <2>2. NotOlder(a, a) /\ NotOlder(a, b)
    BY <1>1, <1>2, <1>3, <1>4 DEF NotOlder, LaterStatus
  <2>3. QED
    BY <2>1, <2>2
<1>5. CASE ~KeepsSelf(a, b)
  <2>1. Merge(a, b) = b
    BY <1>5 DEF Merge
  <2>2. NotOlder(b, a) /\ NotOlder(b, b)
    BY <1>1, <1>2, <1>3, <1>5 DEF NotOlder, LaterStatus
  <2>3. QED
    BY <2>1, <2>2
<1>6. QED
  BY <1>4, <1>5

-----------------------------------------------------------------------------
\* One entry, whether of the cache or of the hash, and the updates it absorbed.
Newest(entry, absorbed) ==
  /\ entry = Absent <=> absorbed = {}
  /\ entry # Absent =>
       entry \in absorbed /\ \A u \in absorbed : NotOlder(entry, u) /\ ~IsFinal(u)

\* Absorbing one update keeps an entry the newest of what it absorbed.
LEMMA StoreKeepsNewest ==
  ASSUME TypeOK, Newest(cache, seen), NEW u \in Updates,
         cache' = Stored(Kept(cache, u)),
         seen' = IF cache' = Absent THEN {} ELSE seen \cup {u}
  PROVE  Newest(cache, seen)' /\ cache' \in Updates \cup {Absent} /\ seen' \subseteq Updates
<1>1. /\ u \in Order /\ u # Absent
      /\ cache # Absent => cache \in Order /\ cache \in Updates
      /\ seen \subseteq Order
  BY UpdatesAssumption DEF TypeOK
<1>2. CASE cache = Absent
  <2>1. Kept(cache, u) = u /\ seen = {}
    BY <1>2 DEF Kept, Newest
  <2>2. NotOlder(u, u)
    BY <1>1, NotOlderReflexive
  <2>3. QED
    BY <1>1, <2>1, <2>2 DEF Newest, Stored, TypeOK
<1>3. CASE cache # Absent
  <2> DEFINE m == Merge(u, cache)
  <2>1. Kept(cache, u) = m /\ (m = u \/ m = cache)
    BY <1>3, MergeSelects DEF Kept
  <2>2. ~IsFinal(cache) /\ cache \in seen
    BY <1>3 DEF Newest
  <2>3. IsFinal(m) <=> IsFinal(u)
    BY <1>1, <1>3, <2>2, MergeFinal
  <2>4. CASE IsFinal(u)
    BY <2>1, <2>3, <2>4 DEF Newest, Stored
  <2>5. CASE ~IsFinal(u)
    <3>1. cache' = m /\ m # Absent /\ seen' = seen \cup {u}
      BY <1>1, <1>3, <2>1, <2>3, <2>5 DEF Stored
    <3>2. m \in Order /\ m \in Updates /\ m \in seen'
      BY <1>1, <1>3, <2>1, <2>2, <3>1
    <3>3. NotOlder(m, u) /\ NotOlder(m, cache)
      BY <1>1, <1>3, <2>2, <2>5, MergeNotOlder
    <3>4. ASSUME NEW v \in seen'
          PROVE  NotOlder(m, v) /\ ~IsFinal(v)
      <4>1. CASE v = u
        BY <2>5, <3>3, <4>1
      <4>2. CASE v \in seen
        <5>1. NotOlder(cache, v) /\ ~IsFinal(v)
          BY <1>3, <4>2 DEF Newest
        <5>2. v \in Order
          BY <1>1, <4>2
        <5>3. QED
          BY <1>1, <1>3, <3>2, <3>3, <5>1, <5>2, NotOlderTransitive
      <4>3. QED
        BY <3>1, <4>1, <4>2
    <3>5. QED
      BY <1>1, <3>1, <3>2, <3>4 DEF Newest, TypeOK
  <2>6. QED
    BY <2>4, <2>5
<1>4. QED
  BY <1>2, <1>3

IInv == TypeOK /\ Newest(cache, seen) /\ Newest(hash, hashSeen)

LEMMA InitInductive == Init => IInv
  BY DEF Init, IInv, TypeOK, Newest

LEMMA NextInductive == IInv /\ [Next]_vars => IInv'
<1> SUFFICES ASSUME IInv, [Next]_vars PROVE IInv'
  OBVIOUS
<1> USE DEF IInv
<1>1. ASSUME NEW u \in Updates, HandlerOrder(u) PROVE IInv'
  <2>1. /\ Newest(cache, seen)'
        /\ cache' \in Updates \cup {Absent} /\ seen' \subseteq Updates
    BY <1>1, StoreKeepsNewest DEF HandlerOrder
  <2>2. hash' = hash /\ hashSeen' = hashSeen
    BY <1>1 DEF HandlerOrder
  <2>3. QED
    BY <2>1, <2>2 DEF TypeOK, Newest
<1>2. ASSUME NEW u \in Updates, HandlerOrderPublished(u) PROVE IInv'
  <2>1. /\ Newest(cache, seen)'
        /\ cache' \in Updates \cup {Absent} /\ seen' \subseteq Updates
    BY <1>2, StoreKeepsNewest DEF HandlerOrderPublished
  <2>2. hash' = cache' /\ hashSeen' = seen'
    BY <1>2 DEF HandlerOrderPublished
  <2>3. QED
    BY <2>1, <2>2 DEF TypeOK, Newest
<1>3. CASE LoadOrders
  BY <1>3 DEF LoadOrders, TypeOK, Newest
<1>4. CASE DeleteAllRedisOrders
  BY <1>4 DEF DeleteAllRedisOrders, TypeOK, Newest
<1>5. CASE UNCHANGED vars
  BY <1>5 DEF vars, TypeOK, Newest
<1>6. QED
  BY <1>1, <1>2, <1>3, <1>4, <1>5 DEF Next

LEMMA Inductive == Spec => []IInv
  BY InitInductive, NextInductive, PTL DEF Spec

\* The cache holds only records that some update carried.
THEOREM TypeCorrect == Spec => []TypeOK
<1>1. IInv => TypeOK
  BY DEF IInv
<1>2. QED
  BY Inductive, <1>1, PTL

\* A cache entry is the newest of the updates it absorbed, in whatever order
\* they came, and has absorbed no final one.
THEOREM CacheNewest == Spec => []CacheIsNewest
<1>1. IInv => CacheIsNewest
  BY DEF IInv, Newest, CacheIsNewest
<1>2. QED
  BY Inductive, <1>1, PTL

\* So is the field of the redis hash that a restarted process loads.
THEOREM HashNewest == Spec => []HashIsNewest
<1>1. IInv => HashIsNewest
  BY DEF IInv, Newest, HashIsNewest
<1>2. QED
  BY Inductive, <1>1, PTL
=============================================================================
