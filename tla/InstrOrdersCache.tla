--------------------------- MODULE InstrOrdersCache ---------------------------
(***************************************************************************)
(* InstrOrdersManager of orders_manager.py for one order: the process's    *)
(* cache entry and the field of the redis hash it shares.  Updates of the  *)
(* order arrive in any order and any number of times.                      *)
(*                                                                         *)
(* `seen' and `hashSeen' are history variables: the updates that the entry *)
(* and the field have absorbed since they were last absent.                *)
(***************************************************************************)
EXTENDS OrderMerge

CONSTANT
  Updates    \* the updates of the order that may arrive

ASSUME UpdatesAssumption ==
  /\ Updates \subseteq Order
  /\ Absent \notin Order

VARIABLES cache, hash, seen, hashSeen

vars == <<cache, hash, seen, hashSeen>>

TypeOK ==
  /\ cache \in Updates \cup {Absent}
  /\ hash \in Updates \cup {Absent}
  /\ seen \subseteq Updates
  /\ hashSeen \subseteq Updates

Init ==
  /\ cache = Absent
  /\ hash = Absent
  /\ seen = {}
  /\ hashSeen = {}

-----------------------------------------------------------------------------
\* handler_order without an event: only this process's cache follows.
HandlerOrder(u) ==
  /\ cache' = Stored(Kept(cache, u))
  /\ seen' = IF cache' = Absent THEN {} ELSE seen \cup {u}
  /\ UNCHANGED <<hash, hashSeen>>

\* A mutant: the update itself is written, not what the merge kept of it.
PublishRaw(u) ==
  /\ cache' = Stored(Kept(cache, u))
  /\ seen' = IF cache' = Absent THEN {} ELSE seen \cup {u}
  /\ hash' = Stored(u)
  /\ hashSeen' = seen'

\* handler_order with an event (fire_order, received_order): what was kept is
\* published and then written to the hash, or deleted from it when final.
HandlerOrderPublished(u) ==
  /\ cache' = Stored(Kept(cache, u))
  /\ seen' = IF cache' = Absent THEN {} ELSE seen \cup {u}
  /\ hash' = cache'
  /\ hashSeen' = seen'

\* load_orders: the cache becomes what the hash holds.
LoadOrders ==
  /\ cache' = hash
  /\ seen' = hashSeen
  /\ UNCHANGED <<hash, hashSeen>>

\* delete_all_redis_orders
DeleteAllRedisOrders ==
  /\ hash' = Absent
  /\ hashSeen' = {}
  /\ UNCHANGED <<cache, seen>>

Next ==
  \/ \E u \in Updates : HandlerOrder(u)
  \/ \E u \in Updates : HandlerOrderPublished(u)
  \/ LoadOrders
  \/ DeleteAllRedisOrders

Spec == Init /\ [][Next]_vars

-----------------------------------------------------------------------------
\* `a' tells at least as much of the order as `b': a later status, more filled
\* of two partial fills, the record created first of two equal statuses.
NotOlder(a, b) ==
  IF a.st # b.st THEN Rank[a.st] > Rank[b.st]
  ELSE IF a.st = "partial" THEN a.filled >= b.filled
  ELSE a.time <= b.time

\* Whatever the order and the number of times updates arrive in, an entry is
\* the newest of the updates absorbed since the order was last forgotten, no
\* one of them is final, and an absent entry has absorbed none: two caches
\* fed the same updates agree.
CacheIsNewest ==
  /\ cache = Absent <=> seen = {}
  /\ cache # Absent => cache \in seen /\ \A u \in seen : NotOlder(cache, u) /\ ~IsFinal(u)

\* The same of the hash field that a restarted process loads.
HashIsNewest ==
  /\ hash = Absent <=> hashSeen = {}
  /\ hash # Absent => hash \in hashSeen /\ \A u \in hashSeen : NotOlder(hash, u) /\ ~IsFinal(u)

FilledSize(o) == IF o.filled < 0 THEN -o.filled ELSE o.filled

\* The comment of __or__: total_filled determines which of two partial fills
\* is more up to date, so the entry knows of the largest fill it absorbed.
PartialKeepsMostFilled ==
  cache # Absent /\ cache.st = "partial" =>
    \A u \in seen : u.st = "partial" => FilledSize(cache) >= FilledSize(u)
=============================================================================
