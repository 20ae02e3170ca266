----------------------------- MODULE OrderReports -----------------------------
(***************************************************************************)
(* What the authenticated websockets make of an exchange's reports of an   *)
(* order.  Exchanges word them differently: whether the amount of a report *)
(* is the size of the order or what was filled, whether a fill has a       *)
(* status, a message or both.  Each subclass translates them into an order *)
(* with a signed quantity, a signed total filled and a status of ours, and *)
(* into trades; the fetcher translates what ccxt says, for the `pro'       *)
(* websocket and for the orders the API loads.  The records of one order   *)
(* are merged into the cache of the process (OrderMerge).                  *)
(*                                                                         *)
(* One order of one venue.  BINANCE is "spot" and BINANCE_FUTURES is       *)
(* "futures"; "pro" is BYBIT.  Ids and prices are left out.                *)
(***************************************************************************)
EXTENDS OrderMerge, Sequences

CONSTANTS
  Venues,     \* of "futures", "spot", "ftx", "huobi", "pro"
  Size,       \* of the order
  MaxLoads    \* bound: loads of the API

Records == [st : Status \cup {"trade"}, qty : Int, filled : Int, time : Nat, eoi : BOOLEAN,
            tRej : Nat, tCan : Nat, tFil : Nat]

OrderReportsAssumption ==
  /\ Venues \subseteq {"futures", "spot", "ftx", "huobi", "pro"}
  /\ Size \in Nat \ {0} /\ MaxLoads \in Nat /\ Absent \notin Records

VARIABLES
  venue, side,
  state,      \* of the order at the exchange: "none", "open" or how it ended
  filled,     \* of the order at the exchange
  wire,       \* reports on the way to the websocket
  executions, \* quantities filled, on the way to the websocket
  fetched,    \* what the API fetched of the order, until it is received
  loads,
  cache,      \* the order in the cache
  clock,      \* order of creation of the records
  traded,     \* the sum of the trades published
  loaded      \* history: a record of the API is or was in the cache

vars == <<venue, side, state, filled, wire, executions, fetched, loads, cache, clock, traded, loaded>>

Ended == {"filled", "canceled", "rejected", "expired"}
Words == Ended \cup {"trade", "new", "open", "submitted", "partial-filled", "closed"}
Report == [status : Words, amount : 0..Size, remaining : 0..Size, filled : 0..Size, last : 0..Size]

TypeOK ==
  /\ venue \in Venues /\ side \in {"buy", "sell"}
  /\ state \in Ended \cup {"none", "open"} /\ filled \in 0..Size
  /\ \A k \in DOMAIN wire : wire[k] \in Report
  /\ \A k \in DOMAIN executions : executions[k] \in 1..Size
  /\ fetched \in Report \cup {Absent} /\ loads \in 0..MaxLoads
  /\ cache # Absent => cache.st \in Status \cup {"trade"} /\ ~IsFinal(cache)
  /\ traded \in -Size..Size /\ loaded \in BOOLEAN /\ clock \in Nat

Init ==
  /\ venue \in Venues /\ side \in {"buy", "sell"}
  /\ state = "none" /\ filled = 0 /\ wire = <<>> /\ executions = <<>>
  /\ fetched = Absent /\ loads = 0 /\ cache = Absent /\ clock = 1 /\ traded = 0 /\ loaded = FALSE

Signed(n) == IF side = "sell" THEN -n ELSE n

-----------------------------------------------------------------------------
(* The exchange, and how it words what happens to the order                  *)

Worded(st, f) ==
  LET fills == f > filled
  IN  CASE venue \in {"futures", "spot"} -> IF fills THEN "trade" ELSE IF st = "open" THEN "new" ELSE st
        [] venue = "ftx" -> IF st = "open" THEN "open" ELSE "closed"
        [] venue = "huobi" -> IF st # "open" THEN st ELSE IF f > 0 THEN "partial-filled" ELSE "submitted"
        [] venue = "pro" -> IF st = "filled" THEN "closed" ELSE st

\* FTX and HUOBI have in `amount' what is filled, and FTX has nothing remain of a closed order.
Said(st, f) ==
  [status |-> Worded(st, f),
   amount |-> IF venue \in {"ftx", "huobi"} THEN f ELSE Size,
   remaining |-> IF venue = "ftx" /\ st # "open" THEN 0 ELSE Size - f,
   filled |-> f, last |-> f - filled]

Happens(st, f) ==
  /\ state' = st /\ filled' = f
  /\ wire' = Append(wire, Said(st, f))
  /\ executions' = IF f > filled /\ venue \in {"ftx", "huobi", "pro"}
                   THEN Append(executions, f - filled) ELSE executions
  /\ UNCHANGED <<venue, side, fetched, loads, cache, clock, traded, loaded>>

Accept == state = "none" /\ \E st \in {"open", "rejected"} : Happens(st, 0)
Fill == state = "open" /\ \E f \in filled + 1..Size : Happens(IF f = Size THEN "filled" ELSE "open", f)
End == state = "open" /\ \E st \in {"canceled"} \cup (IF venue = "ftx" THEN {} ELSE {"expired"}) :
         Happens(st, filled)

-----------------------------------------------------------------------------
(* The translations                                                          *)

\* _get_order_status of the base class
BaseStatus(status) ==
  CASE status \in {"new", "submitting", "submit", "submited", "submitted", "open"} -> "open"
    [] status = "fill" -> "filled"
    [] status \in {"cancel", "canceled", "cancelled"} -> "canceled"
    [] status \in {"reject", "rejected"} -> "rejected"
    [] status \in {"close", "closed"} -> "closed"
    [] status \in {"expired", "expire"} -> "expired"
    [] OTHER -> status

\* _get_order_status of FTX, which says closed of a canceled order and of a filled one
OfFtx(status, r) ==
  IF status # "closed" \/ r.remaining # 0 THEN status
  ELSE IF r.amount = 0 THEN "canceled" ELSE "filled"

\* _get_order_status: BINANCE has only the one of the base class.
OrderStatus(r) ==
  LET status == BaseStatus(r.status)
  IN  CASE venue = "futures" /\ status = "trade" -> IF r.remaining > 0 THEN "partial" ELSE "filled"
        [] venue = "ftx" -> OfFtx(status, r)
        [] venue = "huobi" /\ status = "partial-filled" -> "partial"
        [] OTHER -> status

\* _get_qty: BINANCE has only the one of the base class.
Qty(r) == Signed(IF venue = "futures" THEN r.amount ELSE r.amount + r.remaining)

\* Mutant: BINANCE_FUTURES has the one of the base class.
TotalFilledOfBase(r) == Signed(IF venue = "spot" THEN r.amount - r.remaining ELSE r.amount)

\* _get_total_filled
TotalFilled(r) == Signed(CASE venue = "futures" -> r.filled
                           [] venue = "spot" -> r.amount - r.remaining
                           [] OTHER -> r.amount)

Record(st, qty, fil, time) ==
  LET stamp(sts) == IF st \in sts THEN time ELSE NoStamp
  IN  [st |-> st, qty |-> qty, filled |-> fil, time |-> time, eoi |-> TRUE,
       tRej |-> stamp({"rejected"}), tCan |-> stamp({"canceled"}),
       tFil |-> stamp({"partial", "filled"})]

\* _extract_order_info
ExtractOrderInfo(r) == Record(OrderStatus(r), Qty(r), TotalFilled(r), clock)

\* parse_order: of the time of the order, with no other stamp, and what is filled unsigned.
ParseOrder(r) ==
  [Record(BaseStatus(r.status), Signed(r.amount), r.filled, 1)
     EXCEPT !.tRej = NoStamp, !.tCan = NoStamp, !.tFil = NoStamp]

\* latest_status looks both up in a list: not found is an error.
Raises(entry, update) ==
  /\ entry # Absent /\ entry.st # update.st /\ IsFinal(entry) = IsFinal(update)
  /\ ~{entry.st, update.st} \subseteq Status

\* received_order, on the cache of the websocket's process
Received(update) ==
  cache' = IF Raises(cache, update) THEN cache ELSE Stored(Kept(cache, update))

\* on_order_info_cb.  BINANCE_FUTURES takes a TRADE for a fill as well; the override that
\* was to do it for BINANCE is not the callback.
OnOrderInfo ==
  /\ wire # <<>> /\ wire' = Tail(wire)
  /\ LET r == Head(wire)
     IN  /\ Received(IF venue = "pro" THEN ParseOrder(r) ELSE ExtractOrderInfo(r))
         /\ traded' = IF venue = "futures" /\ r.status = "trade"
                      THEN traded + Signed(r.last) ELSE traded
  /\ clock' = clock + 1
  /\ UNCHANGED <<venue, side, state, filled, executions, fetched, loads, loaded>>

\* on_fills_cb, with _extract_trade_info or parse_trade
OnFills ==
  /\ executions # <<>> /\ executions' = Tail(executions)
  /\ traded' = traded + Signed(Head(executions))
  /\ UNCHANGED <<venue, side, state, filled, wire, fetched, loads, cache, clock, loaded>>

\* fetch_orders: the open orders, through ccxt
FetchOrders ==
  /\ state = "open" /\ fetched = Absent /\ loads < MaxLoads /\ loads' = loads + 1
  /\ fetched' = [status |-> "open", amount |-> Size, remaining |-> Size - filled,
                 filled |-> filled, last |-> 0]
  /\ UNCHANGED <<venue, side, state, filled, wire, executions, cache, clock, traded, loaded>>

LoadOrder ==
  /\ fetched # Absent /\ fetched' = Absent
  /\ Received(ParseOrder(fetched)) /\ loaded' = TRUE
  /\ UNCHANGED <<venue, side, state, filled, wire, executions, loads, clock, traded>>

Next == Accept \/ Fill \/ End \/ OnOrderInfo \/ OnFills \/ FetchOrders \/ LoadOrder

Spec == Init /\ [][Next]_vars

-----------------------------------------------------------------------------
Quiet == wire = <<>> /\ executions = <<>> /\ fetched = Absent

\* Once all is handled the trades add up to what was filled; the cache has the order while it
\* is open, with its quantity, and no longer when it has ended; and a partially filled one has
\* what was filled, with the sign of its side.  But: BINANCE's trades are reported as orders
\* of an unknown status, twice the size, and end nothing; an expired order is not a final one;
\* the partial fills of a sell are merged the wrong way round; FTX and ccxt call a partially
\* filled order open, and of two open records the earlier is kept; and a load brings back an
\* order that ended since it was fetched.
ReportsAgree ==
  Quiet =>
    /\ venue # "spot" => traded = Signed(filled)
    /\ state = "open" => cache # Absent
    /\ state \in {"canceled", "rejected"} /\ ~loaded => cache = Absent
    /\ state = "filled" /\ ~loaded => cache = Absent \/ venue = "spot"
    /\ state = "expired" /\ ~loaded => cache # Absent /\ cache.st = "expired"
    /\ cache # Absent /\ state = "open" /\ venue \in {"futures", "huobi"} /\ ~loaded =>
         /\ cache.qty = Signed(Size)
         /\ cache.st = IF filled > 0 THEN "partial" ELSE "open"
         /\ side = "buy" => cache.filled = filled
         /\ side = "sell" => cache.filled \in -filled..IF filled > 0 THEN -1 ELSE 0
    /\ cache # Absent /\ state = "open" /\ venue \in {"ftx", "pro"} /\ ~loaded =>
         cache.qty = Signed(Size) /\ cache.st = "open" /\ cache.filled = 0
=============================================================================
