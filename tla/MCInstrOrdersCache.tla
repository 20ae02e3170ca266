-------------------------- MODULE MCInstrOrdersCache --------------------------
(* One order as its own process and the exchange's websocket report it: the *)
(* fired record, the ack twice, a cancel request, three fills, each end.    *)
EXTENDS InstrOrdersCache

Upd(st, time, filled, rej, can, fil) ==
  [st |-> st, time |-> time, filled |-> filled,
   tRej |-> rej, tCan |-> can, tFil |-> fil, eoi |-> time > 0]

\* `sign' is 1 for a buy and -1 for a sell, as _get_total_filled signs it.
UpdatesOf(sign) ==
  { Upd("new", 0, 0, 0, 0, 0),
    Upd("open", 1, 0, 0, 0, 0), Upd("open", 2, 0, 0, 0, 0),
    Upd("cancel", 0, 0, 0, 0, 0),
    Upd("partial", 3, sign * 1, 0, 0, 3), Upd("partial", 4, sign * 2, 0, 0, 4),
    Upd("cancel_rejected", 0, 0, 5, 0, 0),
    Upd("canceled", 6, sign * 2, 0, 6, 0), Upd("filled", 5, sign * 3, 0, 0, 5),
    Upd("expired", 7, 0, 0, 0, 0) }

BuyUpdates == UpdatesOf(1)
SellUpdates == UpdatesOf(-1)
=============================================================================
