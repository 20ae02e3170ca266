------------------------------ MODULE Indicators ------------------------------
(***************************************************************************)
(* What the sentinels and the watchers keep of the trades of an instrument *)
(* (atr_sentinel, candle_sentinel, i_ob_imb_sentinel,                      *)
(* price_impact_sentinel, tick_watcher).  Each is a process that hears of  *)
(* every trade: a list of trades that a thread of its own closes into a    *)
(* candle every period; a window of seconds; a running trade per side that *)
(* takes in the ones of the same moment or price.                          *)
(*                                                                         *)
(* A price is a number of half ticks, a quantity is signed, and the        *)
(* amount of a trade is its quantity times its price.                      *)
(***************************************************************************)
EXTENDS Integers, SequencesExt, FiniteSetsExt, FiniteSets

CONSTANTS
  Prices, Quantities,
  Window,          \* cdv_delta_sec
  AtrLen, OhlcLen, \* atr_len, and the candles kept: atr_len * 10
  Books,           \* [bids, asks], lists of levels: a price and a size
  None,
  MaxTime, MaxTrades   \* bounds

Trade == [time : 0..MaxTime, price : Prices, qty : Quantities]
Run == [time : 0..MaxTime, price : Prices, qty : Int]
Candle == [time : 0..MaxTime, open : Prices, close : Prices, high : Prices, low : Prices, volume : Int]
Levels == Seq((Nat \ {0}) \X (Nat \ {0})) \ {<<>>}
Fraction == [num : Int, den : Int]

\* A book is not crossed.
IndicatorsAssumption ==
  /\ Prices \subseteq Nat \ {0} /\ Quantities \subseteq Int \ {0}
  /\ None \notin Int \cup Run \cup Candle \cup Books \cup Fraction
  /\ Window \in Nat \ {0} /\ AtrLen \in Nat \ {0} /\ OhlcLen \in Nat /\ OhlcLen >= AtrLen
  /\ Books \subseteq [bids : Levels, asks : Levels]
  /\ \A b \in Books : Head(b.bids)[1] < Head(b.asks)[1]
  /\ MaxTime \in Nat /\ MaxTrades \in Nat

VARIABLES
  now,
  ltps,       \* the trades since the last candle
  candle,     \* the one the heartbeat has computed, and not yet appended
  ohlc, atrs, \* the candles, and how many values of the atr there are
  window,     \* trades of the imbalance sentinel: [time, amount]
  cvd, fair,  \* what it sends: None until known
  book,       \* the last one, or None
  run,        \* run[side]: the running trade of the price impact, or None
  emitted,    \* emitted[side]: the quantities it sent
  tick,       \* tick[side]: nb_trades, total_size and the last trade of the tick watcher
  all,        \* history: the trades, in order
  volume,     \* history: the volume of the candles
  missed,     \* history: the volume of the trades heard between a candle and its reset
  firsts      \* history: firsts[side]: the first trades of the runs after the first

impactVars == <<run, emitted, firsts>>
candleVars == <<ltps, candle, ohlc, atrs, volume, missed>>
cvdVars == <<window, cvd, fair, book>>
vars == <<now, candleVars, cvdVars, impactVars, tick, all>>

Sides == {"buy", "sell"}
Side(qty) == IF qty > 0 THEN "buy" ELSE "sell"
Magnitude(qty) == IF qty > 0 THEN qty ELSE -qty
Total(seq) ==
  LET sum[k \in 0..Len(seq)] == IF k = 0 THEN 0 ELSE sum[k - 1] + seq[k] IN sum[Len(seq)]
Volume(trades) == Total([k \in DOMAIN trades |-> Magnitude(trades[k].qty)])

\* The trades of a side, by their places, and the quantity of some of the trades
OfSide(side) == {k \in DOMAIN all : Side(all[k].qty) = side}
Quantity(ks) == Total([k \in DOMAIN all |-> IF k \in ks THEN all[k].qty ELSE 0])

\* arb_round(price, tick_size), with Python's round: half a tick goes to the even one.
Round(price) == IF price % 2 = 0 THEN price \div 2
                ELSE IF (price \div 2) % 2 = 0 THEN price \div 2 ELSE price \div 2 + 1

TypeOK ==
  /\ now \in 0..MaxTime
  /\ ltps \in Seq(Trade) /\ all \in Seq(Trade) /\ Len(all) <= MaxTrades
  /\ Len(ohlc) <= OhlcLen /\ atrs \in Nat /\ (atrs > 0 => Len(ohlc) >= AtrLen)
  /\ \A k \in DOMAIN ohlc : ohlc[k].low <= ohlc[k].close /\ ohlc[k].close <= ohlc[k].high
  /\ cvd \in Int \cup {None} /\ book \in Books \cup {None} /\ (fair = None <=> book = None)
  /\ \A s \in Sides :
       /\ run[s] = None \/ (run[s].price \in Prices /\ run[s].time \in 0..MaxTime)
       /\ emitted[s] \in Int /\ tick[s].nb \in Nat

Init ==
  /\ now = 0
  /\ ltps = <<>> /\ candle = None /\ ohlc = <<>> /\ atrs = 0 /\ volume = 0 /\ missed = 0
  /\ window = <<>> /\ cvd = None /\ fair = None /\ book = None
  /\ run = [s \in Sides |-> None] /\ emitted = [s \in Sides |-> 0] /\ firsts = [s \in Sides |-> 0]
  /\ tick = [s \in Sides |-> [nb |-> 0, total |-> 0, last |-> None]]
  /\ all = <<>>

Clock ==
  /\ now < MaxTime /\ now' = now + 1
  /\ UNCHANGED <<candleVars, cvdVars, impactVars, tick, all>>

-----------------------------------------------------------------------------
(* Candles and the average true range                                        *)

\* Candle.from_ltps
FromLtps(trades) ==
  LET prices == [k \in DOMAIN trades |-> trades[k].price]
  IN  [time |-> Head(trades).time, open |-> Head(prices), close |-> Last(prices),
       high |-> Max(ToSet(prices)), low |-> Min(ToSet(prices)), volume |-> Volume(trades)]

\* update_atr and update_candles: the candle is computed from the list, ...
CloseCandle ==
  /\ candle = None /\ ltps # <<>>
  /\ candle' = FromLtps(ltps)
  /\ UNCHANGED <<now, ltps, ohlc, atrs, volume, missed, cvdVars, impactVars, tick, all>>

\* Mutant: the candles are not trimmed.
AllOnes(seq) == seq

\* self.ohlc[-self.atr_len * 10:]
LastOnes(seq) == IF Len(seq) > OhlcLen THEN SubSeq(seq, Len(seq) - OhlcLen + 1, Len(seq)) ELSE seq

\* ... and the list is emptied, of what the listener appended since, too.
ResetLtps ==
  /\ candle # None
  /\ ohlc' = LastOnes(Append(ohlc, candle))
  /\ volume' = volume + candle.volume
  /\ ltps' = <<>> /\ candle' = None
  /\ atrs' = IF Len(ohlc') >= AtrLen THEN atrs + 1 ELSE 0
  /\ UNCHANGED <<now, missed, cvdVars, impactVars, tick, all>>

\* A period without a trade: the atr of the candles there are, again.
NoCandle ==
  /\ candle = None /\ ltps = <<>> /\ atrs < MaxTrades
  /\ atrs' = IF Len(ohlc) >= AtrLen THEN atrs + 1 ELSE 0
  /\ UNCHANGED <<now, ltps, candle, ohlc, volume, missed, cvdVars, impactVars, tick, all>>

-----------------------------------------------------------------------------
(* The imbalance sentinel.  It sends a list, and its client expects a dict.  *)

IsRecent(t, at) == t.time > at - Window
Recent(trades) ==
  LET kept[k \in 0..Len(trades)] ==
        IF k = 0 THEN <<>>
        ELSE IF IsRecent(trades[k], now) THEN Append(kept[k - 1], trades[k]) ELSE kept[k - 1]
  IN  kept[Len(trades)]

\* on_trade_event of the imbalance: if none is recent it raises, and the list is not cut.
ImbalanceOnTrade(t) ==
  LET seen == Append(window, [time |-> t.time, amount |-> t.qty * t.price])
      recent == Recent(seen)
  IN  /\ IF recent = <<>> THEN window' = seen /\ UNCHANGED cvd
         ELSE /\ window' = recent
              /\ cvd' = Total([k \in DOMAIN recent |-> recent[k].amount])
      /\ UNCHANGED <<fair, book>>

\* The sizes of some levels, and their prices weighted by them
Sum(levels) == Total([k \in DOMAIN levels |-> levels[k][2]])
Weighted(levels) == Total([k \in DOMAIN levels |-> levels[k][1] * levels[k][2]])

\* fair_mid: the mid, less what the weighted mid is above it; as a fraction
FairMid(b) ==
  LET size == Sum(b.bids) + Sum(b.asks)
  IN  [num |-> (Head(b.bids)[1] + Head(b.asks)[1]) * size - Weighted(b.bids) - Weighted(b.asks),
       den |-> size]

\* on_order_book_event
OnOrderBook ==
  /\ \E b \in Books : book' = b /\ fair' = FairMid(b)
  /\ UNCHANGED <<now, candleVars, window, cvd, impactVars, tick, all>>

-----------------------------------------------------------------------------
(* The price impact: a run of trades of a side, at a moment or at a price    *)

\* Mutant: the quantity is not taken in.
TakenInNot(prev, t) == [prev EXCEPT !.time = t.time]

TakenIn(prev, t) == [prev EXCEPT !.time = t.time, !.qty = @ + t.qty]

\* on_trade_event of the price impact: a trade at another price ends the run, which is
\* emitted with the trade, and the trade begins the next one.
ImpactOnTrade(t) ==
  LET s == Side(t.qty)
      prev == run[s]
      same == t.time = prev.time \/ Round(t.price) = Round(prev.price)
  IN  IF prev = None
      THEN run' = [run EXCEPT ![s] = t] /\ UNCHANGED <<emitted, firsts>>
      ELSE IF same
      THEN run' = [run EXCEPT ![s] = TakenIn(prev, t)] /\ UNCHANGED <<emitted, firsts>>
      ELSE /\ run' = [run EXCEPT ![s] = t]
           /\ emitted' = [emitted EXCEPT ![s] = @ + prev.qty + t.qty]
           /\ firsts' = [firsts EXCEPT ![s] = @ + t.qty]

\* on_trade_event of the tick watcher: the first trade of all is not counted.
TickOnTrade(t) ==
  LET s == Side(t.qty)
      old == tick[s]
  IN  tick' = [tick EXCEPT ![s] =
        CASE old.last = None -> [old EXCEPT !.last = t]
          [] old.last # None /\ t.time = old.last.time ->
               [nb |-> old.nb + 1, total |-> old.total + t.qty, last |-> t]
          [] OTHER -> [nb |-> 1, total |-> t.qty, last |-> t]]

\* A trade, as late as it may be, is heard by all of them.
OnTrade ==
  /\ Len(all) < MaxTrades
  /\ \E time \in 0..now, price \in Prices, qty \in Quantities :
       LET t == [time |-> time, price |-> price, qty |-> qty]
       IN  /\ all' = Append(all, t)
           /\ ltps' = Append(ltps, t)
           /\ missed' = missed + (IF candle = None THEN 0 ELSE Magnitude(qty))
           /\ ImbalanceOnTrade(t) /\ ImpactOnTrade(t) /\ TickOnTrade(t)
  /\ UNCHANGED <<now, candle, ohlc, atrs, volume>>

Next == Clock \/ CloseCandle \/ ResetLtps \/ NoCandle \/ OnOrderBook \/ OnTrade

Spec == Init /\ [][Next]_vars

-----------------------------------------------------------------------------
\* Of some trades the last ones that are of one moment
LastTogether(ks) == {k \in ks : \A j \in ks : j >= k => all[j].time = all[Max(ks)].time}
\* The amount of the trades that are recent then
Delta(at) == Total([k \in DOMAIN all |-> IF IsRecent(all[k], at) THEN all[k].qty * all[k].price ELSE 0])

\* No trade is counted twice or left out.  The candles, with the one that is
\* open or being closed, have the volume of all the trades but those heard between the moment
\* a candle was computed and the reset of its list: these no candle ever has.  The cumulated delta is
\* that of the recent trades, whatever order they came in.  The price impact has sent
\* every quantity once, but for the running one, and the first trade of each later run, which
\* it sends with the run before and again with its own.  The tick watcher counts the trades of
\* a moment, but for the first trade of a side.  And the fair price of a book of one level leans
\* to the ask when the bid is the bigger.
FlowsExact ==
  /\ fair # None /\ Len(book.bids) = 1 /\ Len(book.asks) = 1 =>
       LET bid == Head(book.bids)
           ask == Head(book.asks)
       IN  bid[2] > ask[2] <=> 2 * fair.num > (bid[1] + ask[1]) * fair.den
  /\ volume + missed + (IF candle = None THEN Volume(ltps) ELSE candle.volume) = Volume(all)
  /\ \A k \in DOMAIN ohlc : ohlc[k].low <= ohlc[k].open /\ ohlc[k].open <= ohlc[k].high
  /\ all # <<>> /\ Last(all).time = now => cvd = Delta(now)
  /\ \A s \in Sides :
       LET trades == OfSide(s)
           together == LastTogether(trades)
           first == together = trades
       IN  trades # {} =>
             /\ emitted[s] + run[s].qty = Quantity(trades) + firsts[s]
             /\ tick[s].nb = Cardinality(together) - (IF first THEN 1 ELSE 0)
             /\ tick[s].total = Quantity(together) - (IF first THEN all[Min(trades)].qty ELSE 0)
=============================================================================
