-------------------------------- MODULE AggrBook --------------------------------
(***************************************************************************)
(* The aggregated book and the aggregated funding rate (arb_dataclasses)   *)
(* as the book display and the executors use them.  Each keeps sorted      *)
(* lists of the instruments that are up and answers from their heads.  The *)
(* lists are made again when the book of an instrument comes in: not when  *)
(* the book of a currency does, nor when a status changes, and an executor *)
(* that only takes, or only makes, has only two of the four made again.    *)
(*                                                                         *)
(* Prices are in units of One, and so are the fees.  Of instruments with   *)
(* equal prices any may come first.                                        *)
(***************************************************************************)
EXTENDS Integers, FiniteSets, SequencesExt

CONSTANTS
  Instruments,        \* the instruments of one base
  Converted,          \* those whose quote is a currency the book converts
  Spot,               \* those that are spot
  Books,              \* the books: records of a bid and an ask
  Rates,              \* what the currency may be worth
  Fundings,           \* the predicted rates of funding
  TakerFee, MakerFee, \* the fees, in parts of One
  One

AggrBookAssumption ==
  /\ IsFiniteSet(Instruments) /\ Converted \subseteq Instruments /\ Spot \subseteq Instruments
  /\ Books \subseteq [bid : Nat \ {0}, ask : Nat] /\ \A b \in Books : b.bid < b.ask
  /\ Rates \subseteq Nat \ {0} /\ Fundings \subseteq Int /\ One \in Nat
  /\ TakerFee \in [Instruments -> 0..One - 1] /\ MakerFee \in [Instruments -> 0..One - 1]

VARIABLES
  use,          \* the lists the owner has made again: "both", "taker" or "maker"
  orderbooks,   \* orderbooks[i]: the last book of i, or NoBook
  currency,     \* the rate of the currency, 1 before its first book
  l2_up, funding_up,          \* the instruments whose book, and funding, is up
  taker_buys, taker_sells, maker_buys, maker_sells,   \* the lists of the book
  funding_rates, ordered_rates,
  stale         \* history: the lists are older than a rate or a status

lists == <<taker_buys, taker_sells, maker_buys, maker_sells>>
funding == <<funding_rates, ordered_rates>>
vars == <<use, orderbooks, currency, l2_up, funding_up, lists, funding, stale>>

NoBook == [bid |-> 0, ask |-> 0]
Quote == [instr : Instruments, book : Books]

TypeOK ==
  /\ use \in {"both", "taker", "maker"}
  /\ orderbooks \in [Instruments -> Books \cup {NoBook}]
  /\ currency \in Rates \cup {1}
  /\ l2_up \subseteq Instruments /\ funding_up \subseteq Instruments
  /\ \A list \in {taker_buys, taker_sells, maker_buys, maker_sells} : list \in Seq(Quote)
  /\ funding_rates \in [Instruments -> Fundings]
  /\ ordered_rates \in Seq(Instruments)
  /\ stale \in BOOLEAN

-----------------------------------------------------------------------------
\* get_currency_rate, of the given rate of the currency
CurrencyRate(i, rate) == IF i \in Converted THEN rate ELSE 1

\* The prices the lists are sorted by.
TakerBuyPrice(q, rate) == q.book.ask * CurrencyRate(q.instr, rate) * (One + TakerFee[q.instr])
TakerSellPrice(q, rate) == q.book.bid * CurrencyRate(q.instr, rate) * (One - TakerFee[q.instr])
MakerBuyPrice(q, rate) == q.book.bid * CurrencyRate(q.instr, rate) * (One + MakerFee[q.instr])
MakerSellPrice(q, rate) == q.book.ask * CurrencyRate(q.instr, rate) * (One - MakerFee[q.instr])

\* Mutant: the instruments that had no book yet are not left out.
UpWithoutBooks(books, up) == {[instr |-> i, book |-> books[i]] : i \in up}

\* __get_ob_up
Up(books, up) == {[instr |-> i, book |-> books[i]] : i \in {j \in up : books[j] # NoBook}}

\* What has a price, sorted by it: of equal prices any may come first.
Sorted(price) ==
  {seq \in [1..Cardinality(DOMAIN price) -> DOMAIN price] :
     /\ Range(seq) = DOMAIN price
     /\ \A j, k \in DOMAIN seq : j <= k => price[seq[j]] <= price[seq[k]]}

\* Mutant: a status is not looked at when the lists are made.
ComputeAll(books, rate, up, taker, maker) ==
  LET quotes == Up(books, Instruments)
  IN  /\ IF taker THEN /\ taker_buys' \in Sorted([q \in quotes |-> TakerBuyPrice(q, rate)])
                       /\ taker_sells' \in Sorted([q \in quotes |-> -TakerSellPrice(q, rate)])
                  ELSE UNCHANGED <<taker_buys, taker_sells>>
      /\ IF maker THEN /\ maker_buys' \in Sorted([q \in quotes |-> MakerBuyPrice(q, rate)])
                       /\ maker_sells' \in Sorted([q \in quotes |-> -MakerSellPrice(q, rate)])
                  ELSE UNCHANGED <<maker_buys, maker_sells>>

\* compute_aggrbook
Compute(books, rate, up, taker, maker) ==
  LET quotes == Up(books, up)
  IN  /\ IF taker THEN /\ taker_buys' \in Sorted([q \in quotes |-> TakerBuyPrice(q, rate)])
                       /\ taker_sells' \in Sorted([q \in quotes |-> -TakerSellPrice(q, rate)])
                  ELSE UNCHANGED <<taker_buys, taker_sells>>
      /\ IF maker THEN /\ maker_buys' \in Sorted([q \in quotes |-> MakerBuyPrice(q, rate)])
                       /\ maker_sells' \in Sorted([q \in quotes |-> -MakerSellPrice(q, rate)])
                  ELSE UNCHANGED <<maker_buys, maker_sells>>

\* compute_aggr_funding_rate
OrderedRates(rates, up) == Sorted([i \in up \cup Spot |-> rates[i]])

Init ==
  /\ use \in {"both", "taker", "maker"}
  /\ orderbooks = [i \in Instruments |-> NoBook]
  /\ currency = 1
  /\ l2_up \in SUBSET Instruments /\ funding_up = l2_up
  /\ taker_buys = <<>> /\ taker_sells = <<>> /\ maker_buys = <<>> /\ maker_sells = <<>>
  /\ funding_rates \in [Instruments -> Fundings]
  /\ ordered_rates \in OrderedRates(funding_rates, funding_up)
  /\ stale = FALSE

-----------------------------------------------------------------------------
\* update_aggrbook, of an instrument that is no currency
UpdateAggrbook(i, book) ==
  /\ orderbooks' = [orderbooks EXCEPT ![i] = book]
  /\ Compute(orderbooks', currency, l2_up, use # "maker", use # "taker")
  /\ stale' = FALSE
  /\ UNCHANGED <<use, currency, l2_up, funding_up, funding>>

\* update_aggrbook, of a currency: it returns before the lists are made.
UpdateCurrency(rate) ==
  /\ currency' = rate
  /\ stale' = (stale \/ rate # currency)
  /\ UNCHANGED <<use, orderbooks, l2_up, funding_up, lists, funding>>

\* on_instr_status_event of the display: upadte_funding_rate makes the rates again.
OnInstrStatusEvent(i) ==
  /\ l2_up' \in {l2_up \ {i}, l2_up \cup {i}}
  /\ funding_up' \in {funding_up \ {i}, funding_up \cup {i}}
  /\ ordered_rates' \in OrderedRates(funding_rates, funding_up')
  /\ stale' = (stale \/ l2_up' # l2_up)
  /\ UNCHANGED <<use, orderbooks, currency, lists, funding_rates>>

OnFundingRateEvent(i, rate) ==
  /\ funding_rates' = [funding_rates EXCEPT ![i] = rate]
  /\ ordered_rates' \in OrderedRates(funding_rates', funding_up)
  /\ UNCHANGED <<use, orderbooks, currency, l2_up, funding_up, lists, stale>>

Next ==
  \/ \E i \in Instruments, b \in Books : UpdateAggrbook(i, b)
  \/ \E r \in Rates : UpdateCurrency(r)
  \/ \E i \in Instruments : OnInstrStatusEvent(i)
  \/ \E i \in Instruments, r \in Fundings : OnFundingRateEvent(i, r)

Spec == Init /\ [][Next]_vars

-----------------------------------------------------------------------------
\* The first of a list that is not excluded, as a sequence of at most one
FirstOf(list, excl) ==
  LET left == {k \in DOMAIN list : list[k].instr \notin excl}
  IN  IF left = {} THEN <<>> ELSE <<list[Min(left)]>>

\* The prices of the four sides, with fees and in one currency
TakerBuy(excl) ==
  LET first == FirstOf(taker_buys, excl)
  IN  [k \in DOMAIN first |-> TakerBuyPrice(first[k], currency)]
TakerSell(excl) ==
  LET first == FirstOf(taker_sells, excl)
  IN  [k \in DOMAIN first |-> TakerSellPrice(first[k], currency)]
MakerBuy(excl) ==
  LET first == FirstOf(maker_buys, excl)
  IN  [k \in DOMAIN first |-> MakerBuyPrice(first[k], currency)]
MakerSell(excl) ==
  LET first == FirstOf(maker_sells, excl)
  IN  [k \in DOMAIN first |-> MakerSellPrice(first[k], currency)]

\* hit_hit_spread, hit_liq_spread, liq_hit_spread and liq_liq_spread: the two prices a spread
\* is made of, or nothing.
BookSpread(buying, selling, excl_buys, excl_sells) ==
  LET buy == IF buying = "hit" THEN TakerBuy(excl_buys) ELSE MakerBuy(excl_buys)
      sell == IF selling = "hit" THEN TakerSell(excl_sells) ELSE MakerSell(excl_sells)
  IN  IF buy = <<>> \/ sell = <<>> THEN <<>> ELSE buy \o sell

\* AggrFundingRate.spread: what is included has precedence over what is excluded.
\* Mutant: it is not looked at when something is excluded.
PickedUnlessExcluded(excl, incl) == IF excl = {} /\ incl # {} THEN incl ELSE Instruments \ excl

Picked(excl, incl) == IF incl # {} THEN incl ELSE Instruments \ excl

FirstIn(list, instrs) ==
  LET left == {k \in DOMAIN list : list[k] \in instrs}
  IN  IF left = {} THEN <<>> ELSE <<list[Min(left)]>>

BuyRate(excl, incl) == FirstIn(ordered_rates, Picked(excl, incl))
SellRate(excl, incl) == FirstIn(Reverse(ordered_rates), Picked(excl, incl))

\* A spread, as a sequence of at most one.
Spread(excl_buys, excl_sells, incl_buys, incl_sells) ==
  LET b == BuyRate(excl_buys, incl_buys)
      s == SellRate(excl_sells, incl_sells)
  IN  IF b = <<>> \/ s = <<>> THEN <<>> ELSE <<funding_rates[s[1]] - funding_rates[b[1]]>>

Ways == CASE use = "taker" -> {"hit"} [] use = "maker" -> {"liq"} [] OTHER -> {"hit", "liq"}

\* What the instruments that are up, and not excluded, ask of a buyer and offer a seller
Asked(buying, excl) ==
  {IF buying = "hit" THEN TakerBuyPrice(q, currency) ELSE MakerBuyPrice(q, currency) :
     q \in {r \in Up(orderbooks, l2_up) : r.instr \notin excl}}
Offered(selling, excl) ==
  {IF selling = "hit" THEN TakerSellPrice(q, currency) ELSE MakerSellPrice(q, currency) :
     q \in {r \in Up(orderbooks, l2_up) : r.instr \notin excl}}

\* A spread is 2 (sell - buy) / (sell + buy): none is wider.
Widest(spread, bs, ss) ==
  \A b \in bs, s \in ss :
    (spread[2] - spread[1]) * (s + b) >= (s - b) * (spread[2] + spread[1])

\* After the book of an instrument, and until a currency or a status changes, the spread
\* an owner reads is the widest any two instruments that are up offer, with their fees and
\* in one currency, whatever it excludes on either side; the spread of the funding rates
\* is the widest always, of what it includes, or does not exclude, on each side.
SpreadIsWidest ==
  /\ ~stale /\ (\E i \in Instruments : orderbooks[i] # NoBook) =>
       \A buying, selling \in Ways, excl_buys, excl_sells \in SUBSET Instruments :
         LET spread == BookSpread(buying, selling, excl_buys, excl_sells)
             bs == Asked(buying, excl_buys)
             ss == Offered(selling, excl_sells)
         IN  IF bs = {} \/ ss = {} THEN spread = <<>>
             ELSE spread # <<>> /\ Widest(spread, bs, ss)
  /\ \A excl_buys, excl_sells, incl_buys, incl_sells \in SUBSET Instruments :
       LET up == funding_up \cup Spot
           sp == Spread(excl_buys, excl_sells, incl_buys, incl_sells)
           Among(excl, incl) == up \cap (IF incl # {} THEN incl ELSE up \ excl)
           bs == Among(excl_buys, incl_buys)
           ss == Among(excl_sells, incl_sells)
       IN  IF bs = {} \/ ss = {} THEN sp = <<>>
           ELSE sp = <<Max({funding_rates[i] : i \in ss}) - Min({funding_rates[i] : i \in bs})>>
=============================================================================
