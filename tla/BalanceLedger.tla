----------------------------- MODULE BalanceLedger -----------------------------
(***************************************************************************)
(* The balances of an exchange.  The authenticated websocket moves them by *)
(* every fill it hears of; the API replaces them by what the exchange says *)
(* when it loads, and deletes the ones the exchange no longer lists, going *)
(* by the balances in its own memory.  Both hear what the other publishes. *)
(*                                                                         *)
(* The exchange has a spot instrument of the base currency and a contract, *)
(* both quoted in the quote currency and filled at moving prices.  For the *)
(* contract it keeps as margin what the position has cost, and settles the *)
(* gain or the loss of what is closed.  The code has a formula of its own  *)
(* for what a fill of the contract takes from the balance.                 *)
(*                                                                         *)
(* set_balance is one step here; PositionLedger has the steps of it.       *)
(***************************************************************************)
EXTENDS Integers, Sequences

CONSTANTS
  SpotQty, PerpQty,   \* the quantities of the fills
  Prices,             \* their prices
  Funds,              \* the quote currency at the start
  MaxFills,           \* bound: fills
  MaxTransfers,       \* bound: transfers the programs are not told of
  MaxLoads            \* bound: loads by the API

Currencies == {"base", "quote"}
Abs(n) == IF n < 0 THEN -n ELSE n

BalanceLedgerAssumption ==
  /\ SpotQty \subseteq Int /\ PerpQty \subseteq Int /\ Prices \subseteq Nat
  /\ Funds \in Nat /\ MaxFills \in Nat /\ MaxTransfers \in Nat /\ MaxLoads \in Nat

VARIABLES
  wallet,     \* wallet[c]: the free balance, as the exchange has it
  contracts,  \* the position in the contract, as the exchange has it: its quantity and price
  reports,    \* the fills on their way to the websocket, each with what it moved at the
              \* exchange, which the websocket does not see
  wsMemory, wsInbox,   \* the balances of the websocket's process, and the events it gets
  wsPosition, \* the position of the websocket's process
  owed,       \* what the fill it handles has still to move: [currency, qty] in order
  apiMemory, apiInbox, \* the balances of the API's process, and the events it gets
  apiLoad,    \* the balances fetched and the ones still to be set, or NoLoad
  redis,      \* redis[c]: the balance in the hash of the exchange
  tally,      \* how many of each bounded event
  quiet,      \* history: nothing came in between since the API fetched
  suspect     \* history: a known cause made the balances wrong

exch == <<wallet, contracts, reports>>
wsside == <<wsMemory, wsInbox, wsPosition, owed>>
apiside == <<apiMemory, apiInbox, apiLoad>>
vars == <<exch, wsside, apiside, redis, tally, quiet, suspect>>

NoLoad == [fetched |-> <<>>, todo |-> <<>>, on |-> FALSE]
Entry == [currency : Currencies, qty : Int]
Position == [qty : Int, price : Nat]
Flat == [qty |-> 0, price |-> 0]
Fill == [spot : BOOLEAN, qty : Int, price : Nat, moved : [Currencies -> Int]]

TypeOK ==
  /\ wallet \in [Currencies -> Int] /\ contracts \in Position
  /\ reports \in Seq(Fill)
  /\ wsMemory \in [Currencies -> Int] /\ apiMemory \in [Currencies -> Int]
  /\ redis \in [Currencies -> Int]
  /\ wsInbox \in Seq(Entry) /\ apiInbox \in Seq(Entry) /\ owed \in Seq(Entry)
  /\ wsPosition \in Position
  /\ apiLoad \in [fetched : Seq(Entry), todo : Seq(Entry), on : BOOLEAN]
  /\ tally \in [fills : 0..MaxFills, transfers : 0..MaxTransfers, loads : 0..MaxLoads]
  /\ quiet \in BOOLEAN /\ suspect \in BOOLEAN

Init ==
  /\ wallet = [base |-> 0, quote |-> Funds] /\ contracts = Flat
  /\ reports = <<>>
  /\ wsMemory = wallet /\ apiMemory = wallet /\ redis = wallet
  /\ wsInbox = <<>> /\ apiInbox = <<>>
  /\ wsPosition = Flat /\ owed = <<>>
  /\ apiLoad = NoLoad
  /\ tally = [fills |-> 0, transfers |-> 0, loads |-> 0]
  /\ quiet = TRUE /\ suspect = FALSE

-----------------------------------------------------------------------------
(* Positions                                                                 *)

IsReduce(p, q) ==
  \/ p > 0 /\ p + q >= 0 /\ p > p + q
  \/ p < 0 /\ p + q <= 0 /\ p < p + q
IsReverse(p, q) == (p > 0 /\ p + q < 0) \/ (p < 0 /\ p + q > 0)

\* Position.__add__ of a fill of q at t: a position that grows has the mean price.
Add(p, q, t) ==
  LET n == p.qty + q
  IN  IF q = 0 \/ t = 0 THEN p
      ELSE IF p.qty = 0 \/ p.price = 0 THEN [qty |-> q, price |-> t]
      ELSE IF n = 0 THEN Flat
      ELSE [qty |-> n,
            price |-> IF IsReduce(p.qty, q) THEN p.price
                      ELSE IF IsReverse(p.qty, q) THEN t
                      ELSE (Abs(p.qty) * p.price + Abs(q) * t) \div Abs(n)]

\* Bound: the positions grow at prices whose mean is whole.
Whole(p, q, t) ==
  p.qty # 0 /\ ~IsReduce(p.qty, q) /\ ~IsReverse(p.qty, q) =>
    (Abs(p.qty) * p.price + Abs(q) * t) % Abs(p.qty + q) = 0

-----------------------------------------------------------------------------
(* The exchange                                                              *)

\* What a fill of the contract costs there: what is opened is paid at its price, and what
\* is closed comes back at the price it was paid, with its gain or less its loss.
Cost(p, q, t) ==
  LET smaller == IF Abs(q) < Abs(p.qty) THEN Abs(q) ELSE Abs(p.qty)
      closed == IF (p.qty > 0 /\ q < 0) \/ (p.qty < 0 /\ q > 0) THEN smaller ELSE 0
      gain == IF p.qty > 0 THEN t - p.price ELSE p.price - t
  IN  (Abs(q) - closed) * t - closed * (p.price + gain)

\* It fills what the funds are enough for, ...
Execute(spot, qty, price) ==
  LET moved == IF spot THEN [base |-> qty, quote |-> -(qty * price)]
               ELSE [base |-> 0, quote |-> -Cost(contracts, qty, price)]
  IN  /\ tally.fills < MaxFills
      /\ tally' = [tally EXCEPT !.fills = @ + 1]
      /\ spot \/ Whole(contracts, qty, price)
      /\ reports' = Append(reports, [spot |-> spot, qty |-> qty, price |-> price, moved |-> moved])
      /\ contracts' = IF spot THEN contracts ELSE Add(contracts, qty, price)
      /\ wallet' = [c \in Currencies |-> wallet[c] + moved[c]]
      /\ \A c \in Currencies : wallet'[c] >= 0
      /\ quiet' = FALSE
      /\ UNCHANGED <<wsside, apiside, redis, suspect>>

\* ... and moves funds without telling.
Transfer(c, qty) ==
  /\ tally.transfers < MaxTransfers
  /\ tally' = [tally EXCEPT !.transfers = @ + 1]
  /\ wallet[c] + qty >= 0
  /\ wallet' = [wallet EXCEPT ![c] = @ + qty]
  /\ quiet' = FALSE /\ suspect' = TRUE
  /\ UNCHANGED <<contracts, reports, wsside, apiside, redis>>

-----------------------------------------------------------------------------
(* The websocket                                                             *)

\* Mutant: a position that is turned pays the difference of the two sides.
CalcOfTheDifference(p, q, t) ==
  IF IsReduce(p.qty, q) THEN -Abs(q * t)
  ELSE IF IsReverse(p.qty, q) THEN Abs(q * t) - Abs(p.qty * p.price)
  ELSE Abs(q * t)

\* calc_balance_consumption
CalcBalanceConsumption(p, q, t) ==
  IF IsReduce(p.qty, q) THEN -Abs(q * t)
  ELSE IF IsReverse(p.qty, q) THEN LET gain == Abs(p.qty * p.price)
                                       cost == Abs(q * t)
                                   IN -(gain + (gain - cost))
  ELSE Abs(q * t)

\* Where the formula is not the exchange's: at another price than its own, a short that is
\* reduced (it gives back what its fill costs, as for a long) and a long that is turned (its
\* gain is counted as that of a short).
Misjudged(p, q, t) ==
  t # p.price /\ (IF p.qty < 0 THEN IsReduce(p.qty, q) ELSE IsReverse(p.qty, q))

\* set_balance: in memory, published, and stored.
Stored(c, q) == redis' = [redis EXCEPT ![c] = q]
Published(c, q) ==
  /\ wsInbox' = Append(wsInbox, [currency |-> c, qty |-> q])
  /\ apiInbox' = Append(apiInbox, [currency |-> c, qty |-> q])

\* on_fills_cb: _update_position_from_trade, and what _update_balance_from_trade moves.
OnFill ==
  /\ owed = <<>> /\ reports # <<>>
  /\ reports' = Tail(reports)
  /\ LET f == Head(reports)
     IN IF f.spot
        THEN /\ owed' = <<[currency |-> "base", qty |-> f.qty],
                          [currency |-> "quote", qty |-> -(f.qty * f.price)]>>
             /\ UNCHANGED <<wsPosition, suspect>>
        ELSE /\ owed' = <<[currency |-> "quote",
                           qty |-> -CalcBalanceConsumption(wsPosition, f.qty, f.price)]>>
             /\ wsPosition' = Add(wsPosition, f.qty, f.price)
             /\ suspect' = (suspect \/ Misjudged(wsPosition, f.qty, f.price))
  /\ quiet' = FALSE
  /\ UNCHANGED <<wallet, contracts, wsMemory, wsInbox, apiside, redis, tally>>

\* A balance is read from memory and set; what was on its way there is not in it.
MoveBalance ==
  /\ owed # <<>>
  /\ LET c == Head(owed).currency
         q == wsMemory[c] + Head(owed).qty
     IN /\ wsMemory' = [wsMemory EXCEPT ![c] = q]
        /\ Published(c, q) /\ Stored(c, q)
  /\ owed' = Tail(owed)
  /\ suspect' = (suspect \/ apiLoad.on
                   \/ \E i \in DOMAIN wsInbox : wsInbox[i].currency = Head(owed).currency)
  /\ quiet' = FALSE
  /\ UNCHANGED <<exch, wsPosition, apiMemory, apiLoad, tally>>

\* _on_balance_event_callback, in each process.
WsHears ==
  /\ wsInbox # <<>>
  /\ wsMemory' = [wsMemory EXCEPT ![Head(wsInbox).currency] = Head(wsInbox).qty]
  /\ wsInbox' = Tail(wsInbox)
  /\ suspect' = (suspect \/ owed # <<>>)
  /\ UNCHANGED <<exch, wsPosition, owed, apiside, redis, tally, quiet>>

ApiHears ==
  /\ apiInbox # <<>>
  /\ apiMemory' = [apiMemory EXCEPT ![Head(apiInbox).currency] = Head(apiInbox).qty]
  /\ apiInbox' = Tail(apiInbox)
  /\ UNCHANGED <<exch, wsside, apiLoad, redis, tally, quiet, suspect>>

-----------------------------------------------------------------------------
\* fetch_balance: the currencies whose total is not zero.
Margin == Abs(contracts.qty) * contracts.price
Total(c) == IF c = "quote" THEN wallet[c] + Margin ELSE wallet[c]
Listed(c) == IF Total(c) # 0 THEN <<[currency |-> c, qty |-> wallet[c]]>> ELSE <<>>
Fetched == Listed("base") \o Listed("quote")

Fetch ==
  /\ ~apiLoad.on /\ tally.loads < MaxLoads
  /\ tally' = [tally EXCEPT !.loads = @ + 1]
  /\ apiLoad' = [fetched |-> Fetched, todo |-> Fetched, on |-> TRUE]
  /\ quiet' = (reports = <<>> /\ owed = <<>>)
  /\ suspect' = (suspect \/ ~quiet')
  /\ UNCHANGED <<exch, wsside, apiMemory, apiInbox, redis>>

SetFetched ==
  /\ apiLoad.todo # <<>>
  /\ LET e == Head(apiLoad.todo)
     IN /\ apiMemory' = [apiMemory EXCEPT ![e.currency] = e.qty]
        /\ Published(e.currency, e.qty) /\ Stored(e.currency, e.qty)
  /\ apiLoad' = [apiLoad EXCEPT !.todo = Tail(@)]
  /\ UNCHANGED <<exch, wsMemory, wsPosition, owed, tally, quiet, suspect>>

\* Mutant: none is deleted.
ToDeleteNone == {c \in Currencies : FALSE}

\* delete_all_redis_balances: of the balances in memory, the ones to delete.  A balance
\* that is not there counts as 0 in redis and in the memories alike.
ToDelete == {c \in Currencies : /\ apiMemory[c] # 0
                                /\ \A i \in DOMAIN apiLoad.fetched : apiLoad.fetched[i].currency # c}

Deletion(c) == IF c \in ToDelete THEN <<[currency |-> c, qty |-> 0]>> ELSE <<>>

DeleteOthers ==
  /\ apiLoad.on /\ apiLoad.todo = <<>>
  /\ apiLoad' = NoLoad
  /\ apiMemory' = [c \in Currencies |-> IF c \in ToDelete THEN 0 ELSE apiMemory[c]]
  /\ redis' = [c \in Currencies |-> IF c \in ToDelete THEN 0 ELSE redis[c]]
  /\ wsInbox' = wsInbox \o Deletion("base") \o Deletion("quote")
  /\ apiInbox' = apiInbox \o Deletion("base") \o Deletion("quote")
  /\ suspect' = IF quiet /\ apiInbox = <<>> THEN FALSE ELSE suspect
  /\ UNCHANGED <<exch, wsMemory, wsPosition, owed, tally, quiet>>

Next ==
  \/ \E q \in SpotQty, t \in Prices : Execute(TRUE, q, t)
  \/ \E q \in PerpQty, t \in Prices : Execute(FALSE, q, t)
  \/ \E c \in Currencies, q \in {-1, 1} : Transfer(c, q)
  \/ OnFill \/ MoveBalance \/ WsHears \/ ApiHears
  \/ Fetch \/ SetFetched \/ DeleteOthers

Spec == Init /\ [][Next]_vars

-----------------------------------------------------------------------------
\* With every fill moved, redis has the free balances of the exchange, at whatever prices
\* positions were opened, reduced, closed or turned, and again after a load in which nothing
\* came in between: transfers and currencies that are gone included.  Until such a load they
\* may differ after a short was reduced, or a long turned, at another price than its own; after
\* a transfer; and after a fill, an event or a load that crossed one another.
BalancesExact ==
  (reports = <<>> /\ owed = <<>> /\ ~apiLoad.on /\ ~suspect) => redis = wallet
=============================================================================
