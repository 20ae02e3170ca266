---------------------------- MODULE NormalizedCodes ----------------------------
(***************************************************************************)
(* What a load of codes (base_loader and the loaders of the exchanges)     *)
(* writes of the markets of a venue.  A venue may be loaded by several     *)
(* loaders, each for the markets it does not skip; a loader normalises the *)
(* type, the contract type, the base, the status and the fees of a market, *)
(* builds the code the row is keyed by, and inserts or updates the row.    *)
(* InstrumentsDb has the steps of a load; this module has its rows.        *)
(*                                                                         *)
(* The name of a base is a coin, a leverage token in it, and what follows. *)
(***************************************************************************)
EXTENDS Integers, FiniteSets, FiniteSetsExt

CONSTANTS
  Venues,       \* the venues loaded
  Markets,      \* the markets a venue may list
  MaxListed,    \* bound: markets listed
  MaxLoads,     \* bound: loads
  MaxChanges    \* bound: changes of a market

NormalizedCodesAssumption ==
  /\ Venues \subseteq {"binance", "gateio", "huobi", "mexc", "krakenfutures", "bitget", "bitmex",
                "poloniexfutures"}
  /\ MaxListed \in Nat /\ MaxLoads \in Nat /\ MaxChanges \in Nat
  /\ IsFiniteSet(Markets)
  \* ccxt keys the markets of a venue by an id, and by a symbol made of the rest.
  /\ Markets \subseteq
       [name : STRING, type : {"spot", "swap", "future", "option", "index"},
        base : [coin : STRING, token : STRING, rest : STRING], quote : STRING, settle : STRING,
        expiry : Nat, contract : {"", "linear", "inverse", "quanto"}, active : BOOLEAN,
        tradeable : BOOLEAN, delisting : BOOLEAN, fee : [maker : Nat, taker : Nat], decimals : Nat]
  \* A spot has no contract, a swap never ends and a future does; no token is named like one
  \* of the types of a contract.
  /\ \A m \in Markets :
       /\ m.contract = "" <=> m.type \in {"spot", "index"}
       /\ m.type = "swap" => m.expiry = 0
       /\ m.type = "future" => m.expiry # 0
       /\ m.base.token \notin {"linear", "inverse"}
  /\ \A m, n \in Markets : m # n =>
       /\ m.name # n.name
       /\ <<m.base, m.quote, m.type, m.expiry, m.contract>>
            # <<n.base, n.quote, n.type, n.expiry, n.contract>>

VARIABLES
  venue,
  listed,     \* the markets of the venue
  load,       \* the loader that runs, the types it is asked for, the markets left; or Idle
  fee_ids,    \* its cache of fees: the last one, or none
  rows,       \* the rows, no two with one code
  loads, changes,
  settled     \* history: the loaders that went through the markets as they are

vars == <<venue, listed, load, fee_ids, rows, loads, changes, settled>>

Idle == [loader |-> "none", types |-> {}, todo |-> {}]

-----------------------------------------------------------------------------
\* The loaders of a venue: they fetch the same markets.
Loaders(v) ==
  CASE v = "binance" -> {"BINANCE", "BINANCE_FUTURES", "BINANCE_DELIVERY"}
    [] v = "gateio" -> {"GATEIO", "GATEIO_FUTURES"}
    [] v = "huobi" -> {"HUOBI", "HUOBI_SWAP"}
    [] v = "mexc" -> {"MEXC", "MEXC_FUTURES"}
    [] v = "krakenfutures" -> {"KRAKEN_FUTURES"}
    [] v = "bitget" -> {"BITGET"}
    [] v = "bitmex" -> {"BITMEX"}
    [] v = "poloniexfutures" -> {"POLONIEX_FUTURES"}

\* The markets a loader is given.  Those of Poloniex's futures it makes itself, all of them
\* linear futures that never expire.
Fetched(v, markets) ==
  IF v # "poloniexfutures" THEN markets
  ELSE {[m EXCEPT !.type = "future", !.expiry = 0, !.contract = "linear", !.settle = ""] :
          m \in markets}

\* Mutant: the delivery loader takes what the futures loader takes.
SkipAnyDerivative(l, m) ==
  CASE l \in {"BINANCE", "GATEIO", "HUOBI", "MEXC"} -> m.type # "spot"
    [] l \in {"BINANCE_FUTURES", "BINANCE_DELIVERY"} -> m.type \notin {"future", "swap"}
    [] l = "GATEIO_FUTURES" -> m.type = "spot"
    [] l \in {"HUOBI_SWAP", "MEXC_FUTURES"} -> m.type # "swap"
    [] OTHER -> m.type = "index"

\* skip_instr of each loader
SkipInstr(l, m) ==
  CASE l \in {"BINANCE", "GATEIO", "HUOBI", "MEXC"} -> m.type # "spot"
    [] l = "BINANCE_FUTURES" -> m.type \notin {"future", "swap"} \/ m.contract # "linear"
    [] l = "BINANCE_DELIVERY" -> m.type \notin {"future", "swap"} \/ m.contract # "inverse"
    [] l = "GATEIO_FUTURES" -> m.type = "spot"
    [] l \in {"HUOBI_SWAP", "MEXC_FUTURES"} -> m.type # "swap"
    [] l \in {"KRAKEN_FUTURES", "BITMEX"} -> m.type = "index"
    [] l = "BITGET" -> m.settle = "USDC"
    [] l = "POLONIEX_FUTURES" -> FALSE

\* normalize_instr_type
InstrType(m) ==
  IF m.type \notin {"future", "swap"} THEN m.type
  ELSE IF m.expiry # 0 THEN "futures" ELSE "perpetual"

\* normalize_contract_type of BitMEX, which has quantos
OfBitmex(m) == IF m.type = "spot" THEN "linear" ELSE m.contract

\* normalize_contract_type, Binance's own for its tokens
ContractType(l, m) ==
  CASE l = "BINANCE" /\ m.base.token # "" -> m.base.token
    [] l = "BITMEX" -> OfBitmex(m)
    [] OTHER -> IF m.type = "spot" \/ m.contract = "linear" THEN "linear" ELSE "inverse"

\* get_base: the token is taken off the end of the name, and bitcoin is left of nothing.
Base(l, m) ==
  IF l = "BINANCE" /\ m.base.token # "" /\ m.base.rest = ""
  THEN [coin |-> IF m.base.coin = "" THEN "BTC" ELSE m.base.coin, token |-> "", rest |-> ""]
  ELSE m.base

\* normalize_instr_status of Gate.io
Stays(m) == m.active /\ ~m.delisting

\* normalize_instr_status
InstrStatus(l, m) ==
  LET active == CASE l = "KRAKEN_FUTURES" -> m.tradeable
                  [] l \in {"GATEIO", "GATEIO_FUTURES"} -> Stays(m)
                  [] l = "BITGET" -> m.type = "swap" \/ m.active
                  [] OTHER -> m.active
  IN  IF active THEN "active" ELSE "inactive"

\* The percent get_fee_id is left with: of the market, or of the loader.
Percent(l, m, fee_type) ==
  CASE l = "KRAKEN_FUTURES" -> IF fee_type = "maker" THEN 2 ELSE 5
    [] l = "POLONIEX_FUTURES" -> IF fee_type = "maker" THEN 1 ELSE 6
    [] l = "BINANCE_FUTURES" /\ m.quote = "BUSD" /\ InstrType(m) = "perpetual" ->
         IF fee_type = "maker" THEN 1 ELSE 3
    [] OTHER -> m.fee[fee_type]

\* min_size_incr, as the decimals of a size: of Binance one less than the market has.
Decimals(l, m) ==
  IF l \notin Loaders("binance") THEN m.decimals
  ELSE IF m.decimals = 0 THEN 0 ELSE m.decimals - 1

\* Mutant: contracts that expire are not told apart.
InstrCodeOfPair(l, m) ==
  [exchange |-> l, base |-> Base(l, m), quote |-> m.quote, type |-> InstrType(m),
   contract |-> ContractType(l, m), expiry |-> 0]

\* instr_code
InstrCode(l, m) ==
  [exchange |-> l, base |-> Base(l, m), quote |-> m.quote, type |-> InstrType(m),
   contract |-> ContractType(l, m), expiry |-> m.expiry]

\* get_or_create_fee: the fee of an exchange with a type and a percent
FeeDb(l, fee_type, percent) == [exchange |-> l, type |-> fee_type, percent |-> percent]

\* Mutant: the cache is looked up by the percent, and hit.
FeeIdOfPercent(l, fee_type, percent, cache) ==
  IF \E f \in cache : f.percent = percent THEN CHOOSE f \in cache : f.percent = percent
  ELSE FeeDb(l, fee_type, percent)

\* get_fee_id: the cache has a key of a percent and a type and is looked up by the percent
\* alone, so the database is asked every time.
FeeId(l, fee_type, percent, cache) == FeeDb(l, fee_type, percent)

\* create_or_update_instrument: on a conflict of codes everything but the id is replaced.
Upserted(row) == {r \in rows : r.code # row.code} \cup {row}

-----------------------------------------------------------------------------
Fees == [exchange : UNION {Loaders(v) : v \in Venues}, type : {"maker", "taker"}, percent : Nat]

TypeOK ==
  /\ venue \in Venues /\ Cardinality(listed) <= MaxListed
  /\ load.loader \in Loaders(venue) \cup {"none"} /\ load.todo \subseteq Fetched(venue, listed)
  /\ \A f \in fee_ids : f \in Fees
  /\ \A r \in rows : r.maker \in Fees /\ r.taker \in Fees /\ r.status \in {"active", "inactive"}
  /\ loads \in 0..MaxLoads /\ changes \in 0..MaxChanges /\ settled \subseteq Loaders(venue)

Init ==
  /\ venue \in Venues
  /\ listed \in UNION {kSubset(n, Markets) : n \in 1..MaxListed}
  /\ \A m \in listed : m.contract = "quanto" => venue = "bitmex"
  /\ venue = "poloniexfutures" => \A m, n \in listed :
       m.type = "swap" /\ (m # n => <<m.base, m.quote>> # <<n.base, n.quote>>)
  /\ load = Idle /\ fee_ids = {} /\ rows = {}
  /\ loads = 0 /\ changes = 0 /\ settled = {}

\* load_codes of a loader, asked for some types or, with none, for all.
LoadCodes(l, types) ==
  /\ load = Idle /\ loads < MaxLoads /\ loads' = loads + 1
  /\ load' = [loader |-> l, types |-> types, 
              todo |-> {m \in Fetched(venue, listed) : ~SkipInstr(l, m)}]
  /\ fee_ids' = {} /\ settled' = settled \ {l}
  /\ UNCHANGED <<venue, listed, rows, changes>>

\* format_instr returns before it writes.
Dropped(types, m) == (types # {} /\ InstrType(m) \notin types) \/ InstrType(m) = "option"

FormatInstr(m) ==
  /\ m \in load.todo /\ load' = [load EXCEPT !.todo = @ \ {m}]
  /\ IF Dropped(load.types, m) THEN UNCHANGED <<fee_ids, rows>>
     ELSE LET l == load.loader
              code == InstrCode(l, m)
              maker == FeeId(l, "maker", Percent(l, m, "maker"), fee_ids)
              taker == FeeId(l, "taker", Percent(l, m, "taker"), {maker})
          IN  /\ rows' = Upserted([code |-> code, name |-> m.name, status |-> InstrStatus(l, m),
                                   maker |-> maker, taker |-> taker, decimals |-> Decimals(l, m)])
              /\ fee_ids' = {taker}
  /\ UNCHANGED <<venue, listed, loads, changes, settled>>

Finish ==
  /\ load # Idle /\ load.todo = {} /\ load' = Idle
  /\ settled' = IF load.types = {} THEN settled \cup {load.loader} ELSE settled
  /\ UNCHANGED <<venue, listed, fee_ids, rows, loads, changes>>

\* The venue suspends or resumes a market, or changes its fees.
Change(m) ==
  /\ load = Idle /\ changes < MaxChanges /\ changes' = changes + 1
  /\ listed' = (listed \ {m}) \cup
               {[m EXCEPT !.active = ~@, !.tradeable = ~@, !.fee = [@ EXCEPT !["taker"] = 4]]}
  /\ settled' = {}
  /\ UNCHANGED <<venue, load, fee_ids, rows, loads>>

Next ==
  \/ \E l \in Loaders(venue), types \in {{}, {"perpetual"}} : LoadCodes(l, types)
  \/ \E m \in load.todo : FormatInstr(m)
  \/ Finish
  \/ \E m \in listed : Change(m)

Spec == Init /\ [][Next]_vars

-----------------------------------------------------------------------------
\* The markets of two tokens of one coin, the token alone and bitcoin's, have one code.
SameToken(m, n) ==
  m.base.token # "" /\ m.base.token = n.base.token /\ m.base.rest = "" /\ n.base.rest = ""

\* After a whole load, each market the loader takes has the row of its code to itself, but
\* for tokens of bitcoin: with its status, its fees of its own exchange and each of its own
\* type, and no more decimals than it has.  No market is stored for two exchanges.
RowsOfMarkets ==
  /\ load = Idle => \A l \in settled : \A m \in {n \in Fetched(venue, listed) : ~SkipInstr(l, n)} :
       \/ Dropped({}, m)
       \/ \E r \in rows :
            /\ r.code = InstrCode(l, m)
            /\ \/ /\ r.name = m.name /\ r.status = InstrStatus(l, m) /\ r.decimals <= m.decimals
                  /\ \A t \in {"maker", "taker"} :
                       r[t] = [exchange |-> l, type |-> t, percent |-> Percent(l, m, t)]
               \/ \E n \in listed : SameToken(m, n) /\ n.name = r.name
  /\ \A r, s \in rows : r.name = s.name => r = s
=============================================================================
