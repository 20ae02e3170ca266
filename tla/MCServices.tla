------------------------------ MODULE MCServices ------------------------------
(* Services and data that share no state, each checked on its own in one run: *)
(* `who' is the one that runs, and the others stay as they start.             *)
EXTENDS OrdersDb

CONSTANTS Watchers, MaxLen, Periods, MaxServerStarts,                   \* Sentinel
          Instruments, Callbacks, MaxCalls, MaxMessages,                \* Dispatch
          Instrs, Zones, MaxTime, MaxRows, MaxKills,                    \* Recorder
          SpotQty, PerpQty, Prices, Funds, MaxFills, MaxTransfers, MaxLoads, \* BalanceLedger
          Codes, Foreign, Filters, Loads, MaxStarts, MaxChanges,        \* InstrumentsDb
          Bases, Targets, Sizes, Dust, Held, MaxHour, MaxCrashes, MaxEchoes, \* TargetSeeker
          Exchanges, Longer, Ids, ExchangeOf, Expired, Public, Private, Trades,  \* Daemons
          Liquidations, Supported, MaxPerHandler, Asks, MaxCommands, MaxMishaps,
          Venues, Markets, MaxListed, MaxPasses,                        \* NormalizedCodes
          Assets, Since, Start, Window, Rolling, Threshold, Scores, MaxRetries, LastHour, \* TargetSentinel
          Levels, MaxLevels                                             \* RecordFiles

VARIABLES
  who,
  clock, phase, values, ticked, unsaid, requests, answering, joined, inbox, cache,
  serverStarts, overlapped,
  lists, events, instruments, stored, published, calls, misheard,
  now, zone, current_day, fds, flusher, csv, parquet, loaded, recorded, dropped, kills, died,
  wallet, contracts, reports, wsMemory, wsInbox, wsPosition, owed, apiMemory, apiInbox,
  apiLoad, redis, tally, quiet, suspect,
  market, status, load, starts, changes, doubtful,
  hour, file, saving, modified, seeker, tries, obReady, lastStamp, orders, todo, memory, hash,
  echo, account, listed, crashes, unsent, crossed, followed,
  active, feeds, apis, pending, command, given, mishaps, unkilled, bereft,
  venue, quoted, loader, fee_ids, coded, passes, moves, settled,
  hourly, closed, wire, candles, heartbeat, retry, beat, written,
  kind, booked, today, daily, frame

Sent == INSTANCE Sentinel
Disp == INSTANCE Dispatch
Rec == INSTANCE Recorder WITH rows <- recorded
Bal == INSTANCE BalanceLedger
CodesDb == INSTANCE InstrumentsDb
Tgt == INSTANCE TargetSeeker WITH lost <- unsent
Fh == INSTANCE Daemons WITH Instruments <- Ids, todo <- pending
Norm == INSTANCE NormalizedCodes WITH
          MaxLoads <- MaxPasses, listed <- quoted, load <- loader, rows <- coded,
          loads <- passes, changes <- moves
Hourly == INSTANCE TargetSentinel WITH
            MaxHour <- LastHour, hour <- hourly, stored <- closed, file <- written
Files == INSTANCE RecordFiles WITH rows <- booked, csv <- daily, parquet <- frame

ASSUME ServicesAssumption ==
  /\ OrdersDbAssumption /\ Disp!DispatchAssumption /\ CodesDb!InstrumentsDbAssumption
  /\ Sent!SentinelAssumption /\ Rec!RecorderAssumption /\ Bal!BalanceLedgerAssumption
  /\ Tgt!TargetSeekerAssumption
  /\ Fh!DaemonsAssumption /\ Norm!NormalizedCodesAssumption
  /\ Hourly!TargetSentinelAssumption /\ Files!RecordFilesAssumption

sent == <<clock, phase, values, ticked, unsaid, requests, answering, joined, inbox, cache,
          serverStarts, overlapped>>
disp == <<lists, events, instruments, stored, published, calls, misheard>>
rec == <<now, zone, current_day, fds, flusher, csv, parquet, loaded, recorded, dropped, kills,
         died>>
bal == <<wallet, contracts, reports, wsMemory, wsInbox, wsPosition, owed, apiMemory, apiInbox,
         apiLoad, redis, tally, quiet, suspect>>
codes == <<market, status, load, starts, changes, doubtful>>
tgt == <<hour, file, saving, modified, seeker, tries, obReady, lastStamp, orders, todo, memory,
         hash, echo, account, listed, crashes, unsent, crossed, followed>>
daemons == <<active, feeds, apis, pending, command, given, mishaps, unkilled, bereft>>
norm == <<venue, quoted, loader, fee_ids, coded, passes, moves, settled>>
hours == <<hourly, closed, wire, candles, heartbeat, retry, beat, written>>
files == <<kind, booked, today, daily, frame>>
services == <<who, vars, sent, disp, rec, bal, codes, tgt, daemons, norm, hours, files>>

\* What a component may start in is varied for the one that runs only.
ServicesInit ==
  /\ who \in {"db", "sentinel", "dispatch", "recorder", "balances", "codes", "targets", "daemons",
            "markets", "hours", "files"}
  /\ Init /\ (who # "db" => echoed = {})
  /\ Sent!Init
  /\ Disp!Init /\ (who # "dispatch" => instruments = Instruments)
  /\ Rec!Init /\ (who # "recorder" => zone = 0)
  /\ Bal!Init
  /\ CodesDb!Init /\ (who # "codes" => \A c \in Codes : market[c] = "none" /\ status[c] = "none")
  /\ Tgt!Init /\ (who # "targets" => \A b \in Bases : memory[b] = 0 /\ file.targets[b] = 0)
  /\ Fh!Init
  /\ IF who = "markets" THEN Norm!Init
     ELSE /\ venue = "binance" /\ quoted = {} /\ loader = Norm!Idle /\ fee_ids = {}
          /\ coded = {} /\ passes = 0 /\ moves = 0 /\ settled = {}
  /\ Hourly!Init /\ (who # "hours" => \A a \in Assets : closed[a] = Start - 1)
  /\ Files!Init /\ (who # "files" => kind = "l2")

ServicesNext ==
  /\ UNCHANGED who
  /\ \/ who = "db" /\ Next
        /\ UNCHANGED <<sent, disp, rec, bal, codes, tgt, daemons, norm, hours, files>>
     \/ who = "sentinel" /\ Sent!Next
        /\ UNCHANGED <<vars, disp, rec, bal, codes, tgt, daemons, norm, hours, files>>
     \/ who = "dispatch" /\ Disp!Next
        /\ UNCHANGED <<vars, sent, rec, bal, codes, tgt, daemons, norm, hours, files>>
     \/ who = "recorder" /\ Rec!Next
        /\ UNCHANGED <<vars, sent, disp, bal, codes, tgt, daemons, norm, hours, files>>
     \/ who = "balances" /\ Bal!Next
        /\ UNCHANGED <<vars, sent, disp, rec, codes, tgt, daemons, norm, hours, files>>
     \/ who = "codes" /\ CodesDb!Next
        /\ UNCHANGED <<vars, sent, disp, rec, bal, tgt, daemons, norm, hours, files>>
     \/ who = "targets" /\ Tgt!Next
        /\ UNCHANGED <<vars, sent, disp, rec, bal, codes, daemons, norm, hours, files>>
     \/ who = "daemons" /\ Fh!Next
        /\ UNCHANGED <<vars, sent, disp, rec, bal, codes, tgt, norm, hours, files>>
     \/ who = "markets" /\ Norm!Next
        /\ UNCHANGED <<vars, sent, disp, rec, bal, codes, tgt, daemons, hours, files>>
     \/ who = "hours" /\ Hourly!Next
        /\ UNCHANGED <<vars, sent, disp, rec, bal, codes, tgt, daemons, norm, files>>
     \/ who = "files" /\ Files!Next
        /\ UNCHANGED <<vars, sent, disp, rec, bal, codes, tgt, daemons, norm, hours>>

ServicesSpec == ServicesInit /\ [][ServicesNext]_services

\* Each is checked of the component that runs.
ServicesTyped ==
  CASE who = "db" -> TypeOK
    [] who = "sentinel" -> Sent!TypeOK
    [] who = "dispatch" -> Disp!TypeOK
    [] who = "recorder" -> Rec!TypeOK
    [] who = "balances" -> Bal!TypeOK
    [] who = "codes" -> CodesDb!TypeOK
    [] who = "targets" -> Tgt!TypeOK
    [] who = "daemons" -> Fh!TypeOK
    [] who = "markets" -> Norm!TypeOK
    [] who = "hours" -> Hourly!TypeOK
    [] who = "files" -> Files!TypeOK

\* A watcher that joins a sentinel has the last of its values, none twice or skipped.
CacheIsSuffix == who = "sentinel" => Sent!CacheIsSuffix

\* What is published is heard once by each callback, and stored before it is heard.
HeardOnceAfterStored == who = "dispatch" => Disp!HeardOnceAfterStored

\* No row recorded is lost, and a file is read as it was recorded.
RecordsExact == /\ who = "recorder" => Rec!RowsKept
                /\ who = "files" => Files!ReadsBack

\* Once all is delivered the balances in redis are the exchange's.
BalancesExact == who = "balances" => Bal!BalancesExact

\* After loads, whatever their order, the rows of the instruments are those of the markets.
LoadsAgree == /\ who = "codes" => CodesDb!LoadsAgree
              /\ who = "markets" => Norm!RowsOfMarkets

\* The account follows the targets of the file.
FollowsTargets == who = "targets" => Tgt!FollowsTargets

\* A daemon that was started runs once, and none feeds what another feeds.
StartedOnce == who = "daemons" => Fh!StartedOnce

\* The targets written on the hour are of the last candles of all assets.
TargetsOfCandles == Hourly!TargetsOfCandles

-----------------------------------------------------------------------------
(* The values of the constants                                               *)
Zones_ == {-1, 0, 1}
PerpQtys == {2, -1, -3}
Targets_ == {[b \in Bases |-> t] : t \in {-1, 0, 1}}
Helds == {0, 1, -3}
Longer_ == [e \in Exchanges |-> IF e = "BINANCE" THEN Exchanges ELSE {e}]
ExchangeOf_ == [i \in Ids |-> IF i = 3 THEN "BINANCE_FUTURES" ELSE "BINANCE"]
Supported_ == {<<"BINANCE", TRUE>>, <<"BINANCE", FALSE>>, <<"BINANCE_FUTURES", TRUE>>}
Asks_ == {<<{"trades"}, {}>>, <<{"liquidations"}, {}>>, <<{"liquidations"}, {"public"}>>,
          <<{"orders"}, {"public"}>>, <<{}, {"private"}>>, <<{}, {"public", "private"}>>}
Since_ == [a \in Assets |-> IF a = "b" THEN 2 ELSE 0]
Coin(c, t, r) == [coin |-> c, token |-> t, rest |-> r]
Market(name, type, base, quote, settle, expiry, contract, fees, decimals) ==
  [name |-> name, type |-> type, base |-> base, quote |-> quote, settle |-> settle,
   expiry |-> expiry, contract |-> contract, active |-> TRUE, tradeable |-> TRUE,
   delisting |-> FALSE, fee |-> [maker |-> fees[1], taker |-> fees[2]], decimals |-> decimals]
Markets_ ==
  {Market("spot", "spot", Coin("BTC", "", ""), "USDT", "", 0, "", <<1, 1>>, 0),
   Market("bull", "spot", Coin("", "bull", ""), "USDT", "", 0, "", <<1, 1>>, 1),
   Market("btcbull", "spot", Coin("BTC", "bull", ""), "USDT", "", 0, "", <<1, 1>>, 2),
   Market("bulla", "spot", Coin("", "bull", "A"), "USDT", "", 0, "", <<1, 1>>, 2),
   Market("linear", "swap", Coin("BTC", "", ""), "USD", "USD", 0, "linear", <<1, 2>>, 2),
   Market("busd", "swap", Coin("BTC", "", ""), "BUSD", "BUSD", 0, "linear", <<1, 2>>, 2),
   Market("inverse", "swap", Coin("BTC", "", ""), "USD", "BTC", 0, "inverse", <<1, 2>>, 0),
   Market("quanto", "swap", Coin("BTC", "", ""), "USD", "XBT", 0, "quanto", <<1, 2>>, 0),
   Market("march", "future", Coin("BTC", "", ""), "USD", "USD", 1, "linear", <<1, 2>>, 2),
   Market("june", "future", Coin("BTC", "", ""), "USD", "USD", 2, "linear", <<1, 2>>, 2),
   Market("index", "index", Coin("BTC", "", ""), "USD", "", 0, "", <<0, 0>>, 0),
   Market("option", "option", Coin("BTC", "", ""), "USD", "USD", 1, "linear", <<1, 2>>, 0)}
=============================================================================
