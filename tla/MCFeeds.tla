------------------------------- MODULE MCFeeds -------------------------------
(* What the feeds and the command lines send, and what is made of it at the  *)
(* other end: modules that share no state, each checked on its own in one    *)
(* run: `who' is the one that runs, and the others stay as they start.       *)
EXTENDS MMGrid

CONSTANTS None,
          Instruments, Given, Listed, Rates, Times, Multiplier,          \* PublicFeed
          MaxChanges, MaxErrors, MaxKills, MaxReaders,
          Venues, Size, MaxLoads, Absent,                                \* OrderReports
          Exchanges, Ids, ExchangeOf, Funded, Processes,                 \* Routing
          Servers, Values, MaxCommands, MaxServerStarts, MaxQueue,       \* TriggerSession
          Prices, Quantities, Books, Window, AtrLen, OhlcLen,            \* Indicators
          MaxTime, MaxTrades,
          Dears, MaxPeriod, MaxPairStarts, MaxPairs, MaxInbox            \* PairTrading

VARIABLES
  who,
  pro, venue, wire, feed, mapping, fundings, storing, hash, reader, queue, view, last, since,
  missed, cut, made, errors, kills, readers,
  exchange, side, state, filled, reporting, executions, fetched, loads, record, stamp, traded,
  loaded,
  role, given, added, managed, message,
  family, registered, server, serverConfig, doing, arriving, client, commands, starts, heard, dirty,
  left, killed,
  now, ltps, candle, ohlc, atrs, window, cvd, fair, book, run, emitted, tick, all, volume,
  uncounted, firsts,
  period, dear, sentinels, candles, values, seeker, wants, inbox, scores, firing, sent, begun,
  pairs, mixed, late, broken

Feed == INSTANCE PublicFeed
Report == INSTANCE OrderReports
            WITH venue <- exchange, wire <- reporting, cache <- record, clock <- stamp
Route == INSTANCE Routing WITH Instruments <- Ids, last <- message
Session == INSTANCE TriggerSession WITH config <- serverConfig, queue <- arriving,
                                        MaxStarts <- MaxServerStarts
Flow == INSTANCE Indicators WITH missed <- uncounted
Pair == INSTANCE PairTrading
          WITH clock <- period, cache <- scores, starts <- begun, MaxStarts <- MaxPairStarts

ASSUME FeedsAssumption ==
  /\ GridAssumption /\ Feed!PublicFeedAssumption /\ Report!OrderReportsAssumption /\ Route!RoutingAssumption
  /\ Session!TriggerSessionAssumption /\ Flow!IndicatorsAssumption /\ Pair!PairTradingAssumption

feeding == <<pro, venue, wire, feed, mapping, fundings, storing, hash, reader, queue, view, last,
             since, missed, cut, made, errors, kills, readers>>
reports == <<exchange, side, state, filled, reporting, executions, fetched, loads, record, stamp,
             traded, loaded>>
routes == <<role, given, added, managed, message>>
sessions == <<family, registered, server, serverConfig, doing, arriving, client, commands, starts, heard,
              dirty, left, killed>>
flows == <<now, ltps, candle, ohlc, atrs, window, cvd, fair, book, run, emitted, tick, all, volume,
           uncounted, firsts>>
trading == <<period, dear, sentinels, candles, values, seeker, wants, inbox, scores, firing, sent,
             begun, pairs, mixed, late, broken>>
feeds == <<who, vars, feeding, reports, routes, sessions, flows, trading>>

\* What a component may start in is varied for the one that runs only; the values of a config
\* are told apart by nothing, so the client starts with the same one.
FeedsInit ==
  /\ who \in {"grid", "feed", "reports", "routes", "session", "flows", "pairs"}
  /\ Init
  /\ Feed!Init /\ (who # "feed" => ~pro)
  /\ Report!Init /\ (who # "reports" => exchange = "futures" /\ side = "buy")
  /\ Route!Init
  /\ Session!Init /\ client.bp = 0 /\ (who # "session" => family = "mm")
  /\ Flow!Init
  /\ Pair!Init /\ (who # "pairs" => dear[1] = "a")

FeedsNext ==
  /\ UNCHANGED who
  /\ \/ /\ who = "grid" /\ Next
        /\ UNCHANGED <<feeding, reports, routes, sessions, flows, trading>>
     \/ /\ who = "feed" /\ Feed!Next
        /\ UNCHANGED <<vars, reports, routes, sessions, flows, trading>>
     \/ /\ who = "reports" /\ Report!Next
        /\ UNCHANGED <<vars, feeding, routes, sessions, flows, trading>>
     \/ /\ who = "routes" /\ Route!Next
        /\ UNCHANGED <<vars, feeding, reports, sessions, flows, trading>>
     \/ /\ who = "session" /\ Session!Next
        /\ UNCHANGED <<vars, feeding, reports, routes, flows, trading>>
     \/ /\ who = "flows" /\ Flow!Next
        /\ UNCHANGED <<vars, feeding, reports, routes, sessions, trading>>
     \/ /\ who = "pairs" /\ Pair!Next
        /\ UNCHANGED <<vars, feeding, reports, routes, sessions, flows>>

FeedsSpec == FeedsInit /\ [][FeedsNext]_feeds

\* Each is checked of the component that runs.
FeedsTyped ==
  CASE who = "grid" -> TypeOK
    [] who = "feed" -> Feed!TypeOK
    [] who = "reports" -> Report!TypeOK
    [] who = "routes" -> Route!TypeOK
    [] who = "session" -> Session!TypeOK
    [] who = "flows" -> Flow!TypeOK
    [] who = "pairs" -> Pair!TypeOK

\* What is published is heard: by the processes it is meant for, and by a reader of a feed
\* in its latest form.
Delivered == /\ who = "feed" => Feed!ReaderFollows
             /\ who = "routes" => Route!Routed

\* What the cache and the trades say of an order is what the exchange reported of it.
ReportsAgree == who = "reports" => Report!ReportsAgree

\* A server has the config its client shows and is registered while it runs.
SessionAgrees == who = "session" => Session!SessionAgrees

\* The numbers made of trades, books and candles count each once, and the pairs traded on
\* them are traded against the spread.
NumbersExact == /\ who = "flows" => Flow!FlowsExact
                /\ who = "pairs" => Pair!TradesAgainstSpread

-----------------------------------------------------------------------------
(* The values of the constants                                               *)
Multipliers == [i \in Instruments |-> 3]
ExchangeOf_ == [i \in Ids |-> IF i = 3 THEN 2 ELSE 1]
BuyAndSell == {1, -2}
OneAndTwoLevels == {[bids |-> <<<<3, 2>>>>, asks |-> <<<<4, 1>>>>],
                    [bids |-> <<<<3, 1>>, <<2, 3>>>>, asks |-> <<<<4, 2>>, <<5, 1>>>>]}
Dears_ == {<<"a", "b">>, <<"none", "a">>}
=============================================================================
