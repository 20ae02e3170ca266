# A TLA+ development of arb-trops

arb-trops trades on crypto exchanges with many small processes that share one
redis server and one database. This project models those processes: how they
keep their common state (orders, positions, balances, the status of the
exchanges), how an event gets from one to another, what the executors do with
it, and what is recorded. The modules are checked with TLC, and the safety
properties the runs check are proved with TLAPS. The repository has no tests; the
source is the only reference. Paths are below `src/packages/`.

## 1. The system

| Component | State | Operations | Source |
|---|---|---|---|
| Order merge | an `Order` | `__or__`, `latest_status`, `is_final` | `arb_defines/.../arb_dataclasses.py` |
| Orders manager (one in each process) | cache of orders per instrument; redis hash | load, fire, receive, cancel, flush, reload | `redis_manager/.../orders_manager.py` |
| Redis manager and handler | channels, callbacks, instruments | construct (load), subscribe, run (refresh, listen), dispatch | `redis_manager.py`, `redis_handler.py` |
| Redis wrappers | status, position, balances, funding rate | `set_*` (hash and event), `refresh_*`, `delete_*` | `redis_wrappers.py` |
| Exchange API | load task, calls to the exchange | load balances, positions, orders; send, cancel; simulate | `exchange_api/.../base_api.py`, `base_fetcher.py` |
| Authenticated websockets | positions and balances in memory, status | order reports, fills; one subclass per venue | `feed_handler/...authenticated_websocket*.py`, `binance/`, `ftx/` |
| Public feeds | mapping of codes, completed tickers, status | books, trades, fundings, liquidations | `exchange_websocket*.py`, `start_fh.py` |
| Executors and triggers | legs, orders, grid, commands, clock | handlers of commands, books, orders, fills, timers | `watchers/.../executor_base.py`, `triggers/` |
| Trigger base and clients | registration, configs | register, commands and pings over pub/sub | `trigger_base.py` |
| Sentinels, watchers | series of values, windows, candles | snapshot and updates to clients; heartbeat thread | `sentinels/`, `watchers/` |
| Seekers | targets read, positions, z-scores | read the file, trade the difference; trade a pair | `seekers/` |
| Database handler | rows of orders, trades, instruments, fees | create, create or update | `db_handler/` |
| Loaders | rows of a venue's markets | disable, normalise, insert or update | `load_codes/` |
| Recorders, cleaner, readers | open files per instrument and day | write, flush, change of day, compress, read | `recorders/`, `readers/` |
| Daemons | running processes | start, stop, kill by pattern | `start_fh.py`, `start_api.py`, `stop_api.py` |
| Hedger, process manager, resolver, tools | none between events | one-shot or dead code | see section 5 |

**How they interact.** Everything between processes goes through redis: a hash
for state that must outlive a process, and pub/sub events for its changes. A
process loads the hashes when its `RedisManager` is built, subscribes, and when
it starts to listen loads them again (not the orders). A change of state is two
calls, one to publish and one to write the hash: *write, publish* for the
status, *publish, write* for orders, positions and fundings. The executor
publishes an `OrderExchangeEvent`; the API sends the order; the exchange reports
it to the authenticated websocket, which publishes `OrderEvent`,
`PositionEvent` and `TradeExecEvent`; the executor hears them, and so does the
database handler.

**What is hard here.** Pub/sub keeps nothing for who is not yet subscribed. Two
processes write one hash in two calls each. Updates of an order carry no version
and are merged by status. The API and the websocket both claim to know an
order's fate. A process may be killed (`pkill`) and started again between any
two calls. Heartbeats, watchdogs and the redis listener are threads on shared
lists. Publishers and subscribers name a channel each in its own way. Local and
UTC days meet at midnight. `PROJECT.json` lists each hazard at its line, with the
properties about it and, where these leave a part of it out, what they leave out.

**What makes each component correct.** Caches: what is kept is the newest of
what was absorbed. Life of an order: all who remember it agree with the
exchange. Status, positions, balances: every copy converges to the exchange's.
Routing: who is meant hears, and nobody else. Executors: what is sent is what
was commanded, once, and a stop stops it. Database: one row per order, whose
quantity its trades add up to. Sentinels: clients hold what the server has.
Recorders: what was recorded is read back. Loads: rows agree with the markets.
Daemons: each channel is fed once.

## 2. Modules

### Orders, status, positions

| Module | Models | Variables and actions |
|---|---|---|
| `OrderMerge` | `Order.__or__` and what is stored of the outcome | operators only |
| `InstrOrdersCache` | one order in one process's cache and in the hash | `cache`, `hash`, and what they absorbed |
| `OrderLifecycle` | trigger, API, websocket, exchange and hash around orders | one action for each handler; `owed` is the hash write after the publication |
| `OrderView` | what an executor may rely on | abstract: `unborn`, then statuses that rise, then `gone`; `OrderLifecycle` implements it |
| `OrderReports` | what the subclasses of the websocket and the fetcher make of a venue's reports | one order of one of five venues; the cache merges the records |
| `StatusBoard` | a hash of status fields, its writers and readers | `set_status` is `WriteHash` then `Publish` |
| `PositionLedger` | one instrument's position | the websocket's two threads, the API's load, executors |
| `BalanceLedger` | the balances of an exchange | moved by fills at moving prices, replaced by loads, deleted by what is in memory |

### Events

| Module | Models | Variables and actions |
|---|---|---|
| `Dispatch` | subscriptions and callbacks of one process | shared callback lists, patterns, `add_instrument`, instruments it does not have |
| `Routing` | channel names of every event and who subscribes to which | any two processes of any roles; what an API and an orders manager do with what they hear |
| `PublicFeed` | books, trades and fundings from the venue to a reader | both client libraries, reconnection, kill between publish and store, a reader's load |
| `Daemons` | starts and stops of feeds and APIs | commands, kill patterns, exchanges, channels and chunks in any order |

### Executors

| Module | Models | Variables and actions |
|---|---|---|
| `MMTrigger` | the market maker and the API's concurrent tasks | updates that sleep, cancels, a stop, crashes |
| `SpreadTrigger` | both legs at once, with retries | the command that is armed, the config it uses, the legs fired |
| `SpreadTriggerLiqWait` | the trigger that waits for the first leg, then chases the hedge | one action for each handler |
| `MMDumb` | one order at each level of a grid | cache, hash, crashes |
| `Roller` | the ping and pong around a funding | clock, loop, order |
| `MMGrid` | the config of a trigger and of several clients | `do_set`, pings, pongs, restarts |
| `TriggerSession` | registration, client and two servers of one id | commands with and without config |

### Values and data

| Module | Models | Variables and actions |
|---|---|---|
| `Sentinel` | snapshot and update protocol with its clients | listener and heartbeat threads |
| `Indicators` | candles, delta, imbalance, price impact, ticks of the trades | one action for each callback; a candle closes in two steps |
| `PairTrading` | two candle sentinels, the z-score sentinel, the pair seeker | periods joined, orders of a pair |
| `TargetSentinel` | hourly candles to a file of targets | the thread of the hour against the listener |
| `TargetSeeker` | the file to orders | watchdog, empty file, simulated fills, crashes |
| `AggrBook` | aggregated books and fundings | best sides, exclusions, conversion, stale lists |
| `OrdersDb` | rows of orders and trades | events of API and websocket, crash of the handler |
| `InstrumentsDb` | instruments during loads | disable, insert, update, overlapping and failing loads |
| `NormalizedCodes` | what eight loaders make of a venue's markets | types, codes, fees, statuses, decimals |
| `Recorder` | files over midnight | rows, buffer, day change, cleaning job |
| `RecordFiles` | a row from recorder to reader | csv, blanks for repeats, parquet |

The names of actions and variables are those of the code where TLA+ allows it;
the header comment of each module says what is abstracted.

**Proof modules** are named after the module they are about: `...Proofs`.
`ExecutorsProofs`, `ServicesProofs`, `ValuesProofs` and `FeedsProofs` hold the
proofs about modules that a run composes (`AggrBook` is composed with the
executors, which read it): `ValuesProofs` those of `MCServices`
in which a value is kept in two places (two processes, or a buffer and a file),
`ServicesProofs`, which extends it, the others.

**Data.** An order record keeps the fields the merge and the cancel read. Prices
are choices, except where an order of them is the point (`AggrBook`,
`Indicators`); quantities are small integers (the code has floats; rounding is
left out except where it decides, as `Dust` in `TargetSeeker`). Names, codes and
days are members of small sets.

**What external parts do.** The exchange accepts, fills in part, ends, refuses;
it reports in order on one channel. Reports sent while the client library
reconnects are lost, up to a bound. Pub/sub delivers in order to the current
subscribers. Network calls answer, fail, or fail after they took effect. A
SIGKILL leaves no word.

## 3. What the runs check

Most runs take a minute or two. `CHECK_DEADLOCK FALSE` stands
wherever every order has ended or every bound is used: the system then idles.

| Run | Distinct states | Question |
|---|---|---|
| `cache_buy` | 65 536 | ten updates of an order in any order and number: `CacheIsNewest`, `HashIsNewest` |
| `cache_sell` | violation | a sell's partial fills are merged the wrong way round |
| `lifecycle` | 1 769 350 | one order with a cancel, a load that may fail, a restart of the trigger: `MemoriesAgree`, `AckedIsCancellable` |
| `lifecycle_view` | 31 320 | sent or simulated, two cancels, a lost report: implements `OrderView`; `EndedIsForgotten` under fairness |
| `lifecycle_up` | violation | the API is UP before its load ends |
| `liqwait_right` | violation | right leg first: no hedge is sent |
| `status` | 186 689 | two feeds of one field and a private websocket, three starts: `Converged`, `AnnouncedIsUp`, and `DisconnectIsSeen` under fairness |
| `ledger` | 1 773 315 | a buy and a sell, a loss, two loads, two restarts, a reader: `PositionsAgree` |
| `executors` | 570 195 | five executors and the books they read: `OnlyThisBatch`, `StopCancels`, `SentOnce`, `PingIsUndone`, `PairsAsCommanded`, `FirstIsHedged`, `SpreadIsWidest` |
| `short` | violation | a config pushed while a short is retried sends it as a long |
| `services` | 1 587 975 | eleven services, one property or two each |
| `feeds` | 1 787 996 | seven kinds of what is sent and what is made of it |

**Composed runs.** `MCExecutors`, `MCServices` and `MCFeeds` bring together
components that share no state. `who` picks the one that runs; the others keep
their initial state, so the run is the sum of the components' own state spaces
and not their product. Each extends one component and instantiates the others.
The theorems about these components are theorems of the composed specification,
so run and theorem name one definition. Real composition, of processes that do
share state, happens inside the modules: each has several processes or threads.

**What each property says, and its exceptions.** An exception a property names
is a fact about the code: it was found by leaving it out, when the run showed the
interleaving. Everything else is excluded, and that is what the runs establish.

- `MemoriesAgree` (trigger and hash against the exchange): unless a report was
  lost a live order is known, and one that is not live is remembered only if the
  API rejected it and told no one, if it EXPIRED, if a reload received it from a
  list older than its end, or (the hash) if the trigger's own write of NEW came
  after the end. A load empties the hash and then fetches: if that fails the hash
  lacks the live orders (`dropped`) until one is written again or listed by a load
  that ends; the triggers still know them. `AckedIsCancellable`: but for a cancel
  asked before the ack.
- `PositionsAgree`: copies agree once quiet. They are wrong only after a lost
  report, a fill handled before the redis thread had put back older
  publications, a sum with a position without a price, or fills across a load.
- `BalancesExact`: as positions, with the load that nothing crossed. The exchange is
  taken to keep as margin what a contract's position has cost. The code's formula
  gives the same for a position that grows, a long that is reduced and a short that
  is turned; it is wrong for a short reduced and a long turned at another price than
  their own (`Misjudged`, `arb_dataclasses.py:1072` and `1075`).
- `Converged`: except a field two processes wrote at a time, or one was killed over.
  `AnnouncedIsUp` holds of these as well; it leaves out a field one process said was
  gone while another held it (`denied`), as the websockets of a shared field do.
  That `trading_up` of a copy is that of the hash is a case of `Converged`.
- `ReportsAgree`: names what each venue's reports get wrong: BINANCE spot's
  trades, expired orders, partial sells, FTX's and ccxt's partial fills, reloads.
- `Delivered`: a reader has what was published last since it subscribed; every
  message reaches who it is meant for, but for the cancel of an exchange's orders
  (heard by nobody) and the reload (heard by its own publisher and by executors
  of an instrument that has the number of the exchange).
- `StartedOnce`: `get_channels_groups` adds the channels of the modes to
  `args.channels` in place (`start_fh.py:40`), so for each exchange after the first
  the liquidations are named twice, as they are for the first if a channel and a mode
  name them. `remove` takes one away, their group stays, and its kill may end the
  trades feed just started. Trades at such an exchange are the exception, and the API
  of an exchange whose code begins with another's of the command.
- `OnlyThisBatch`: but for orders a cancel overtook or whose cancel failed.
  `SentOnce`: unless a crash came between the publication and the hash, or the
  roller ended with a ping out. `PairsAsCommanded`: unless a crash came between
  the legs or a config was pushed; a pair is of a command that has had none and that
  no cancel, stop, later command or restart has ended. `ReadyAgrees`: unless one of the configs
  changed after its pong. `FirstIsHedged` with the left leg first.
- `SessionAgrees`: unless the client did not send its change, or two servers had
  one id and one left.
- `RowsReconcile`, `OverStaysOver`: for exchanges that echo the client's id.
- `CacheIsSuffix`: unless a candle crossed the snapshot. `NumbersExact`: but for
  trades heard between a candle and the reset of its list, the price impact's first
  trade of a run (counted twice), the tick watcher's first trade (not counted);
  a pair is traded the right way round only if sentinel and seeker were given it
  in the same order. `TargetsOfCandles`: what an asset with a hole or a late
  start costs the others.
- `FollowsTargets`: but for what a crash kept from being sent and an echo of an
  older position. `SpreadIsWidest`: until a currency or a status changes.
- `RecordsExact`: on hosts not ahead of UTC; rows with all columns.
- `LoadsAgree`: after whole loads that no other load crossed and with no change of
  the market beside them; but for leveraged tokens of bitcoin, which share a code.

A restarted trigger is left out of the trigger's half of `MemoriesAgree` and of
`AckedIsCancellable`, because what was published between its load and its
subscription may have been the last news of an order.

**Violations.** Four runs show where the code does not do what its own comments
and docstrings say; `PROJECT.json` quotes both sides of each. Further
disagreements are hazards or exceptions above and have no run of their own: a
simulated order is saved as NEW (`base_api.py:365`); a chased order's replacement
is sent with its cancel (`spread_trigger_liq_wait.py:289`, against the comment at
109), and a fill of the hedge may send the next hedge to the first leg (231); the
exit after "already registered, exiting here" is commented out
(`trigger_base.py:35`); `start_fh.py:49` lets a handler exceed its 150 channels;
`roller.py:42` never ends its loop. The models contain all of them.

**Mutants.** Each checked property has a mutant: a definition changed the way a
slip in that code would change it; a property that joins two components has one
in each. The mutated forms stand before the definitions they replace, marked as
mutants.

**Bounds.** All `Max...` constants bound how often something happens that the
system may do any number of times: loads, cancels, restarts, crashes, losses,
commands, edits, trades, periods. They are large enough for the case to happen
and to happen again after a restart: two restarts wherever a second one meets
state the first left behind, two loads where one may cross the other, three
fills where a position is opened, added to and closed. One order is enough in
`OrderLifecycle` and `OrdersDb` (orders of one process meet only in the reload
and in `owed`; rows of different orders never meet); two of what competes for
one place in the others: clients, servers, loads, assets, feeds. The days of
`Recorder` are counted in halves, over two midnights. `MaxRetries` of
`TargetSentinel` is 5 in the code and 2 in the run: what the fifth does and the
second does not is nothing but wait.

**Fairness.** `OrderLifecycle!Fairness` makes every process take what reaches it
and do the write it owes: `RedisHandler.run` is a loop over `pubsub.listen`, and
the write is the next statement. It does not oblige the exchange to end an
order, nor the trigger to fire. `StatusBoard!Fairness` is the same for the
writer's publication and the reader's loop. `MMTrigger!Fairness` makes it handle
events, wake from `sleep` and take books (a market has books); `Roller!Fairness`
lets the clock go on and the loop run. Nothing is assumed of crashes, starts,
reloads or of a restart after a crash.

## 4. What is proved

The theorems hold for every value of the constants that meets the module's
`ASSUME`s, which TLC evaluates in the runs. Each proof has `Init => IInv`,
`IInv /\ [Next]_vars => IInv'` by cases on the actions, and the conclusion by
PTL. `IInv` was checked with TLC before it was proved. The assumptions say that
bounds are natural numbers, that sets are disjoint or finite, that marks such as
"nobody" name no process and are no data, and what data is: prices and sizes are
positive, fees less than all, a book is not crossed, a window is not empty.
They say nothing about order, timing or number of events.

**Orders, status, positions, balances**

- `InstrOrdersCacheProofs`: `TypeCorrect`, `CacheNewest`, `HashNewest`. The step
  is the lemma that the merge returns one of its arguments (`MergeSelects`), is
  not older than either (`MergeNotOlder`, by transitivity of `NotOlder`, which
  rests on `Rank` being injective) and is final as soon as one of them is
  (`MergeFinal`).
- `OrderLifecycleProofs`, for any finite set of orders, reloads, cancels, restarts
  and losses: `LifecycleTyped`, `MemoriesAlwaysAgree`, `AckedAlwaysCancellable`.
  The properties speak of quiet states; the invariant says, order by order, of all
  of them: who may have heard of it (`Unfired`, `CalledOnce`), what records a
  cache, a queue and a pending write may hold (`Remembered`, `OnWay`), and that
  the first ack and the end are in the trigger's cache and in the hash or on the
  way there (`TriggerTold`, `HashTold`). `TriggerImplementsView` is the refinement
  of `OrderView`: while the trigger is not restarted and no reload is stale, each
  step is a step of the view or a stutter; nothing follows the last word of an
  order (`LastWord`).
- `StatusBoardProofs`: `BoardTyped`, `ReadersConverge`, `AnnouncedUp`, for
  any number of writers, readers and fields. The invariant
  adds that an uncontested field has one writer in `set_status` at most, that
  what it is writing is what the hash has, and that the last event on the way to
  a running reader is what the hash has.
- `PositionLedgerProofs`: `LedgerTyped`, `PositionsAlwaysAgree`, for any fills,
  loads, restarts, losses and readers. Each report on the wire starts where the
  one before it ended (`Chained`); the websocket's memory and an executor's view
  have the position last published or it is the last in their inbox
  (`MemoryFollows`, `ReaderFollows`); a load nothing crossed has the exchange's
  position (`LoadClean`); without a known cause, what was heard of is in memory or
  on its way back (`HeardIsKept`).

**Executors** (`ExecutorsProofs`): `ExecutorsAreTyped`, and

- `OneBatchWorks`, `ExecutorsBatch` (`MMTrigger`). `OnlyThisBatch` speaks of quiet
  states only; the invariant says of all: an order that is being sent or works is
  of the current batch, has escaped, or has a cancel due (`Reached`); a request
  on its way has such a cancel behind it in the queue (`Followed`); no order is
  of an update to come, so that the next cancel reaches it (`Numbered`); a stop
  carried out leaves no batch (`Halted`).
- `PairsCommanded`, `ExecutorsPairs` (`SpreadTrigger`). The commands are
  numbered as they are sent: what is in the queue or retried is neither over nor
  served, and the queue keeps their order (`CommandsNumbered`); a
  pair is fired from its first leg to its last (`FiredInPairs`); the trigger has
  the legs of the command it retries (`LegsAsMeant`).
- `SentOnlyOnce` (`MMDumb`, `Roller`): no order is taken for another (`DumbFresh`),
  what is to be fired is one order at a level where the trigger knows none
  (`DumbPlanned`), and what works is in the cache and in the hash, or about to be
  (`DumbKnown`); what the roller sent is what its loop remembers, unless it ended
  with a ping out (`RollerRemembers`).
- `LeftLegIsHedged` (`SpreadTriggerLiqWait`), with the left leg first, no delta
  and nothing short on the left at the start (`LeftFirst`; `liqwait_right` shows
  the other leg fail). Until there is a hedge, what was sent are buys of
  `order_qty` (`FirstOrders`), and the trade that completes it finds its position
  in the memory or in the event before it (`Foreseen`).
- `SpreadAlwaysWidest` (`AggrBook`), for any instruments, books, fees and rates.
  Unless they are stale, the lists the owner uses are the books that are up, sorted
  by what they cost now (`ListsFollow`, `RatesFollow`). A list sorted by `Sorted`
  is any order of its members that the costs allow, as equal prices may come in any:
  its head is one of the cheapest and its other end one of the dearest
  (`FirstOfBest`, `ReverseSorted`), and the difference of two heads is the widest
  spread (`WidestOf`).
- `MMTyped`, `SpreadTyped`: types of the two modules.

**Feeds** (`FeedsProofs`)

- `GridTyped`, `ReadyIsRight` (`MMGrid`): the last pong on its way to a client, or
  else what it shows, is the trigger's config (`LastPongIsConfig`).
- `SessionsAgree` (`TriggerSession`), for any servers, edits, restarts and kills:
  the last command with a config is on its way to a server, or else the server has
  its config (`LastConfigKept`), and it is what the client shows
  (`LastConfigShown`); a start brings one (`StartsBring`) and nothing reached a
  server that does not listen (`BuiltIsBare`); what is registered as up is so
  until all have left or one was killed (`UpWhileRunning`).
- `PairsAgainstSpread` (`PairTrading`), for any series and starts: the scores a
  sentinel has are those of its periods, of its own order of the pair, and it has
  none of a period whose candles it lacks (`ScoresOfPeriods`); a seeker that no
  sentinel of the other order ran with has heard of its own order only
  (`ScoresHeard`), so it sells the dear leg and buys the other (`LegsAgainst`),
  both or, killed between them, one (`LegsInPairs`).
- `AlwaysDelivered` (`PublicFeed`, `Routing`), for any instruments, reconnections,
  kills and readers. Redis has the funding last published or is about to
  (`StoresLast`); the last message of an instrument on its way to a reader is what
  was last published (`HearsLast`), the last on its way from the exchange is what
  the exchange has, and without one the feed has published it (`TellsLast`,
  `PublishesComplete`). For any processes and roles: what runs was given
  instruments and manages their orders (`GivenToRun`), and a message is heard by
  those it is meant for, by cases on the event's channels.
- `ReportsAlwaysAgree` (`OrderReports`), for each venue, any size and loads: each
  report starts where the one before it ended and the last says what the order is
  now (`ReportsChain`), the fills to come are what the trades lack (`TradesAddUp`),
  and the cached record is what the merge makes of the reports heard so far
  (`RecordFollows`).
- `NumbersAlwaysExact` (`Indicators`), for any trades, windows and lengths: no trade
  is outside a candle, its list or the gap the property names (`CandlesAddUp`); the
  window counts at any later time for what all trades do (`WindowAddsUp`); the runs
  and ticks of a side are sums over its trades (`SidesFollow`). The sums are
  recursive functions; that they add up is proved by induction (`UpTo`, `TotalOf`).
- `FeedsAreTyped`: the types of all seven.

**Services** (`ServicesProofs`)

- `DbTyped`, `TableReconciles`, `RowsStayOver` (`OrdersDb`), for any number of
  orders, fills and restarts. The insert comes once and before everything else
  of its order (`InsertFirst`), so an echoed order has one row (`OneRow`); every
  fill is in the table or is one trade in the stream (`Counted`, over the
  cardinality of the stream's trades); a report or a row says the last quantity
  (`Told`), and none says more than was filled (`EventsTrue`, `RowsTrue`).
- `HeardOnce` (`Dispatch`), for any calls that subscribe in any order: each list
  of callbacks of a channel starts with the one that stores, and has none twice
  (`WrapperFirst`).
- `LoadsAlwaysAgree` (`InstrumentsDb`, `NormalizedCodes`). For any loads that
  overlap, fail and are cut: a load has the markets as they are but for those it
  failed on (`MarketsFresh`), leaves the rows of another exchange alone
  (`NoForeign`), and a row agrees with its market unless a load will still write
  it or has made it doubtful (`RowsFollow`). For any markets of a venue: no two
  loaders take one (`OneTaker`), two that one loader takes have one code only if
  they are tokens of one coin (`CodesDiffer`, by cases on the venues), so that a
  row written does not take another's place (`RowsFound`, `RowsWritten`). It is
  assumed that ccxt lists a market once, under a name and under its base, quote,
  type, expiry and contract.
- `SeekerFollows` (`TargetSeeker`), for any bases, sizes, targets and crashes: a
  stored position is what was sent and what was not sent yet or never will be
  (`Accounted`), and has the side of its target or will when its order is counted
  (`OnTheWay`).
- `DaemonsStartedOnce` (`Daemons`), for any exchanges, channels and commands: no
  group of channels a start command asks for is part of another, where the
  liquidations are named once; where they are named twice their group may be part
  of that of the trades only (`Apart`). So its kills spare what it has started
  (`CommandDone`); the chunks of the
  instruments hold each of them once (`OnePiece`, `GroupsOfIds`), and what a kill
  by pattern leaves has no channel of the new feed (`FeedsBeside`, but for the
  liquidations). It is assumed that the sets of channels and instruments are finite.
- `TargetsAlwaysOfCandles` (`TargetSentinel`), for any assets, candles lost,
  repeated and late, windows, thresholds and scores. A series has only candles
  that have closed, each once (`HoursInv`). The rows kept come after the first that
  has a return, and some asset has that row and the one before (`KeptAre`); so an
  asset without holes has a return in each of them, unless it starts two hours
  after another (`GaplessIsSelected`). A rank is what stands below its score
  (`RankIs`), so it grows with the score and the signal falls (`RankGrows`,
  `SignalFalls`); where no scores are equal the ranks are the places
  (`PlacesCount`), as many are within the share from below as from above
  (`AsManySold`), and the signals add up to nothing (`SumOfSigns`).
- `ServicesAreTyped`, for all services of the run: the types are part of their
  invariants, here and in `ValuesProofs`, but for the processes of `Daemons`
  (`ProcessesTyped`) and the fees of `NormalizedCodes` (`FeesTyped`). It is assumed
  that a venue may list finitely many markets.

**Copies of a value** (`ValuesProofs`)

- `BalancesAlwaysExact` (`BalanceLedger`). The fills on their way lead from what
  redis has, with what the fill in hand still moves, to the wallet (`Chained`); the
  formula takes what the exchange takes unless the fill is misjudged
  (`ConsumptionIsCost`), as a position grows, shrinks and turns (`PositionGrows`,
  `PositionShortens`); a load that nothing
  crossed sets what redis has already, one that no fill crossed what the exchange
  has (`LoadClean`); the last event on the way to a process, or else its memory,
  is redis's balance (`InTheEnd`).
- `ClientsHaveTheEnd` (`Sentinel`), for any clients, lengths, periods and restarts.
  What a client will hold when it has heard all messages on their way, one after
  the other (`Hearings`), is the end of the server's values, with the candle that
  is not published yet (`Clients`, `UpToDate`). For that: a client asks once when
  it joined (`AskedOnce`), an answer is what the server has unless a candle
  overtook it (`AnswerTrue`), nothing is ahead of the clock (`NoneAhead`) and a
  server that does not listen owes nothing (`Idling`).
- `RecordsAreExact` (`Recorder`, `RecordFiles`). On a host not ahead of UTC a file
  is of no day before its instrument's last event (`FilesFollowDays`), while it has
  rows to flush that event's day is not over (`BuffersFresh`), and the job takes
  only what is (`RemovedOver`, `LoadedOver`); so no row is lost but at a kill
  (`RowsSomewhere`). Filling what the job blanked gives back what it read
  (`FillMask`): of a run of equal cells the first is kept, and it is the last kept
  one above each (`LeastNat`, `GreatestNat`).

**Why a composed invariant holds.** A step of the composition is a step of one
component, to which its lemma applies, or leaves all its variables as they are
(`ServicesKeepDispatch`, `FeedsKeepSessions`, `ExecutorsStep` and the like).

**Only model-checked.** The liveness
properties `EndedIsForgotten`, `DisconnectIsSeen`, `StopCancels` and `PingIsUndone`
stay with TLC: liveness under fairness and `ENABLED` are out of the prover's
reach. So are the library's induction theorems, which take an operator. Where a
proof needs induction it states it of a set: numbers that are not all in it have a
least that is not (`LeastNat`, `UpTo`), and of finite sets that are not all in it
one is the smallest (`SumOfSigns`). No module declares a RECURSIVE operator.

**What the proofs have changed in the models.** `TargetSentinel` relied on a fact
that is one of its run's bounds and not of the code: that some row has a return.
Of two assets whose candles miss every other hour none has; the last row of an
empty frame is an error in a thread that catches none
(`redis_manager/redis_manager/redis_manager.py:139`). `SaveTargets` now ends the thread
there and writes nothing.

## 5. What is not modelled

- *Dead code:* the hedger (`subscribe_redis` does not exist); the triangular
  seeker (`self.instruments` is never set, `fire_orders` sends nothing); the
  spread-funding seeker (calls without arguments, `get_exchange` missing);
  `*.old.py` (not importable); `MMGrid.create_orders`, `_fix_order_qty`,
  `_fix_orders_size` (never called); the post-only spread trigger after its
  missing `config.fp` (its exception is modelled).
- *One-shot and display:* command lines, resolver, `standalone_tools`, the
  notification and graph tools, `spread_inverse` and the sample seeker (they
  log). The requests they send are actions of the modules that receive them.
- *Process manager:* spawns a list; nothing uses it between components.
- *Formulas:* prices, fees, regressions, standard deviations: only as far as an
  order of events changes them. Serialisation and logging.
- *Venues:* authentication, field names, the loaders that repeat another's
  translation over other names.
- *Faults:* redis and the database do not fail; only the trigger restarts in
  `OrderLifecycle` (the API's and websocket's restarts are loads with the same
  events lost). `StatusBoard` models an exchange's status; an instrument's is
  written by the same code. The `trading_up` of the code asks for three named
  fields; the model asks for all it is given. `SpreadTriggerLiqWait` has one
  configuration for its life and no lost events.

## 6. Plan

Done: merge, caches and life of an order; status, positions, balances; feeds,
routing, dispatch and daemons; six triggers and their clients; sentinels,
indicators, targets, pairs; database, loads, recorders; the proofs of section 4,
with the refinement of `OrderView`.

Left, in this order:

1. Compose `OrderLifecycle` with `MMTrigger`: the batch against the caches.
2. Crashes of the API in `MMTrigger` and `OrderLifecycle`, and of redis.
