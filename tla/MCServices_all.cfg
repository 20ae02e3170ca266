SPECIFICATION ServicesSpec
CONSTANTS
  Absent = Absent
  Orders = {o1}
  Size = 3
  MaxRestarts = 2
  Watchers = {c1}
  MaxLen = 2
  Periods = 4
  MaxServerStarts = 2
  Instruments = {i1, i2}
  Callbacks = {f, g}
  MaxCalls = 3
  MaxMessages = 1
  Instrs = {i1}
  Zones <- Zones_
  MaxTime = 4
  MaxRows = 3
  MaxKills = 1
  SpotQty = {1}
  PerpQty <- PerpQtys
  Prices = {1, 2}
  Funds = 3
  MaxFills = 2
  MaxTransfers = 1
  MaxLoads = 1
  Codes = {a, b, x}
  Foreign = {x}
  Filters = {{a}, {a, b, x}}
  Loads = {l1, l2}
  MaxStarts = 2
  MaxChanges = 1
  Bases = {b1}
  Targets <- Targets_
  Sizes = {0, 3}
  Dust = 1
  Held <- Helds
  MaxHour = 3
  MaxCrashes = 1
  MaxEchoes = 2
  Exchanges = {"BINANCE", "BINANCE_FUTURES"}
  Longer <- Longer_
  Ids = {1, 2, 3}
  ExchangeOf <- ExchangeOf_
  Expired = {2}
  Public = {"trades", "liquidations"}
  Private = {"orders"}
  Trades = "trades"
  Liquidations = "liquidations"
  Supported <- Supported_
  MaxPerHandler = 2
  Asks <- Asks_
  MaxCommands = 2
  MaxMishaps = 1
  Venues = {"binance", "gateio", "huobi", "mexc", "krakenfutures", "bitget", "bitmex", "poloniexfutures"}
  Markets <- Markets_
  MaxListed = 2
  MaxPasses = 2
  Assets = {"a", "b"}
  Since <- Since_
  Start = 5
  Window = 4
  Rolling = 1
  Threshold = 5
  Scores = {1, 2}
  MaxRetries = 2
  LastHour = 8
  Levels = {1, 2}
  MaxLevels = 1
CHECK_DEADLOCK FALSE
INVARIANTS ServicesTyped RowsReconcile CacheIsSuffix HeardOnceAfterStored RecordsExact BalancesExact LoadsAgree FollowsTargets StartedOnce
PROPERTIES OverStaysOver TargetsOfCandles
