SPECIFICATION FeedsSpec
CONSTANTS
  None = None
  Clients = {a, b}
  MaxEdits = 2
  MaxGridCommands = 2
  MaxGridRestarts = 1
  Instruments = {i1, i2, i3}
  Given = {i1}
  Listed = {i1, i2}
  Rates = {0, 1, 2}
  Times = {1}
  Multiplier <- Multipliers
  MaxChanges = 2
  MaxErrors = 1
  MaxKills = 1
  MaxReaders = 1
  Venues = {"futures", "spot", "ftx", "huobi", "pro"}
  Size = 3
  MaxLoads = 1
  Absent = Absent
  Exchanges = {1, 2}
  Ids = {1, 2, 3}
  ExchangeOf <- ExchangeOf_
  Funded = {2}
  Processes = {p1, p2}
  Servers = {s1, s2}
  Values = {0, 1}
  MaxCommands = 3
  MaxServerStarts = 2
  MaxQueue = 2
  Prices = {2, 3, 4}
  Quantities <- BuyAndSell
  Books <- OneAndTwoLevels
  Window = 1
  AtrLen = 1
  OhlcLen = 2
  MaxTime = 1
  MaxTrades = 3
  Dears <- Dears_
  MaxPeriod = 2
  MaxPairStarts = 3
  MaxPairs = 1
  MaxInbox = 1
CHECK_DEADLOCK FALSE
INVARIANTS FeedsTyped ReadyAgrees Delivered ReportsAgree SessionAgrees NumbersExact
