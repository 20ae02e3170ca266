SPECIFICATION ExecutorsSpec
CONSTANTS
  Sides = {buy}
  MaxUpdates = 2
  MaxCommands = 3
  MaxCrashes = 1
  Bids = {10, 11}
  Asks = {12}
  NbOrders = 1
  MaxDumbOrders = 3
  MaxDumbCrashes = 1
  Hours = 4
  Listed = {1, 3}
  MaxRollers = 2
  FirstLeg = "left"
  OrderQty = 2
  Start <- Flat
  MaxOrders = 3
  MaxTriggers = 2
  Instruments = {i1, i2}
  Converted = {i2}
  Spot = {i1}
  Books <- Books_
  Rates = {1, 2}
  Fundings <- Fundings_
  TakerFee <- TakerFees
  MakerFee <- MakerFees
  One = 10
CHECK_DEADLOCK FALSE
INVARIANTS ExecutorsTyped OnlyThisBatch SentOnce FirstIsHedged SpreadIsWidest
PROPERTIES StopCancels PairsAsCommanded PingIsUndone
