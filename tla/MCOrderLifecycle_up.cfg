SPECIFICATION Spec
CONSTANTS
  Absent = Absent
  Orders = {o1}
  TradingModes = {TRUE}
  MaxLoads = 1
  MaxCancels = 0
  MaxRestarts = 0
  MaxLost = 0
CHECK_DEADLOCK FALSE
PROPERTY UpOnlyWhenLoaded
