SPECIFICATION FairSpec
CONSTANTS
  Absent = Absent
  Orders = {o1}
  TradingModes = {TRUE, FALSE}
  MaxLoads = 0
  MaxCancels = 2
  MaxRestarts = 0
  MaxLost = 1
CHECK_DEADLOCK FALSE
PROPERTIES RefinesOrderView EndedIsForgotten
