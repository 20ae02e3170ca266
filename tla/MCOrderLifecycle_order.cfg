SPECIFICATION Spec
CONSTANTS
  Absent = Absent
  Orders = {o1}
  TradingModes = {TRUE}
  MaxLoads = 1
  MaxCancels = 1
  MaxRestarts = 1
  MaxLost = 0
CHECK_DEADLOCK FALSE
INVARIANTS TypeOK MemoriesAgree AckedIsCancellable
