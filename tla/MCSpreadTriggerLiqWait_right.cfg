SPECIFICATION Spec
CONSTANTS
  FirstLeg = "right"
  OrderQty = 2
  Start <- Flat
  MaxOrders = 2
  MaxTriggers = 1
CHECK_DEADLOCK FALSE
INVARIANT FirstIsHedged
