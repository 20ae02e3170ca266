SPECIFICATION Spec
CONSTANTS
  Absent = Absent
  Updates <- BuyUpdates
INVARIANTS TypeOK CacheIsNewest HashIsNewest
