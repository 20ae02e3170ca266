SPECIFICATION Spec
CONSTANTS
  Absent = Absent
  Updates <- SellUpdates
INVARIANT PartialKeepsMostFilled
