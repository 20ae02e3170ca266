SPECIFICATION Spec
CONSTANTS
  Fills = {"a", "b"}
  FillQty <- Signed
  Readers = {r1}
  MaxLoads = 2
  MaxRestarts = 2
  MaxLost = 1
CHECK_DEADLOCK FALSE
INVARIANTS TypeOK PositionsAgree
