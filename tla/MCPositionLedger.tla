--------------------------- MODULE MCPositionLedger ---------------------------
(* Two fills, of which the second in either order comes back to flat.       *)
EXTENDS PositionLedger

Signed == [a |-> 1, b |-> -1]
=============================================================================
