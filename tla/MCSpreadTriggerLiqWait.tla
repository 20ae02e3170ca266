------------------------ MODULE MCSpreadTriggerLiqWait ------------------------
(* SpreadTriggerLiqWait from flat legs.                                     *)
EXTENDS SpreadTriggerLiqWait

Flat == [leg \in Leg |-> 0]
=============================================================================
