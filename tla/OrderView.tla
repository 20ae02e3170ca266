------------------------------- MODULE OrderView -------------------------------
(***************************************************************************)
(* What an executor may rely on about the orders it fires: an order is     *)
(* unborn, then seen with statuses that only move forward in the list of   *)
(* latest_status, then gone for good.  Asking for a cancel makes it CANCEL *)
(* whatever was known of it.                                               *)
(***************************************************************************)
EXTENDS Integers

CONSTANTS Orders, Absent

VARIABLE view

OM == INSTANCE OrderMerge

Init == view = [o \in Orders |-> "unborn"]

Appear(o) ==
  /\ view[o] = "unborn"
  /\ view' = [view EXCEPT ![o] = "new"]

Advance(o, st) ==
  /\ view[o] \in OM!Status \ OM!FinalStatus
  /\ OM!Rank[st] > OM!Rank[view[o]]
  /\ view' = [view EXCEPT ![o] = st]

AskCancel(o) ==
  /\ view[o] \in OM!Status \ OM!FinalStatus
  /\ view' = [view EXCEPT ![o] = "cancel"]

Finish(o) ==
  /\ view[o] \in OM!Status \ OM!FinalStatus
  /\ view' = [view EXCEPT ![o] = "gone"]

Next == \E o \in Orders :
  \/ Appear(o) \/ AskCancel(o) \/ Finish(o)
  \/ \E st \in OM!Status \ OM!FinalStatus : Advance(o, st)

Spec == Init /\ [][Next]_view
=============================================================================
