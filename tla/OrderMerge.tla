------------------------------ MODULE OrderMerge ------------------------------
(***************************************************************************)
(* Which of two records of one order is kept: Order.__or__, latest_status  *)
(* and is_final of arb_dataclasses.py.  Every process keeps the orders it  *)
(* knows in a cache and merges each update into it with this operator; no  *)
(* version number travels with an update, so this choice is all that       *)
(* orders the updates of one order.                                        *)
(*                                                                         *)
(* A record keeps the fields the choice looks at: the status, the creation *)
(* time of the record, the signed quantity filled (negative for a sell)    *)
(* and the three market timestamps, NoStamp when the field is None.  `eoi' *)
(* says whether the record carries the exchange's id of the order; the     *)
(* choice ignores it, but a cancel cannot be sent without it.              *)
(***************************************************************************)
EXTENDS Integers

CONSTANT Absent    \* no order under this id

NoStamp == 0

Status == {"new", "unknown", "open", "cancel", "partial", "canceled",
           "cancel_rejected", "rejected", "filled", "closed", "expired", "failed"}

FinalStatus == {"canceled", "rejected", "closed", "filled"}

\* The position of a status in the list latest_status compares by.
Rank == [new |-> 1, unknown |-> 2, open |-> 3, cancel |-> 4, partial |-> 5,
         canceled |-> 6, cancel_rejected |-> 7, rejected |-> 8, filled |-> 9,
         closed |-> 10, expired |-> 11, failed |-> 12]

Order == [st: Status, time: Nat, filled: Int,
          tRej: Nat, tCan: Nat, tFil: Nat, eoi: BOOLEAN]

IsFinal(o) == o.st \in FinalStatus

BothStamped(a, b) == a # NoStamp /\ b # NoStamp

-----------------------------------------------------------------------------
\* Two final records are compared by the first market timestamp both carry;
\* without one, and when neither is final, by status: two partial fills by the
\* quantity filled, two different statuses by rank, two equal ones by creation.
EarlierStamp(self, other, otherwise) ==
  IF BothStamped(self.tRej, other.tRej) THEN self.tRej < other.tRej
  ELSE IF BothStamped(self.tCan, other.tCan) THEN self.tCan < other.tCan
  ELSE IF BothStamped(self.tFil, other.tFil) THEN self.tFil < other.tFil
  ELSE otherwise

LaterStatus(self, other) ==
  IF self.st # other.st THEN Rank[self.st] > Rank[other.st]
  ELSE IF self.st = "partial" THEN self.filled > other.filled
  ELSE self.time < other.time

\* __or__ returns `self' exactly when KeepsSelf holds.
KeepsSelf(self, other) ==
  IF IsFinal(self) # IsFinal(other) THEN IsFinal(self)
  ELSE IF IsFinal(self) THEN EarlierStamp(self, other, LaterStatus(self, other))
  ELSE LaterStatus(self, other)

\* Mutants of Merge: the rank decides even against a final status; the update
\* always wins; only the status is taken over from the later record.
MergeByRank(self, other) == IF Rank[self.st] > Rank[other.st] THEN self ELSE other
MergeLatest(self, other) == self
MergeStatusOnly(self, other) ==
  IF KeepsSelf(self, other) THEN [other EXCEPT !.st = self.st] ELSE other

Merge(self, other) == IF KeepsSelf(self, other) THEN self ELSE other

-----------------------------------------------------------------------------
\* _store_local: an update is merged into the entry when there is one, ...
Kept(entry, update) == IF entry = Absent THEN update ELSE Merge(update, entry)

\* A mutant of Stored: a final order is not deleted.
StoredAlways(order) == order

\* ... and what is kept is deleted when it is final, stored otherwise, in the
\* cache (_store_local, _delete_order) as in the hash (_store_redis).
Stored(order) == IF IsFinal(order) THEN Absent ELSE order
=============================================================================
